---------------------------- MODULE Parser_proofs ----------------------------
(* Proofs about Parser, for every set of texts. *)
EXTENDS Parser, FiniteSetTheorems, WellFoundedInduction, SequenceTheorems, TLAPS

-----------------------------------------------------------------------------
(* A set of positions has a first one: among the initial segments of its members
   there is a smallest. *)
LEMMA MinInSet ==
    ASSUME NEW S \in SUBSET Nat, S # {}
    PROVE  Min(S) \in S /\ \A y \in S : Min(S) <= y
<1>. DEFINE T == {0 .. x : x \in S}
<1>1. T \subseteq FiniteSubsetsOf(Nat) /\ T # {}
  <2>1. \A x \in S : 0 .. x \in SUBSET Nat /\ IsFiniteSet(0 .. x)
    BY FS_Interval
  <2>. QED
    BY <2>1 DEF FiniteSubsetsOf
<1>2. PICK I \in T : \A J \in T : <<J, I>> \notin StrictSubsetOrdering(Nat)
  BY <1>1, FS_StrictSubsetOrderingWellFounded, WFMin, Zenon
<1>3. PICK x \in S : I = 0 .. x
  OBVIOUS
<1>4. \A y \in S : x <= y
  <2>. SUFFICES ASSUME NEW y \in S, y < x PROVE FALSE
    OBVIOUS
  <2>1. <<0 .. y, 0 .. x>> \in StrictSubsetOrdering(Nat)
    BY x \in 0 .. x DEF StrictSubsetOrdering
  <2>. QED
    BY <2>1, <1>2, <1>3
<1>. QED
  BY <1>4 DEF Min

(* What holds before a loop and is kept by each of its turns holds after all of them. *)
LEMMA UpTo ==
    ASSUME NEW m \in Nat, NEW S, 0 \in S, \A n \in 1 .. m : n - 1 \in S => n \in S
    PROVE  \A n \in 0 .. m : n \in S
<1>. DEFINE B == {n \in 0 .. m : n \notin S}
<1>. SUFFICES ASSUME B # {}
              PROVE  FALSE
  OBVIOUS
<1>1. B \in SUBSET Nat
  OBVIOUS
<1>2. PICK b \in B : \A y \in B : b <= y
  <2>. HIDE DEF B
  <2>. QED
    BY <1>1, MinInSet
<1>3. b \in 1 .. m /\ b - 1 \in 0 .. m /\ b - 1 \notin B
  BY <1>2
<1>. QED
  BY <1>2, <1>3

(* A loop computes something: the function that says what it has after each turn
   exists, for it does as far as any turn. *)
Computes(m, V, first, turn) ==
    \E f \in [0 .. m -> V] : f[0] = first /\ \A n \in 1 .. m : f[n] = turn[f[n - 1]]

LEMMA LoopComputes ==
    ASSUME NEW m \in Nat, NEW V, NEW first \in V, NEW turn \in [V -> V]
    PROVE  Computes(m, V, first, turn)
<1>. DEFINE Upto(f, k) == f[0] = first /\ \A n \in 1 .. k : f[n] = turn[f[n - 1]]
            T == {k \in 0 .. m : \E f \in [0 .. k -> V] : Upto(f, k)}
<1>1. 0 \in T
  <2>. DEFINE f == [n \in 0 .. 0 |-> first]
  <2>1. f \in [0 .. 0 -> V] /\ f[0] = first
    OBVIOUS
  <2>. HIDE DEF f
  <2>2. Upto(f, 0)
    BY <2>1
  <2>. QED
    BY <2>1, <2>2
<1>2. ASSUME NEW k \in 1 .. m, k - 1 \in T
      PROVE  k \in T
  <2>1. PICK f \in [0 .. k - 1 -> V] : Upto(f, k - 1)
    BY <1>2
  <2>. DEFINE g == [n \in 0 .. k |-> IF n = k THEN turn[f[k - 1]] ELSE f[n]]
  <2>2. g \in [0 .. k -> V]
    BY <2>1
  <2>3. g[0] = first /\ g[k] = turn[g[k - 1]]
    BY <2>1
  <2>4. ASSUME NEW n \in 1 .. k - 1
        PROVE  g[n] = turn[g[n - 1]]
    BY <2>1
  <2>. HIDE DEF g
  <2>5. Upto(g, k)
    BY <2>3, <2>4
  <2>6. k \in 0 .. m
    OBVIOUS
  <2>. QED
    BY <2>2, <2>5, <2>6, Zenon
<1>. HIDE DEF T
<1>3. \A k \in 0 .. m : k \in T
  BY <1>1, <1>2, UpTo, Zenon
<1>. QED
  BY <1>3, m \in 0 .. m DEF T, Computes

-----------------------------------------------------------------------------
(* What the small operators do to the fields of a state. *)
LEMMA StateFields ==
    ASSUME NEW p \in State
    PROVE  /\ p.at \in Nat /\ p.at >= 1 /\ p.res \in Nat
           /\ p.heap \in Seq(Node) /\ Len(p.heap) \in Nat /\ DOMAIN p.heap = 1 .. Len(p.heap)
           /\ p.nodes \in Seq(Nat) /\ p.funcs \in Seq([name : Nat, body : Nat])
           /\ p.accepted \in BOOLEAN
BY DEF State

LEMMA ToFields ==
    ASSUME NEW p \in State, NEW k \in Nat \ {0}
    PROVE  LET q == To(p, k)
           IN  /\ q \in State /\ q.at = k /\ q.res = p.res /\ q.heap = p.heap
               /\ q.nodes = p.nodes /\ q.funcs = p.funcs /\ q.accepted = p.accepted
BY DEF State, To

LEMMA FailFields ==
    ASSUME NEW p \in State
    PROVE  LET q == Fail(p)
           IN  /\ q \in State /\ q.at = p.at /\ q.res = Null /\ q.heap = p.heap
               /\ q.nodes = p.nodes /\ q.funcs = p.funcs /\ q.accepted = p.accepted
BY DEF State, Fail, Null

LEMMA PopFields ==
    ASSUME NEW p \in State
    PROVE  LET q == Pop(p)
           IN  /\ q \in State /\ q.at = p.at + 1 /\ q.res = p.res /\ q.heap = p.heap
               /\ q.nodes = p.nodes /\ q.funcs = p.funcs /\ q.accepted = p.accepted
<1>1. p.at + 1 \in Nat \ {0}
  BY StateFields
<1>. QED
  BY <1>1, ToFields DEF Pop

LEMMA AppendTyped ==
    ASSUME NEW nodes \in Seq(Nat), NEW n \in Nat
    PROVE  ast_append(nodes, n) \in Seq(Nat)
BY DEF ast_append

LEMMA KeepFields ==
    ASSUME NEW p \in State
    PROVE  LET q == Keep(p)
           IN  /\ q \in State /\ q.at = p.at /\ q.res = p.res /\ q.heap = p.heap
               /\ q.nodes = ast_append(p.nodes, p.res)
               /\ q.funcs = p.funcs /\ q.accepted = p.accepted
BY AppendTyped DEF State, Keep

LEMMA Grows ==
    ASSUME NEW h \in Seq(Node), NEW n \in Node
    PROVE  LET g == Append(h, n)
           IN  /\ g \in Seq(Node) /\ Len(g) = Len(h) + 1 /\ g[Len(h) + 1] = n
               /\ \A m \in 1 .. Len(h) : g[m] = h[m]
BY AppendProperties

Made(type, words, kids) == [type |-> type, words |-> words, kids |-> kids]

LEMMA MadeFields ==
    ASSUME NEW type \in NodeType, NEW words \in Seq(Nat), NEW kids \in Seq(Nat)
    PROVE  LET n == Made(type, words, kids)
           IN  n \in Node /\ n.type = type /\ n.words = words /\ n.kids = kids
BY DEF Node, Made

LEMMA NewFields ==
    ASSUME NEW p \in State, NEW type \in NodeType, NEW words \in Seq(Nat), NEW kids \in Seq(Nat)
    PROVE  LET q == New(p, type, words, kids)
           IN  /\ q \in State /\ q.at = p.at /\ q.nodes = p.nodes
               /\ q.funcs = p.funcs /\ q.accepted = p.accepted
               /\ q.res = Len(p.heap) + 1 /\ q.heap = Append(p.heap, Made(type, words, kids))
<1>. DEFINE h == Append(p.heap, Made(type, words, kids))
            r == Len(p.heap) + 1
<1>1. New(p, type, words, kids) = [p EXCEPT !.heap = h, !.res = r]
  BY DEF New, Made
<1>2. h \in Seq(Node) /\ r \in Nat
  BY MadeFields, StateFields, Grows
<1>. HIDE DEF h, r
<1>3. LET q == [p EXCEPT !.heap = h, !.res = r]
      IN  /\ q \in State /\ q.at = p.at /\ q.res = r /\ q.heap = h
          /\ q.nodes = p.nodes /\ q.funcs = p.funcs /\ q.accepted = p.accepted
  BY <1>2 DEF State
<1>. QED
  BY <1>1, <1>3 DEF h, r

-----------------------------------------------------------------------------
(* The loops.  Loop(turn, f) says of f what Repeat chooses it for: f[n][q] is where
   the loop ends that begins in q and has no more than n turns. *)
Turns == Len(tokens) + 1
LoopFrom(turn, f, n) ==
    [q \in State |-> LET r == turn[q] IN IF n = 0 \/ r = q THEN q ELSE f[n - 1][r]]
Loop(turn, f) == f = [n \in 0 .. Turns |-> LoopFrom(turn, f, n)]

LEMMA RepeatLoops ==
    ASSUME tokens \in Seq(TokenType), NEW turn \in [State -> State]
    PROVE  /\ Turns \in Nat
           /\ \E f : /\ \A p : Repeat(turn, p) = f[Turns][p]
                     /\ \A q \in State : f[0][q] = q
                     /\ \A n \in 1 .. Turns : \A q \in State :
                          f[n][q] = IF turn[q] = q THEN q ELSE f[n - 1][turn[q]]
<1>1. Turns \in Nat
  BY DEF Turns
<1>. DEFINE V == [State -> State]
            step == [f \in V |-> [q \in State |-> IF turn[q] = q THEN q ELSE f[turn[q]]]]
            first == [q \in State |-> q]
<1>2. first \in V
  OBVIOUS
<1>3. step \in [V -> V]
  OBVIOUS
<1>4. \A f \in V : step[f] = [q \in State |-> IF turn[q] = q THEN q ELSE f[turn[q]]]
  OBVIOUS
<1>. HIDE DEF step
<1>5. PICK f \in [0 .. Turns -> V] : f[0] = first /\ \A n \in 1 .. Turns : f[n] = step[f[n - 1]]
  <2>. HIDE DEF V, first
  <2>1. Computes(Turns, V, first, step)
    BY <1>1, <1>2, <1>3, LoopComputes, Zenon
  <2>. QED
    BY <2>1 DEF Computes
<1>6. Loop(turn, f)
  <2>1. ASSUME NEW n \in 0 .. Turns PROVE f[n] = LoopFrom(turn, f, n)
    <3>1. CASE n = 0
      <4>1. LoopFrom(turn, f, 0) = first
        BY DEF LoopFrom
      <4>. QED
        BY <3>1, <4>1, <1>5
    <3>2. CASE n # 0
      <4>1. n \in 1 .. Turns /\ n - 1 \in 0 .. Turns
        BY <1>1, <3>2
      <4>2. f[n - 1] \in V
        BY <4>1, <1>5
      <4>3. f[n] = [q \in State |-> IF turn[q] = q THEN q ELSE f[n - 1][turn[q]]]
        BY <4>1, <4>2, <1>4, <1>5
      <4>. QED
        BY <4>3, <3>2 DEF LoopFrom
    <3>. QED
      BY <3>1, <3>2
  <2>2. f = [n \in 0 .. Turns |-> f[n]]
    BY <1>5
  <2>. QED
    BY <2>1, <2>2 DEF Loop
<1>7. Loop(turn, CHOOSE g : Loop(turn, g))
  BY <1>6, Zenon
<1>. DEFINE g == CHOOSE g : Loop(turn, g)
<1>8. \A p : Repeat(turn, p) = g[Turns][p]
  BY Zenon DEF Repeat, Loop, LoopFrom, Turns
<1>. HIDE DEF g
<1>9. \A n \in 0 .. Turns : g[n] = LoopFrom(turn, g, n)
  BY <1>7, Zenon DEF Loop, g
<1>10. ASSUME NEW q \in State PROVE g[0][q] = q
  <2>1. 0 \in 0 .. Turns
    BY <1>1
  <2>2. g[0] = LoopFrom(turn, g, 0)
    BY <1>9, <2>1, Zenon
  <2>. QED
    BY <2>2 DEF LoopFrom
<1>11. ASSUME NEW n \in 1 .. Turns, NEW q \in State
       PROVE  g[n][q] = IF turn[q] = q THEN q ELSE g[n - 1][turn[q]]
  <2>1. n \in 0 .. Turns /\ n # 0
    BY <1>1
  <2>2. g[n] = LoopFrom(turn, g, n)
    BY <1>9, <2>1, Zenon
  <2>. QED
    BY <2>1, <2>2 DEF LoopFrom
<1>. QED
  BY <1>1, <1>8, <1>10, <1>11

(* A loop ends in a state its turns keep it among. *)
LEMMA RepeatKeeps ==
    ASSUME tokens \in Seq(TokenType), NEW turn \in [State -> State],
           NEW S \in SUBSET State, \A q \in S : turn[q] \in S, NEW p \in S
    PROVE  Repeat(turn, p) \in S
<1>1. Turns \in Nat
  BY RepeatLoops
<1>2. PICK f : /\ \A q : Repeat(turn, q) = f[Turns][q]
               /\ \A q \in State : f[0][q] = q
               /\ \A n \in 1 .. Turns : \A q \in State :
                    f[n][q] = IF turn[q] = q THEN q ELSE f[n - 1][turn[q]]
  BY RepeatLoops
<1>. DEFINE T == {n \in 0 .. Turns : \A q \in S : f[n][q] \in S}
<1>3. 0 \in T
  BY <1>1, <1>2
<1>4. ASSUME NEW n \in 1 .. Turns, n - 1 \in T PROVE n \in T
  <2>1. n \in 0 .. Turns
    BY <1>1
  <2>2. ASSUME NEW q \in S PROVE f[n][q] \in S
    BY <1>2, <1>4
  <2>. QED
    BY <2>1, <2>2
<1>. HIDE DEF T
<1>5. \A n \in 0 .. Turns : n \in T
  BY <1>1, <1>3, <1>4, UpTo, Zenon
<1>6. Turns \in T
  BY <1>1, <1>5
<1>. QED
  BY <1>2, <1>6 DEF T

(* If each turn pops a token or is the last, the loop has ended when it is left. *)
LEMMA RepeatStops ==
    ASSUME tokens \in Seq(TokenType), NEW turn \in [State -> State],
           NEW S \in SUBSET State, \A q \in S : turn[q] \in S,
           \A q \in S : q.at <= Turns,
           \A q \in S : turn[q].at > q.at \/ turn[turn[q]] = turn[q],
           NEW p \in S
    PROVE  turn[Repeat(turn, p)] = Repeat(turn, p)
<1>1. Turns \in Nat
  BY RepeatLoops
<1>2. PICK f : /\ \A q : Repeat(turn, q) = f[Turns][q]
               /\ \A q \in State : f[0][q] = q
               /\ \A n \in 1 .. Turns : \A q \in State :
                    f[n][q] = IF turn[q] = q THEN q ELSE f[n - 1][turn[q]]
  BY RepeatLoops
<1>. DEFINE Ends(n, q) == turn[q] = q \/ q.at + n > Turns => turn[f[n][q]] = f[n][q]
            T == {n \in 0 .. Turns : \A q \in S : Ends(n, q)}
<1>3. \A q \in S : q \in State /\ q.at \in Nat /\ q.at >= 1 /\ q.at <= Turns
  BY StateFields
<1>4. 0 \in T
  <2>1. ASSUME NEW q \in S PROVE Ends(0, q)
    <3>1. f[0][q] = q /\ ~(q.at + 0 > Turns)
      BY <1>1, <1>2, <1>3
    <3>. QED
      BY <3>1
  <2>. QED
    BY <1>1, <2>1
<1>5. ASSUME NEW n \in 1 .. Turns, n - 1 \in T PROVE n \in T
  <2>1. n \in 0 .. Turns /\ n - 1 \in Nat
    BY <1>1
  <2>2. ASSUME NEW q \in S PROVE Ends(n, q)
    <3>1. CASE turn[q] = q
      BY <1>2, <1>3, <3>1
    <3>2. CASE turn[q] # q /\ q.at + n > Turns
      <4>. DEFINE r == turn[q]
      <4>1. f[n][q] = f[n - 1][r] /\ r \in S
        BY <1>2, <1>3, <3>2
      <4>2. Ends(n - 1, r)
        BY <1>5, <4>1
      <4>3. r.at > q.at \/ turn[r] = r
        OBVIOUS
      <4>4. r.at \in Nat /\ q.at \in Nat
        BY <1>3, <4>1
      <4>. HIDE DEF r
      <4>5. r.at > q.at => r.at + (n - 1) > Turns
        BY <1>1, <3>2, <4>4
      <4>6. turn[r] = r \/ r.at + (n - 1) > Turns
        BY <4>3, <4>5
      <4>. QED
        BY <4>1, <4>2, <4>6
    <3>. QED
      BY <3>1, <3>2
  <2>. QED
    BY <2>1, <2>2
<1>. HIDE DEF T
<1>6. \A n \in 0 .. Turns : n \in T
  BY <1>1, <1>4, <1>5, UpTo, Zenon
<1>7. Ends(Turns, p)
  BY <1>1, <1>6 DEF T
<1>8. p.at + Turns > Turns
  BY <1>1, <1>3
<1>. QED
  BY <1>2, <1>7, <1>8

-----------------------------------------------------------------------------
(* Every rule leaves a state, whatever state it begins in. *)
Inners == [list : [State -> State], branches : [State -> State]]

LEMMA BehindFrom ==
    ASSUME tokens \in Seq(TokenType), NEW type, type # "eof", NEW k \in Nat \ {0}
    PROVE  /\ Behind(type, k) \in Nat \ {0} /\ Behind(type, k) >= k
           /\ k <= Turns => Behind(type, k) <= Turns
           /\ \A j \in k .. Behind(type, k) - 1 : At(j) = type
<1>. DEFINE S == {j \in k .. k + Len(tokens) : At(j) # type}
<1>1. Len(tokens) \in Nat /\ Turns \in Nat /\ Turns = Len(tokens) + 1
  BY DEF Turns
<1>2. \A j \in Nat : j > Len(tokens) => At(j) # type
  BY DEF At
<1>3. S \in SUBSET Nat /\ k + Len(tokens) \in S
  BY <1>1, <1>2
<1>4. k <= Turns => Turns \in S
  BY <1>1, <1>2
<1>5. S \subseteq k .. k + Len(tokens) /\ \A j \in k .. k + Len(tokens) : j \in S \/ At(j) = type
  OBVIOUS
<1>. DEFINE min == Min(S)
<1>6. Behind(type, k) = min
  BY DEF Behind
<1>. HIDE DEF S
<1>7. min \in S /\ \A y \in S : min <= y
  BY <1>3, MinInSet
<1>. HIDE DEF min
<1>8. min \in k .. k + Len(tokens)
  BY <1>5, <1>7
<1>9. min \in Nat \ {0} /\ min >= k /\ (k <= Turns => min <= Turns)
  BY <1>1, <1>4, <1>7, <1>8
<1>10. ASSUME NEW j \in k .. min - 1 PROVE At(j) = type
  <2>1. j \in k .. k + Len(tokens) /\ j \notin S
    BY <1>1, <1>7, <1>8
  <2>. QED
    BY <2>1, <1>5
<1>. QED
  BY <1>6, <1>9, <1>10

LEMMA SkipFields ==
    ASSUME tokens \in Seq(TokenType), NEW p \in State
    PROVE  LET q == SkipNewlines(p)
           IN  /\ q \in State /\ q.at >= p.at /\ q.res = p.res /\ q.heap = p.heap
               /\ q.nodes = p.nodes /\ q.funcs = p.funcs /\ q.accepted = p.accepted
               /\ p.at <= Turns => q.at <= Turns
<1>1. p.at \in Nat \ {0}
  BY StateFields
<1>. DEFINE k == Behind("nl", p.at)
<1>2. k \in Nat \ {0} /\ k >= p.at /\ (p.at <= Turns => k <= Turns)
  BY <1>1, BehindFrom
<1>3. SkipNewlines(p) = To(p, k)
  BY DEF SkipNewlines
<1>. HIDE DEF k
<1>. QED
  BY <1>2, <1>3, ToFields

LEMMA KeptState ==
    ASSUME NEW p \in State
    PROVE  Kept(p) \in State
BY KeepFields DEF Kept

LEMMA OperatorState ==
    ASSUME NEW p \in State, NEW type \in NodeType, NEW kids \in Seq(Nat)
    PROVE  Operator(p, type, kids) \in State
<1>1. << >> \in Seq(Nat)
  OBVIOUS
<1>2. New(p, type, << >>, kids) \in State
  BY <1>1, NewFields
<1>. QED
  BY <1>2, KeepFields DEF Operator

LEMMA JoinState ==
    ASSUME NEW left \in State, NEW type \in NodeType, NEW right \in State
    PROVE  Join(left, type, right) \in State
<1>1. <<left.res, right.res>> \in Seq(Nat)
  BY StateFields
<1>. QED
  BY <1>1, OperatorState DEF Join

LEMMA RedirectionState ==
    ASSUME NEW p \in State
    PROVE  LET q == parse_redirection(p)
           IN  /\ q \in State /\ q.res = Len(p.heap) + 1
               /\ q.at = IF Peek(p) = ">w" \/ PeekTwo(p) \in {"eof", ";"}
                         THEN p.at + 1 ELSE p.at + 2
               /\ q.nodes = ast_append(p.nodes, q.res)
               /\ q.funcs = p.funcs /\ q.accepted = p.accepted
               /\ \E words \in Seq(Nat) : q.heap = Append(p.heap, Made("redir", words, << >>))
<1>. DEFINE none == << >>
            one == <<p.at>>
            two == <<p.at, p.at + 1>>
            words == IF Peek(p) = ">w" THEN one ELSE two
            k == IF Peek(p) = ">w" \/ PeekTwo(p) \in {"eof", ";"} THEN p.at + 1 ELSE p.at + 2
            a == To(p, k)
            b == New(a, "redir", words, none)
<1>1. /\ one \in Seq(Nat) /\ two \in Seq(Nat) /\ none \in Seq(Nat)
      /\ p.at + 1 \in Nat \ {0} /\ p.at + 2 \in Nat \ {0}
  BY StateFields
<1>2. "redir" \in NodeType
  BY DEF NodeType
<1>3. parse_redirection(p) = Keep(b)
  BY DEF parse_redirection
<1>. HIDE DEF none, one, two
<1>4. words \in Seq(Nat) /\ k \in Nat \ {0}
  BY <1>1
<1>. HIDE DEF k, words
<1>5. /\ a \in State /\ a.at = k /\ a.heap = p.heap /\ a.nodes = p.nodes /\ a.funcs = p.funcs
      /\ a.accepted = p.accepted
  BY <1>4, ToFields
<1>. HIDE DEF a
<1>6. /\ b \in State /\ b.at = a.at /\ b.nodes = a.nodes /\ b.funcs = a.funcs
      /\ b.accepted = a.accepted /\ b.res = Len(a.heap) + 1
      /\ b.heap = Append(a.heap, Made("redir", words, none))
  <2>1. a \in State /\ words \in Seq(Nat) /\ none \in Seq(Nat)
    BY <1>1, <1>4, <1>5
  <2>. QED
    BY <1>2, <2>1, NewFields
<1>. HIDE DEF b
<1>7. LET q == Keep(b)
      IN  /\ q \in State /\ q.at = k /\ q.res = Len(p.heap) + 1
          /\ q.nodes = ast_append(p.nodes, q.res)
          /\ q.funcs = p.funcs /\ q.accepted = p.accepted
          /\ q.heap = Append(p.heap, Made("redir", words, none))
  BY <1>5, <1>6, KeepFields
<1>. QED
  BY <1>3, <1>4, <1>7 DEF k, none

PrefixTurn == [q \in State |-> IF Peek(q) \in Redirections THEN parse_redirection(q) ELSE q]

LEMMA PrefixTurns ==
    /\ PrefixTurn \in [State -> State]
    /\ \A q \in State : PrefixTurn[q] = IF Peek(q) \in Redirections
                                        THEN parse_redirection(q) ELSE q
    /\ \A q : handle_prefix(q) = Repeat(PrefixTurn, q)
<1>1. \A q \in State : parse_redirection(q) \in State
  BY RedirectionState
<1>2. \A q : handle_prefix(q) = Repeat(PrefixTurn, q)
  BY Zenon DEF handle_prefix, PrefixTurn
<1>. QED
  BY <1>1, <1>2 DEF PrefixTurn

LEMMA PrefixState ==
    ASSUME tokens \in Seq(TokenType), NEW p \in State
    PROVE  handle_prefix(p) \in State /\ Len(handle_prefix(p).heap) >= Len(p.heap)
<1>. DEFINE S == {q \in State : Len(q.heap) >= Len(p.heap)}
<1>1. ASSUME NEW q \in S PROVE PrefixTurn[q] \in S
  <2>1. CASE Peek(q) \in Redirections
    <3>. DEFINE r == parse_redirection(q)
    <3>1. PrefixTurn[q] = r
      BY <2>1, PrefixTurns
    <3>2. PICK words \in Seq(Nat) :
            r \in State /\ r.heap = Append(q.heap, Made("redir", words, << >>))
      BY RedirectionState
    <3>. DEFINE none == << >>
    <3>3. none \in Seq(Nat) /\ "redir" \in NodeType
      BY DEF NodeType
    <3>. HIDE DEF none
    <3>4. Made("redir", words, none) \in Node
      BY <3>3, MadeFields
    <3>5. Len(Append(q.heap, Made("redir", words, none))) = Len(q.heap) + 1
      BY <3>4, StateFields, Grows
    <3>. HIDE DEF r
    <3>6. Len(r.heap) = Len(q.heap) + 1
      BY <3>2, <3>5 DEF none
    <3>. QED
      BY <3>1, <3>2, <3>6, StateFields
  <2>2. CASE Peek(q) \notin Redirections
    BY <2>2, PrefixTurns
  <2>. QED
    BY <2>1, <2>2
<1>2. p \in S /\ S \in SUBSET State
  BY StateFields
<1>3. handle_prefix(p) = Repeat(PrefixTurn, p) /\ PrefixTurn \in [State -> State]
  BY PrefixTurns
<1>. HIDE DEF S
<1>4. Repeat(PrefixTurn, p) \in S
  BY <1>1, <1>2, <1>3, RepeatKeeps
<1>. QED
  BY <1>3, <1>4 DEF S

Redirs(p, n) == [k \in 1 .. Len(p.heap) - n |-> n + k]

LEMMA RedirsTyped ==
    ASSUME NEW p \in State, NEW n \in 1 .. Len(p.heap)
    PROVE  /\ Redirs(p, n) \in Seq(Nat) /\ Len(Redirs(p, n)) = Len(p.heap) - n
           /\ \A k \in 1 .. Len(p.heap) - n : Redirs(p, n)[k] = n + k
<1>. DEFINE m == Len(p.heap) - n
<1>1. m \in Nat /\ n \in Nat
  BY StateFields
<1>2. Redirs(p, n) = [k \in 1 .. m |-> n + k]
  BY DEF Redirs
<1>. HIDE DEF m
<1>3. [k \in 1 .. m |-> n + k] \in Seq(Nat) /\ Len([k \in 1 .. m |-> n + k]) = m
  BY <1>1
<1>4. \A k \in 1 .. m : [j \in 1 .. m |-> n + j][k] = n + k
  OBVIOUS
<1>. QED
  BY <1>2, <1>3, <1>4 DEF m

LEMMA FilledFields ==
    ASSUME NEW p \in State, NEW n \in 1 .. Len(p.heap), NEW words \in Seq(Nat)
    PROVE  LET q == Filled(p, n, words)
           IN  /\ q \in State /\ q.at = p.at /\ q.nodes = p.nodes
               /\ q.funcs = p.funcs /\ q.accepted = p.accepted /\ q.res = n
               /\ q.heap = [p.heap EXCEPT ![n] = Made(p.heap[n].type, words, Redirs(p, n))]
<1>. DEFINE node == Made(p.heap[n].type, words, Redirs(p, n))
            h == [p.heap EXCEPT ![n] = node]
<1>1. p.heap \in Seq(Node) /\ p.heap[n] \in Node /\ n \in Nat
  BY StateFields
<1>2. p.heap[n].type \in NodeType
  BY <1>1 DEF Node
<1>3. node \in Node
  BY <1>2, MadeFields, RedirsTyped
<1>4. h \in Seq(Node)
  <2>. HIDE DEF node
  <2>. QED
    BY <1>1, <1>3, ExceptSeq
<1>5. Filled(p, n, words) = [p EXCEPT !.heap = h, !.res = n]
  BY Zenon DEF Filled, Made, Redirs
<1>. HIDE DEF h
<1>6. LET q == [p EXCEPT !.heap = h, !.res = n]
      IN  /\ q \in State /\ q.at = p.at /\ q.nodes = p.nodes
          /\ q.funcs = p.funcs /\ q.accepted = p.accepted /\ q.res = n /\ q.heap = h
  BY <1>1, <1>4 DEF State
<1>. QED
  BY <1>5, <1>6 DEF h

LEMMA AddKidFields ==
    ASSUME NEW p \in State, NEW n \in 1 .. Len(p.heap)
    PROVE  LET q == AddKid(n, p)
           IN  /\ q \in State /\ q.at = p.at /\ q.nodes = p.nodes
               /\ q.funcs = p.funcs /\ q.accepted = p.accepted /\ q.res = p.res
               /\ q.heap = [p.heap EXCEPT ![n] = Made(p.heap[n].type, p.heap[n].words,
                                                      Append(p.heap[n].kids, p.res))]
<1>. DEFINE more == Append(p.heap[n].kids, p.res)
            node == Made(p.heap[n].type, p.heap[n].words, more)
            h == [p.heap EXCEPT ![n] = node]
<1>1. p.heap \in Seq(Node) /\ p.heap[n] \in Node /\ n \in Nat /\ p.res \in Nat
  BY StateFields
<1>2. p.heap[n].type \in NodeType /\ p.heap[n].words \in Seq(Nat) /\ p.heap[n].kids \in Seq(Nat)
  BY <1>1 DEF Node
<1>3. more \in Seq(Nat)
  BY <1>1, <1>2
<1>4. [p.heap[n] EXCEPT !.kids = more] = node
  <2>. HIDE DEF more
  <2>1. \A old \in Node : [old EXCEPT !.kids = more] = Made(old.type, old.words, more)
    BY DEF Node, Made
  <2>. QED
    BY <1>1, <2>1, Zenon
<1>5. AddKid(n, p) = [p EXCEPT !.heap = [p.heap EXCEPT ![n] = [p.heap[n] EXCEPT !.kids = more]]]
  BY Zenon DEF AddKid
<1>. HIDE DEF more
<1>6. node \in Node
  BY <1>2, <1>3, MadeFields
<1>. HIDE DEF node
<1>7. h \in Seq(Node)
  BY <1>1, <1>6, ExceptSeq
<1>8. AddKid(n, p) = [p EXCEPT !.heap = h]
  BY <1>4, <1>5
<1>. HIDE DEF h
<1>9. LET q == [p EXCEPT !.heap = h]
      IN  /\ q \in State /\ q.at = p.at /\ q.nodes = p.nodes
          /\ q.funcs = p.funcs /\ q.accepted = p.accepted /\ q.res = p.res /\ q.heap = h
  BY <1>7 DEF State
<1>. QED
  BY <1>8, <1>9 DEF h, node, more

LEMMA AddKidState ==
    ASSUME NEW p \in State, NEW n \in Nat
    PROVE  AddKid(n, p) \in State
<1>1. CASE n \in 1 .. Len(p.heap)
  BY <1>1, AddKidFields
<1>2. CASE n \notin 1 .. Len(p.heap)
  <2>. DEFINE kid == [p.heap[n] EXCEPT !.kids = Append(@, p.res)]
  <2>1. AddKid(n, p) = [p EXCEPT !.heap = [p.heap EXCEPT ![n] = kid]]
    BY Zenon DEF AddKid
  <2>. HIDE DEF kid
  <2>2. \A x : \A h \in Seq(Node) : n \notin 1 .. Len(h) => [h EXCEPT ![n] = x] = h
    OBVIOUS
  <2>3. [p.heap EXCEPT ![n] = kid] = p.heap
    BY <1>2, <2>2, StateFields, Zenon
  <2>4. [p EXCEPT !.heap = p.heap] \in State
    BY DEF State
  <2>. QED
    BY <2>1, <2>3, <2>4
<1>. QED
  BY <1>1, <1>2

LEMMA ResultState ==
    ASSUME NEW p \in State, NEW n \in Nat
    PROVE  LET q == Result(n, p)
           IN  /\ q \in State /\ q.at = p.at /\ q.heap = p.heap /\ q.nodes = p.nodes
               /\ q.funcs = p.funcs /\ q.accepted = p.accepted
               /\ q.res = IF Failed(p) THEN Null ELSE n
BY DEF State, Result, Failed, Null

LEMMA ChildState ==
    ASSUME NEW p \in State, NEW n \in Nat
    PROVE  Child(n, p) \in State
BY KeepFields, AddKidState DEF Child

LEMMA InnerState ==
    ASSUME NEW inner \in Inners, NEW p \in State
    PROVE  inner.list[p] \in State /\ inner.branches[p] \in State
BY DEF Inners

LEMMA ListInState ==
    ASSUME NEW inner \in Inners, NEW n \in Nat, NEW p \in State
    PROVE  ListIn(inner, n, p) \in State
BY PopFields, InnerState, ChildState DEF ListIn

LEMMA ConditionState ==
    ASSUME NEW inner \in Inners, NEW n \in Nat, NEW type, NEW p \in State
    PROVE  parse_condition(inner, n, type, p) \in State
BY ListInState, FailFields DEF parse_condition

LEMMA CloseState ==
    ASSUME NEW type, NEW p \in State
    PROVE  Close(type, p) \in State
BY PopFields, FailFields DEF Close

LEMMA NewEmpty ==
    ASSUME NEW p \in State, NEW type \in NodeType
    PROVE  LET q == New(p, type, << >>, << >>)
           IN  /\ q \in State /\ q.at = p.at /\ q.nodes = p.nodes
               /\ q.funcs = p.funcs /\ q.accepted = p.accepted
               /\ q.res = Len(p.heap) + 1
               /\ q.heap = Append(p.heap, Made(type, << >>, << >>))
<1>. DEFINE none == << >>
<1>1. none \in Seq(Nat)
  OBVIOUS
<1>. HIDE DEF none
<1>2. LET q == New(p, type, none, none)
      IN  /\ q \in State /\ q.at = p.at /\ q.nodes = p.nodes
          /\ q.funcs = p.funcs /\ q.accepted = p.accepted
          /\ q.res = Len(p.heap) + 1
          /\ q.heap = Append(p.heap, Made(type, none, none))
  BY <1>1, NewFields
<1>. QED
  BY <1>2 DEF none

LEMMA ElseState ==
    ASSUME NEW inner \in Inners, NEW n \in Nat, NEW p \in State
    PROVE  parse_rule_else(inner, n, p) \in State
<1>1. "if" \in NodeType
  BY DEF NodeType
<1>2. Keep(New(p, "if", << >>, << >>)) \in State
  BY <1>1, NewEmpty, KeepFields
<1>3. Child(n, inner.branches[Keep(New(p, "if", << >>, << >>))]) \in State
  BY <1>2, InnerState, ChildState
<1>4. ListIn(inner, n, p) \in State
  BY ListInState
<1>. QED
  BY <1>3, <1>4, Zenon DEF parse_rule_else

LEMMA BranchesState ==
    ASSUME NEW inner \in Inners, NEW p \in State
    PROVE  parse_branches(inner, p) \in State
<1>1. p.res \in Nat
  BY StateFields
<1>2. ListIn(inner, p.res, ListIn(inner, p.res, p)) \in State
  BY <1>1, ListInState
<1>3. parse_rule_else(inner, p.res, ListIn(inner, p.res, ListIn(inner, p.res, p))) \in State
  BY <1>1, <1>2, ElseState
<1>. QED
  BY <1>1, <1>3, ResultState DEF parse_branches

LEMMA ShellState ==
    ASSUME NEW inner \in Inners, NEW p \in State
    PROVE  parse_shell_command(inner, p) \in State
<1>1. ASSUME NEW t \in {"if", "while", "until", "block"}
      PROVE  Keep(New(p, t, << >>, << >>)) \in State
  <2>1. t \in NodeType
    BY DEF NodeType
  <2>. QED
    BY <2>1, NewEmpty, KeepFields
<1>2. ASSUME NEW q \in State PROVE parse_rule_if(inner, q) \in State
  BY BranchesState, CloseState DEF parse_rule_if
<1>3. ASSUME NEW q \in State PROVE parse_rule_wu(inner, q) \in State
  <2>1. q.res \in Nat
    BY StateFields
  <2>2. parse_condition(inner, q.res, "do", ListIn(inner, q.res, q)) \in State
    BY <2>1, ListInState, ConditionState
  <2>. QED
    BY <2>1, <2>2, CloseState, ResultState DEF parse_rule_wu
<1>4. ASSUME NEW q \in State PROVE parse_block_cmd(inner, q) \in State
  <2>1. q.res \in Nat
    BY StateFields
  <2>2. \A type : Close(type, ListIn(inner, q.res, q)) \in State
    BY <2>1, ListInState, CloseState
  <2>. QED
    BY <2>1, <2>2, ResultState DEF parse_block_cmd
<1>5. CASE Peek(p) = "if"
  BY <1>1, <1>2, <1>5 DEF parse_shell_command
<1>6. CASE Peek(p) \in {"while", "until"}
  BY <1>1, <1>3, <1>6 DEF parse_shell_command
<1>7. CASE Peek(p) \in {"{", "("}
  BY <1>1, <1>4, <1>7 DEF parse_shell_command
<1>8. CASE Peek(p) \notin {"if", "while", "until", "{", "("}
  BY <1>8, FailFields DEF parse_shell_command
<1>. QED
  BY <1>5, <1>6, <1>7, <1>8

LEMMA EnteredFields ==
    ASSUME NEW p \in State, NEW name \in Nat
    PROVE  LET q == [p EXCEPT !.funcs = Append(@, [name |-> name, body |-> p.res])]
           IN  /\ q \in State /\ q.at = p.at /\ q.heap = p.heap /\ q.nodes = p.nodes
               /\ q.res = p.res /\ q.accepted = p.accepted
               /\ q.funcs = Append(p.funcs, [name |-> name, body |-> p.res])
<1>. DEFINE entry == [name |-> name, body |-> p.res]
            f == Append(p.funcs, entry)
<1>1. entry \in [name : Nat, body : Nat]
  BY StateFields
<1>2. f \in Seq([name : Nat, body : Nat])
  <2>. HIDE DEF entry
  <2>. QED
    BY <1>1, StateFields, AppendProperties
<1>. HIDE DEF f
<1>3. LET q == [p EXCEPT !.funcs = f]
      IN  /\ q \in State /\ q.at = p.at /\ q.heap = p.heap /\ q.nodes = p.nodes
          /\ q.res = p.res /\ q.accepted = p.accepted /\ q.funcs = f
  BY <1>2 DEF State
<1>. QED
  BY <1>3, Zenon DEF f

LEMMA DefinedState ==
    ASSUME NEW name \in Nat, NEW p \in State
    PROVE  Defined(name, p) \in State
<1>. DEFINE q == [Keep(p) EXCEPT !.funcs = Append(@, [name |-> name, body |-> p.res])]
            none == << >>
            kids == <<p.res>>
<1>1. Keep(p) \in State /\ Keep(p).res = p.res
  BY KeepFields
<1>2. [Keep(p) EXCEPT !.funcs = Append(@, [name |-> name, body |-> Keep(p).res])] \in State
  BY <1>1, EnteredFields, Zenon
<1>3. q \in State
  BY <1>1, <1>2, Zenon
<1>4. none \in Seq(Nat) /\ kids \in Seq(Nat) /\ "function" \in NodeType
  BY StateFields DEF NodeType
<1>5. Failed(p) \/ Defined(name, p) = New(q, "function", none, kids)
  BY Zenon DEF Defined
<1>. HIDE DEF q, none, kids
<1>6. New(q, "function", none, kids) \in State
  BY <1>3, <1>4, NewFields
<1>. QED
  BY <1>5, <1>6, Zenon DEF Defined

LEMMA FuncState ==
    ASSUME tokens \in Seq(TokenType), NEW inner \in Inners, NEW p \in State
    PROVE  parse_func(inner, p) \in State
<1>1. p.at \in Nat /\ p.at + 2 \in Nat \ {0} /\ p.at + 3 \in Nat \ {0}
  BY StateFields
<1>2. To(p, p.at + 2) \in State /\ To(p, p.at + 3) \in State
  BY <1>1, ToFields
<1>3. Fail(To(p, p.at + 2)) \in State /\ SkipNewlines(To(p, p.at + 3)) \in State
  BY <1>2, FailFields, SkipFields
<1>4. Defined(p.at, parse_shell_command(inner, SkipNewlines(To(p, p.at + 3)))) \in State
  BY <1>1, <1>3, ShellState, DefinedState
<1>. QED
  BY <1>3, <1>4, Zenon DEF parse_func

LEMMA WordsTyped ==
    ASSUME tokens \in Seq(TokenType), NEW k \in Nat \ {0}
    PROVE  [j \in 1 .. Behind("word", k) - k |-> k + j - 1] \in Seq(Nat)
<1>. DEFINE m == Behind("word", k) - k
<1>1. m \in Nat
  BY BehindFrom
<1>. HIDE DEF m
<1>2. \A j \in 1 .. m : k + j - 1 \in Nat
  OBVIOUS
<1>3. [j \in 1 .. m |-> k + j - 1] \in Seq(Nat)
  BY <1>1, <1>2
<1>. QED
  BY <1>3 DEF m

(* What add_simple_commande begins with, and the words it ends with. *)
Command(p) == To(New(p, "simple", << >>, << >>), Behind("word", p.at))
WordsAt(k) == [j \in 1 .. Behind("word", k) - k |-> k + j - 1]

LEMMA CommandFields ==
    ASSUME tokens \in Seq(TokenType), NEW p \in State
    PROVE  /\ LET q == Command(p)
              IN  /\ q \in State /\ q.at = Behind("word", p.at) /\ q.nodes = p.nodes
                  /\ q.funcs = p.funcs /\ q.accepted = p.accepted
                  /\ q.res = Len(p.heap) + 1
                  /\ q.heap = Append(p.heap, Made("simple", << >>, << >>))
           /\ add_simple_commande(p)
                = Filled(handle_prefix(Command(p)), Len(p.heap) + 1, WordsAt(p.at))
<1>. DEFINE a == New(p, "simple", << >>, << >>)
            k == Behind("word", p.at)
<1>1. p.at \in Nat \ {0}
  BY StateFields
<1>2. k \in Nat \ {0}
  BY <1>1, BehindFrom
<1>3. "simple" \in NodeType
  BY DEF NodeType
<1>4. /\ a \in State /\ a.nodes = p.nodes /\ a.funcs = p.funcs /\ a.accepted = p.accepted
      /\ a.res = Len(p.heap) + 1 /\ a.heap = Append(p.heap, Made("simple", << >>, << >>))
  BY <1>3, NewEmpty
<1>5. Command(p) = To(a, k)
  BY DEF Command
<1>6. add_simple_commande(p) = Filled(handle_prefix(Command(p)), a.res, WordsAt(p.at))
  BY Zenon DEF add_simple_commande, Command, WordsAt
<1>. HIDE DEF a, k
<1>7. LET q == To(a, k)
      IN  /\ q \in State /\ q.at = k /\ q.res = a.res /\ q.heap = a.heap
          /\ q.nodes = a.nodes /\ q.funcs = a.funcs /\ q.accepted = a.accepted
  BY <1>2, <1>4, ToFields
<1>. QED
  BY <1>4, <1>5, <1>6, <1>7 DEF k

LEMMA SimpleState ==
    ASSUME tokens \in Seq(TokenType), NEW p \in State
    PROVE  add_simple_commande(p) \in State
<1>1. Command(p) \in State /\ Command(p).heap = Append(p.heap, Made("simple", << >>, << >>))
  BY CommandFields
<1>2. Len(Command(p).heap) = Len(p.heap) + 1
  <2>. DEFINE none == << >>
  <2>1. none \in Seq(Nat) /\ "simple" \in NodeType
    BY DEF NodeType
  <2>. HIDE DEF none
  <2>2. Made("simple", none, none) \in Node
    BY <2>1, MadeFields
  <2>3. Len(Append(p.heap, Made("simple", none, none))) = Len(p.heap) + 1
    BY <2>2, StateFields, Grows
  <2>. QED
    BY <1>1, <2>3 DEF none
<1>. DEFINE q == handle_prefix(Command(p))
<1>3. q \in State /\ Len(q.heap) >= Len(p.heap) + 1
  BY <1>1, <1>2, PrefixState
<1>4. WordsAt(p.at) \in Seq(Nat)
  BY StateFields, WordsTyped DEF WordsAt
<1>5. add_simple_commande(p) = Filled(q, Len(p.heap) + 1, WordsAt(p.at))
  BY CommandFields
<1>. HIDE DEF q
<1>6. Len(p.heap) + 1 \in 1 .. Len(q.heap)
  BY <1>3, StateFields
<1>. DEFINE n == Len(p.heap) + 1
            words == WordsAt(p.at)
<1>. HIDE DEF n, words
<1>7. q \in State /\ n \in 1 .. Len(q.heap) /\ words \in Seq(Nat)
  BY <1>3, <1>4, <1>6 DEF n, words
<1>8. Filled(q, n, words) \in State
  BY <1>7, FilledFields
<1>. QED
  BY <1>5, <1>8 DEF n, words

LEMMA CommandState ==
    ASSUME tokens \in Seq(TokenType), NEW inner \in Inners, NEW p \in State
    PROVE  parse_command(inner, p) \in State
<1>1. ASSUME NEW q \in State PROVE AfterFailure(q) \in State
  BY PrefixState DEF AfterFailure
<1>2. AfterFailure(parse_shell_command(inner, p)) \in State
  BY <1>1, ShellState
<1>3. handle_prefix(Fail(p)) \in State
  BY FailFields, PrefixState
<1>4. handle_prefix(Keep(parse_func(inner, p))) \in State
  BY FuncState, KeepFields, PrefixState
<1>5. handle_prefix(add_simple_commande(p)) \in State
  BY SimpleState, PrefixState
<1>. QED
  BY <1>2, <1>3, <1>4, <1>5 DEF parse_command

PipesTurn(inner) ==
    [q \in State |->
       IF Failed(q) \/ Peek(q) # "|" THEN q
       ELSE Join(q, "|", Kept(parse_command(inner, SkipNewlines(Pop(q)))))]

LEMMA PipesTurns ==
    ASSUME tokens \in Seq(TokenType), NEW inner \in Inners
    PROVE  /\ PipesTurn(inner) \in [State -> State]
           /\ \A q : Pipes(inner, q) = Repeat(PipesTurn(inner), q)
<1>1. "|" \in NodeType
  BY DEF NodeType
<1>2. ASSUME NEW q \in State
      PROVE  Join(q, "|", Kept(parse_command(inner, SkipNewlines(Pop(q))))) \in State
  <2>1. Kept(parse_command(inner, SkipNewlines(Pop(q)))) \in State
    BY PopFields, SkipFields, CommandState, KeptState
  <2>. QED
    BY <1>1, <2>1, JoinState
<1>3. \A q : Pipes(inner, q) = Repeat(PipesTurn(inner), q)
  BY Zenon DEF Pipes, PipesTurn
<1>. QED
  BY <1>2, <1>3 DEF PipesTurn

LEMMA PipelineState ==
    ASSUME tokens \in Seq(TokenType), NEW inner \in Inners, NEW p \in State
    PROVE  parse_pipeline(inner, p) \in State
<1>1. ASSUME NEW q \in State PROVE Pipes(inner, q) \in State
  <2>1. PipesTurn(inner) \in [State -> State] /\ Pipes(inner, q) = Repeat(PipesTurn(inner), q)
    BY PipesTurns
  <2>. QED
    BY <2>1, RepeatKeeps
<1>2. ASSUME NEW q \in State PROVE Negated(q) \in State
  <2>. DEFINE kids == <<q.res, Null>>
  <2>1. kids \in Seq(Nat) /\ "!" \in NodeType
    BY StateFields DEF Null, NodeType
  <2>2. Negated(q) = IF Failed(q) THEN q ELSE Operator(q, "!", kids)
    BY DEF Negated
  <2>. HIDE DEF kids
  <2>. QED
    BY <2>1, <2>2, OperatorState
<1>3. ASSUME NEW q \in State PROVE Pipes(inner, Kept(parse_command(inner, q))) \in State
  BY <1>1, CommandState, KeptState
<1>. QED
  BY <1>2, <1>3, PopFields DEF parse_pipeline

ConditionsTurn(inner) ==
    [q \in State |->
       IF Failed(q) \/ Peek(q) \notin {"&&", "||"} THEN q
       ELSE Join(q, Peek(q), Kept(parse_pipeline(inner, Pop(q))))]

LEMMA ConditionsTurns ==
    ASSUME tokens \in Seq(TokenType), NEW inner \in Inners
    PROVE  /\ ConditionsTurn(inner) \in [State -> State]
           /\ \A q : Conditions(inner, q) = Repeat(ConditionsTurn(inner), q)
<1>1. {"&&", "||"} \subseteq NodeType
  BY DEF NodeType
<1>2. ASSUME NEW q \in State, Peek(q) \in {"&&", "||"}
      PROVE  Join(q, Peek(q), Kept(parse_pipeline(inner, Pop(q)))) \in State
  <2>1. Kept(parse_pipeline(inner, Pop(q))) \in State
    BY PopFields, PipelineState, KeptState
  <2>. QED
    BY <1>1, <1>2, <2>1, JoinState
<1>3. \A q : Conditions(inner, q) = Repeat(ConditionsTurn(inner), q)
  BY Zenon DEF Conditions, ConditionsTurn
<1>. QED
  BY <1>2, <1>3 DEF ConditionsTurn

LEMMA AndOrState ==
    ASSUME tokens \in Seq(TokenType), NEW inner \in Inners, NEW p \in State
    PROVE  parse_and_or(inner, p) \in State
<1>1. Kept(parse_pipeline(inner, p)) \in State
  BY PipelineState, KeptState
<1>2. ConditionsTurn(inner) \in [State -> State]
  BY ConditionsTurns
<1>3. parse_and_or(inner, p) = Repeat(ConditionsTurn(inner), Kept(parse_pipeline(inner, p)))
  BY ConditionsTurns DEF parse_and_or
<1>. QED
  BY <1>1, <1>2, <1>3, RepeatKeeps

TermsTurn(inner) ==
    [q \in State |->
       IF Failed(q) \/ Peek(q) \in Terminators THEN q
       ELSE IF Peek(q) \in {";", "nl"} THEN NextTerm(inner, SkipNewlines(Pop(q)))
       ELSE Fail(q)]

LEMMA NextTermState ==
    ASSUME tokens \in Seq(TokenType), NEW inner \in Inners, NEW p \in State
    PROVE  NextTerm(inner, p) \in State
<1>. DEFINE kids == <<p.res, Null>>
            none == << >>
<1>1. kids \in Seq(Nat) /\ none \in Seq(Nat) /\ ";" \in NodeType
  BY StateFields DEF Null, NodeType
<1>2. NextTerm(inner, p) = IF Peek(p) \in Terminators THEN New(p, ";", none, kids)
                           ELSE Join(p, ";", Kept(parse_and_or(inner, p)))
  BY DEF NextTerm
<1>. HIDE DEF kids, none
<1>3. New(p, ";", none, kids) \in State
  BY <1>1, NewFields
<1>4. Kept(parse_and_or(inner, p)) \in State
  BY AndOrState, KeptState
<1>5. Join(p, ";", Kept(parse_and_or(inner, p))) \in State
  BY <1>1, <1>4, JoinState
<1>. QED
  BY <1>2, <1>3, <1>5

LEMMA TermsTurns ==
    ASSUME tokens \in Seq(TokenType), NEW inner \in Inners
    PROVE  /\ TermsTurn(inner) \in [State -> State]
           /\ \A q : Terms(inner, q) = Repeat(TermsTurn(inner), q)
<1>1. ASSUME NEW q \in State PROVE NextTerm(inner, SkipNewlines(Pop(q))) \in State
  BY PopFields, SkipFields, NextTermState
<1>2. \A q : Terms(inner, q) = Repeat(TermsTurn(inner), q)
  BY Zenon DEF Terms, TermsTurn
<1>. QED
  BY <1>1, <1>2, FailFields DEF TermsTurn

LEMMA CompoundState ==
    ASSUME tokens \in Seq(TokenType), NEW inner \in Inners, NEW p \in State
    PROVE  parse_compound_list(inner, p) \in State
<1>1. Kept(parse_and_or(inner, SkipNewlines(p))) \in State
  BY SkipFields, AndOrState, KeptState
<1>2. TermsTurn(inner) \in [State -> State]
  BY TermsTurns
<1>3. parse_compound_list(inner, p)
        = Repeat(TermsTurn(inner), Kept(parse_and_or(inner, SkipNewlines(p))))
  BY TermsTurns DEF parse_compound_list
<1>. QED
  BY <1>1, <1>2, <1>3, RepeatKeeps

-----------------------------------------------------------------------------
(* Heaps.  Every child is a node that has what the executor follows in it, and the
   child of one node only. *)
Has(h, m, k, x) == m \in DOMAIN h /\ k \in DOMAIN h[m].kids /\ h[m].kids[k] = x
Sound(h) == \A m, k, x : Has(h, m, k, x) /\ x # Null => x \in DOMAIN h /\ HasChildren(h[x])
Single(h) == \A m, j, n, k, x : Has(h, m, j, x) /\ Has(h, n, k, x) /\ x # Null => m = n /\ j = k
Forest(h) == Sound(h) /\ Single(h)
Root(h, r) == \A m, k : ~Has(h, m, k, r)

(* h has what the first b nodes of g were and above them nodes whose children are above
   them too. *)
Above(b, h) == \A m, k, x : Has(h, m, k, x) /\ m > b => x = Null \/ x > b
Same(b, g, h) == \A m \in 1 .. b : h[m] = g[m]
Grown(b, g, h) == b \in Nat /\ b <= Len(g) /\ b <= Len(h) /\ Same(b, g, h) /\ Above(b, h)

LEMMA Heap ==
    ASSUME NEW h \in Seq(Node)
    PROVE  /\ Len(h) \in Nat /\ DOMAIN h = 1 .. Len(h)
           /\ \A m \in DOMAIN h : h[m] \in Node /\ m \in Nat /\ m # Null
           /\ \A m, k, x : Has(h, m, k, x) => m \in Nat /\ k \in Nat /\ x \in Nat
<1>1. Len(h) \in Nat /\ DOMAIN h = 1 .. Len(h)
  OBVIOUS
<1>2. \A m \in DOMAIN h : h[m] \in Node /\ m \in Nat /\ m # Null
  BY <1>1 DEF Null
<1>3. \A n \in Node : n.kids \in Seq(Nat)
  BY DEF Node
<1>4. \A k : \A s \in Seq(Nat) : k \in DOMAIN s => k \in Nat /\ s[k] \in Nat
  OBVIOUS
<1>. QED
  BY <1>1, <1>2, <1>3, <1>4, Zenon DEF Has

LEMMA GrownSelf ==
    ASSUME NEW h \in Seq(Node)
    PROVE  Grown(Len(h), h, h)
<1>1. Same(Len(h), h, h)
  BY DEF Same
<1>2. Above(Len(h), h)
  <2>1. \A m, k, x : Has(h, m, k, x) => ~(m > Len(h))
    BY Heap DEF Has
  <2>. QED
    BY <2>1 DEF Above
<1>. QED
  BY <1>1, <1>2, Heap DEF Grown

LEMMA GrownOn ==
    ASSUME NEW f \in Seq(Node), NEW g \in Seq(Node), NEW h \in Seq(Node), NEW b, NEW c,
           Grown(b, f, g), Grown(c, g, h), b <= c
    PROVE  Grown(b, f, h)
<1>1. b \in Nat /\ c \in Nat /\ c <= Len(g) /\ c <= Len(h) /\ b <= Len(f)
  BY DEF Grown
<1>2. Same(b, f, g) /\ Same(c, g, h) /\ Above(b, g) /\ Above(c, h)
  BY DEF Grown
<1>3. Same(b, f, h)
  BY <1>1, <1>2 DEF Same
<1>4. ASSUME NEW m, NEW k, NEW x, Has(h, m, k, x), m > b PROVE x = Null \/ x > b
  <2>1. m \in Nat /\ x \in Nat /\ m \in DOMAIN h /\ DOMAIN g = 1 .. Len(g) /\ Len(g) \in Nat
    BY <1>4, Heap DEF Has
  <2>2. CASE m > c
    <3>1. x = Null \/ x > c
      BY <2>2, <1>2, <1>4 DEF Above
    <3>. QED
      BY <2>1, <3>1, <1>1
  <2>3. CASE m <= c
    <3>1. m \in 1 .. c /\ m \in DOMAIN g
      BY <1>1, <1>4, <2>1, <2>3
    <3>2. h[m] = g[m]
      BY <1>2, <3>1 DEF Same
    <3>3. Has(g, m, k, x)
      BY <1>4, <3>1, <3>2 DEF Has
    <3>. QED
      BY <1>2, <1>4, <3>3 DEF Above
  <2>. QED
    BY <1>1, <2>1, <2>2, <2>3
<1>. QED
  BY <1>1, <1>3, <1>4 DEF Grown, Above

(* What is added above leaves the roots as they are. *)
LEMMA RootStays ==
    ASSUME NEW g \in Seq(Node), NEW h \in Seq(Node), NEW b, Grown(b, g, h),
           NEW r \in 1 .. b, Root(g, r)
    PROVE  Root(h, r) /\ h[r] = g[r]
<1>1. b \in Nat /\ b <= Len(g) /\ Same(b, g, h) /\ Above(b, h)
  BY DEF Grown
<1>2. ASSUME NEW m, NEW k, Has(h, m, k, r) PROVE FALSE
  <2>1. m \in Nat /\ m \in DOMAIN h /\ DOMAIN g = 1 .. Len(g) /\ Len(g) \in Nat
        /\ DOMAIN h = 1 .. Len(h)
    BY <1>2, Heap DEF Has
  <2>2. CASE m > b
    BY <2>2, <1>1, <1>2 DEF Above, Null
  <2>3. CASE m <= b
    <3>1. m \in 1 .. b /\ m \in DOMAIN g
      BY <1>1, <2>1, <2>3
    <3>2. h[m] = g[m]
      BY <1>1, <3>1 DEF Same
    <3>3. Has(g, m, k, r)
      BY <1>2, <3>1, <3>2 DEF Has
    <3>. QED
      BY <3>3 DEF Root
  <2>. QED
    BY <1>1, <2>1, <2>2, <2>3
<1>. QED
  BY <1>1, <1>2 DEF Root, Same

(* Node n of h is set, or is new in h. *)
Put(h, g, n) ==
    /\ n \in DOMAIN g /\ DOMAIN h \subseteq DOMAIN g
    /\ \A m \in DOMAIN g : m # n => m \in DOMAIN h /\ g[m] = h[m]
Whole(h, g, n) == n \in DOMAIN h /\ HasChildren(h[n]) => HasChildren(g[n])
Takes(h, g, n) ==
    /\ \A k, x : Has(g, n, k, x) /\ x # Null =>
         x \in DOMAIN g /\ HasChildren(g[x]) /\ (Has(h, n, k, x) \/ Root(h, x))
    /\ \A j, k, x : Has(g, n, j, x) /\ Has(g, n, k, x) /\ x # Null => j = k

LEMMA PutForest ==
    ASSUME NEW h \in Seq(Node), NEW g \in Seq(Node), NEW n, Put(h, g, n), Whole(h, g, n),
           Takes(h, g, n), Forest(h)
    PROVE  Forest(g)
<1>1. ASSUME NEW m, NEW k, NEW x, Has(g, m, k, x), m # n PROVE Has(h, m, k, x)
  BY <1>1 DEF Put, Has
<1>2. ASSUME NEW x, x \in DOMAIN h, HasChildren(h[x]) PROVE x \in DOMAIN g /\ HasChildren(g[x])
  BY <1>2 DEF Put, Whole
<1>3. ASSUME NEW m, NEW k, NEW x, Has(g, m, k, x), x # Null
      PROVE  x \in DOMAIN g /\ HasChildren(g[x])
  <2>1. CASE m = n
    BY <1>3, <2>1 DEF Takes
  <2>2. CASE m # n
    <3>1. Has(h, m, k, x)
      BY <1>1, <1>3, <2>2
    <3>. QED
      BY <1>2, <1>3, <3>1 DEF Forest, Sound
  <2>. QED
    BY <2>1, <2>2
<1>4. ASSUME NEW k, NEW m, NEW j, NEW x, Has(g, n, k, x), Has(g, m, j, x), m # n, x # Null
      PROVE  FALSE
  <2>1. Has(h, m, j, x)
    BY <1>1, <1>4
  <2>2. Has(h, n, k, x)
    BY <1>4, <2>1 DEF Takes, Root
  <2>. QED
    BY <1>4, <2>1, <2>2 DEF Forest, Single
<1>5. ASSUME NEW m, NEW j, NEW l, NEW k, NEW x, Has(g, m, j, x), Has(g, l, k, x), x # Null
      PROVE  m = l /\ j = k
  <2>1. CASE m = n /\ l = n
    BY <1>5, <2>1 DEF Takes
  <2>2. CASE m = n /\ l # n
    BY <1>4, <1>5, <2>2
  <2>3. CASE m # n /\ l = n
    BY <1>4, <1>5, <2>3
  <2>4. CASE m # n /\ l # n
    <3>1. Has(h, m, j, x) /\ Has(h, l, k, x)
      BY <1>1, <1>5, <2>4
    <3>. QED
      BY <1>5, <3>1 DEF Forest, Single
  <2>. QED
    BY <2>1, <2>2, <2>3, <2>4
<1>. QED
  BY <1>3, <1>5 DEF Forest, Sound, Single

LEMMA PutRoot ==
    ASSUME NEW h, NEW g, NEW n, Put(h, g, n), NEW r, Root(h, r), \A k : ~Has(g, n, k, r)
    PROVE  Root(g, r)
<1>1. ASSUME NEW m, NEW k, Has(g, m, k, r), m # n PROVE Has(h, m, k, r)
  BY <1>1 DEF Put, Has
<1>. QED
  BY <1>1 DEF Root

LEMMA PutGrown ==
    ASSUME NEW f \in Seq(Node), NEW h \in Seq(Node), NEW g \in Seq(Node), NEW n, NEW b,
           Put(h, g, n), Grown(b, f, h), n > b, \A k, x : Has(g, n, k, x) => x = Null \/ x > b
    PROVE  Grown(b, f, g)
<1>1. b \in Nat /\ b <= Len(f) /\ b <= Len(h) /\ Same(b, f, h) /\ Above(b, h)
  BY DEF Grown
<1>2. /\ DOMAIN h = 1 .. Len(h) /\ DOMAIN g = 1 .. Len(g) /\ Len(h) \in Nat /\ Len(g) \in Nat
      /\ n \in DOMAIN g /\ n \in Nat
  BY Heap DEF Put
<1>3. Len(h) <= Len(g)
  BY <1>2 DEF Put
<1>4. b <= Len(g)
  BY <1>1, <1>2, <1>3
<1>5. Same(b, f, g)
  <2>1. ASSUME NEW m \in 1 .. b PROVE g[m] = f[m]
    <3>1. m \in DOMAIN g /\ m # n /\ m \in DOMAIN h
      BY <1>1, <1>2, <1>4
    <3>2. g[m] = h[m]
      BY <3>1 DEF Put
    <3>. QED
      BY <1>1, <3>2 DEF Same
  <2>. QED
    BY <2>1 DEF Same
<1>6. ASSUME NEW m, NEW k, NEW x, Has(g, m, k, x), m > b PROVE x = Null \/ x > b
  <2>1. CASE m = n
    BY <1>6, <2>1
  <2>2. CASE m # n
    <3>1. Has(h, m, k, x)
      BY <1>6, <2>2 DEF Put, Has
    <3>. QED
      BY <1>1, <1>6, <3>1 DEF Above
  <2>. QED
    BY <2>1, <2>2
<1>. QED
  BY <1>1, <1>4, <1>5, <1>6 DEF Grown, Above

-----------------------------------------------------------------------------
(* States.  A rule begins in a state that is Ready; what it leaves is After it, where
   at most the node that is returned is not yet in parser->nodes. *)
Members(s) == {s[k] : k \in DOMAIN s} \ {Null}
Once(s) == \A j, k \in DOMAIN s : s[j] = s[k] /\ s[j] # Null => j = k
Bodies(h, f) == \A k \in DOMAIN f : f[k].body \in DOMAIN h /\ HasChildren(h[f[k].body])
Fine(q) ==
    q \in State /\ q.at <= Turns /\ Forest(q.heap) /\ Bodies(q.heap, q.funcs) /\ Once(q.nodes)
Entered(q) == Members(q.nodes) = DOMAIN q.heap
Owed(q) == Members(q.nodes) \cup ({q.res} \ {Null}) = DOMAIN q.heap
Returns(b, q) ==
    \/ q.res = Null
    \/ q.res \in DOMAIN q.heap /\ q.res > b /\ Root(q.heap, q.res) /\ HasChildren(q.heap[q.res])

Ready(p) == Fine(p) /\ Entered(p)
After(b, p, q) ==
    Fine(q) /\ Owed(q) /\ q.at >= p.at /\ Grown(b, p.heap, q.heap) /\ Returns(b, q)
Ran(b, p, q) == After(b, p, q) /\ Entered(q)

LEMMA AppendMembers ==
    ASSUME NEW s \in Seq(Nat), NEW n \in Nat
    PROVE  /\ Members(ast_append(s, n)) = Members(s) \cup ({n} \ {Null})
           /\ Once(s) => Once(ast_append(s, n))
<1>1. CASE s = <<Null>>
  <2>. DEFINE one == <<n>>
  <2>1. DOMAIN one = {1} /\ one[1] = n
    OBVIOUS
  <2>2. DOMAIN s = {1} /\ s[1] = Null
    BY <1>1
  <2>3. ast_append(s, n) = one
    BY <1>1 DEF ast_append
  <2>. HIDE DEF one
  <2>4. Members(one) = {n} \ {Null} /\ Members(s) = {} /\ Once(one)
    BY <2>1, <2>2 DEF Members, Once
  <2>. QED
    BY <2>3, <2>4
<1>2. CASE s # <<Null>> /\ \E k \in DOMAIN s : s[k] = n
  <2>1. ast_append(s, n) = s
    BY <1>2 DEF ast_append
  <2>2. {n} \ {Null} \subseteq Members(s)
    BY <1>2 DEF Members
  <2>. QED
    BY <2>1, <2>2
<1>3. CASE s # <<Null>> /\ ~\E k \in DOMAIN s : s[k] = n
  <2>. DEFINE t == Append(s, n)
  <2>1. ast_append(s, n) = t
    BY <1>3 DEF ast_append
  <2>2. /\ DOMAIN t = DOMAIN s \cup {Len(s) + 1} /\ t[Len(s) + 1] = n
        /\ \A k \in DOMAIN s : t[k] = s[k]
    OBVIOUS
  <2>. HIDE DEF t
  <2>3. Members(t) = Members(s) \cup ({n} \ {Null})
    BY <2>2 DEF Members
  <2>4. Once(s) => Once(t)
    BY <1>3, <2>2 DEF Once
  <2>. QED
    BY <2>1, <2>3, <2>4
<1>. QED
  BY <1>1, <1>2, <1>3

LEMMA FineFields ==
    ASSUME NEW p, Fine(p)
    PROVE  /\ p \in State /\ p.at \in Nat /\ p.at >= 1 /\ p.res \in Nat /\ p.at <= Turns
           /\ p.heap \in Seq(Node) /\ Len(p.heap) \in Nat /\ DOMAIN p.heap = 1 .. Len(p.heap)
           /\ p.nodes \in Seq(Nat) /\ p.funcs \in Seq([name : Nat, body : Nat])
           /\ Forest(p.heap) /\ Bodies(p.heap, p.funcs) /\ Once(p.nodes)
BY StateFields DEF Fine

LEMMA Moved ==
    ASSUME NEW p, Fine(p), NEW q \in State, q.heap = p.heap, q.nodes = p.nodes,
           q.funcs = p.funcs, q.at <= Turns
    PROVE  Fine(q) /\ (Entered(p) => Entered(q))
BY DEF Fine, Entered

LEMMA ReadySelf ==
    ASSUME NEW p, Ready(p), Failed(p)
    PROVE  Ran(Len(p.heap), p, p)
BY FineFields, GrownSelf DEF Ready, Ran, After, Owed, Entered, Returns, Failed, Null

LEMMA KeepReady ==
    ASSUME NEW q, Fine(q), Owed(q)
    PROVE  LET r == Keep(q)
           IN  /\ Ready(r) /\ r.at = q.at /\ r.res = q.res /\ r.heap = q.heap
               /\ Owed(r) /\ r.funcs = q.funcs
<1>. DEFINE r == Keep(q)
<1>1. q \in State /\ q.nodes \in Seq(Nat) /\ q.res \in Nat /\ Once(q.nodes)
  BY FineFields
<1>2. /\ r \in State /\ r.at = q.at /\ r.res = q.res /\ r.heap = q.heap
      /\ r.nodes = ast_append(q.nodes, q.res) /\ r.funcs = q.funcs
  BY <1>1, KeepFields
<1>. HIDE DEF r
<1>3. Members(r.nodes) = Members(q.nodes) \cup ({q.res} \ {Null}) /\ Once(r.nodes)
  BY <1>1, <1>2, AppendMembers
<1>4. Fine(r)
  BY <1>1, <1>2, <1>3 DEF Fine
<1>5. Members(r.nodes) = DOMAIN r.heap
  BY <1>2, <1>3 DEF Owed
<1>6. Entered(r) /\ Owed(r)
  BY <1>2, <1>3, <1>5 DEF Entered, Owed
<1>. QED
  BY <1>2, <1>4, <1>6 DEF Ready, r

LEMMA KeepRan ==
    ASSUME NEW b, NEW p, NEW q, After(b, p, q)
    PROVE  Ran(b, p, Keep(q))
<1>. DEFINE r == Keep(q)
<1>1. Fine(q) /\ Owed(q)
  BY DEF After
<1>2. /\ Ready(r) /\ r.at = q.at /\ r.res = q.res /\ r.heap = q.heap /\ Owed(r)
  BY <1>1, KeepReady
<1>. HIDE DEF r
<1>3. r.at >= p.at /\ Grown(b, p.heap, r.heap) /\ Returns(b, r)
  BY <1>2 DEF After, Returns
<1>. QED
  BY <1>2, <1>3 DEF Ran, After, Ready, r

LEMMA KeptRan ==
    ASSUME NEW b, NEW p, NEW q, After(b, p, q)
    PROVE  Ran(b, p, Kept(q)) /\ Kept(q).at = q.at /\ Kept(q).res = q.res
<1>1. CASE Failed(q)
  <2>1. Kept(q) = q /\ Entered(q)
    BY <1>1 DEF Kept, After, Owed, Entered, Failed
  <2>. QED
    BY <2>1 DEF Ran
<1>2. CASE ~Failed(q)
  <2>1. Kept(q) = Keep(q) /\ q \in State
    BY <1>2 DEF Kept, After, Fine
  <2>. QED
    BY <2>1, KeepRan, KeepFields
<1>. QED
  BY <1>1, <1>2

LEMMA FailRan ==
    ASSUME NEW b, NEW p, NEW q, Ran(b, p, q)
    PROVE  Ran(b, p, Fail(q))
<1>. DEFINE r == Fail(q)
<1>1. Fine(q) /\ q \in State /\ q.at <= Turns /\ Entered(q)
  BY FineFields DEF Ran, After
<1>2. /\ r \in State /\ r.at = q.at /\ r.res = Null /\ r.heap = q.heap
      /\ r.nodes = q.nodes /\ r.funcs = q.funcs
  BY <1>1, FailFields
<1>. HIDE DEF r
<1>3. Fine(r) /\ Entered(r)
  BY <1>1, <1>2, Moved
<1>4. Owed(r) /\ r.at >= p.at /\ Grown(b, p.heap, r.heap) /\ Returns(b, r)
  BY <1>2, <1>3 DEF Ran, After, Entered, Owed, Returns
<1>. QED
  BY <1>3, <1>4 DEF Ran, After, r

(* A step that only moves on in the text. *)
LEMMA StepOn ==
    ASSUME NEW p, Ready(p), NEW q \in State, q.heap = p.heap, q.nodes = p.nodes,
           q.funcs = p.funcs, q.at <= Turns
    PROVE  Ready(q)
BY Moved DEF Ready

LEMMA AfterStep ==
    ASSUME NEW b, NEW p, NEW q, NEW r, After(b, q, r), p \in State, q \in State,
           q.heap = p.heap, q.at >= p.at
    PROVE  After(b, p, r)
<1>1. r \in State /\ r.at \in Nat /\ p.at \in Nat /\ q.at \in Nat
  BY StateFields DEF After, Fine
<1>. QED
  BY <1>1 DEF After

(* A rule that goes on where another stopped. *)
LEMMA AfterThat ==
    ASSUME NEW b, NEW c, NEW p \in State, NEW q, NEW r, Fine(q), q.at >= p.at,
           Grown(b, p.heap, q.heap), After(c, q, r), b <= c
    PROVE  After(b, p, r)
<1>1. /\ r \in State /\ r.at \in Nat /\ p.at \in Nat /\ q.at \in Nat /\ r.at >= q.at
      /\ p.heap \in Seq(Node) /\ q.heap \in Seq(Node) /\ r.heap \in Seq(Node) /\ r.res \in Nat
  BY StateFields DEF After, Fine
<1>2. Grown(b, p.heap, r.heap)
  BY <1>1, GrownOn DEF After
<1>3. b \in Nat /\ c \in Nat
  BY DEF After, Grown
<1>4. Returns(b, r)
  BY <1>1, <1>3 DEF After, Returns
<1>. QED
  BY <1>1, <1>2, <1>4 DEF After

(* What a new node is given for children: roots, each of them once. *)
Given(b, h, kids) ==
    /\ \A k \in DOMAIN kids : kids[k] # Null =>
         kids[k] \in DOMAIN h /\ kids[k] > b /\ Root(h, kids[k]) /\ HasChildren(h[kids[k]])
    /\ \A j, k \in DOMAIN kids : kids[j] = kids[k] /\ kids[j] # Null => j = k

LEMMA BodiesPut ==
    ASSUME NEW h, NEW g, NEW n, Put(h, g, n), Whole(h, g, n), NEW f, Bodies(h, f)
    PROVE  Bodies(g, f)
<1>1. ASSUME NEW x, x \in DOMAIN h, HasChildren(h[x]) PROVE x \in DOMAIN g /\ HasChildren(g[x])
  BY <1>1 DEF Put, Whole
<1>. QED
  BY <1>1 DEF Bodies

LEMMA Allocated ==
    ASSUME NEW p, Fine(p), NEW type \in NodeType, NEW words \in Seq(Nat), NEW kids \in Seq(Nat),
           NEW b, NEW f \in Seq(Node), Grown(b, f, p.heap), Given(b, p.heap, kids)
    PROVE  LET q == New(p, type, words, kids)
           IN  /\ Fine(q) /\ q.at = p.at /\ q.nodes = p.nodes /\ q.res = Len(p.heap) + 1
               /\ q.res \in DOMAIN q.heap /\ q.res > b /\ Root(q.heap, q.res)
               /\ q.heap[q.res] = Made(type, words, kids) /\ Grown(b, f, q.heap)
               /\ q.funcs = p.funcs
               /\ Entered(p) => Owed(q)
<1>. DEFINE q == New(p, type, words, kids)
            node == Made(type, words, kids)
            n == Len(p.heap) + 1
<1>1. /\ q \in State /\ q.at = p.at /\ q.nodes = p.nodes /\ q.funcs = p.funcs
      /\ q.res = n /\ q.heap = Append(p.heap, node)
  BY NewFields, FineFields
<1>. HIDE DEF q
<1>2. node \in Node /\ node.kids = kids
  BY MadeFields
<1>. HIDE DEF node
<1>3. /\ q.heap \in Seq(Node) /\ Len(q.heap) = n /\ q.heap[n] = node
      /\ \A m \in 1 .. Len(p.heap) : q.heap[m] = p.heap[m]
  <2>1. p.heap \in Seq(Node)
    BY FineFields
  <2>. QED
    BY <1>1, <1>2, <2>1, Grows
<1>4. /\ DOMAIN p.heap = 1 .. Len(p.heap) /\ Len(p.heap) \in Nat /\ DOMAIN q.heap = 1 .. n
      /\ p.heap \in Seq(Node) /\ Forest(p.heap) /\ Bodies(p.heap, p.funcs) /\ Once(p.nodes)
      /\ p.at <= Turns
  BY <1>3, FineFields
<1>5. n \in DOMAIN q.heap /\ n \notin DOMAIN p.heap /\ n # Null
  BY <1>4 DEF Null
<1>6. DOMAIN q.heap = DOMAIN p.heap \cup {n}
  BY <1>4
<1>7. b \in Nat /\ b <= Len(p.heap)
  BY DEF Grown
<1>8. n > b
  BY <1>4, <1>7
<1>. HIDE DEF n
<1>9. Put(p.heap, q.heap, n) /\ Whole(p.heap, q.heap, n)
  BY <1>3, <1>4, <1>5, <1>6 DEF Put, Whole
<1>10. ASSUME NEW k, NEW x, Has(q.heap, n, k, x) PROVE k \in DOMAIN kids /\ kids[k] = x
  BY <1>2, <1>3, <1>10 DEF Has
<1>11. Takes(p.heap, q.heap, n)
  <2>1. ASSUME NEW k, NEW x, Has(q.heap, n, k, x), x # Null
        PROVE  x \in DOMAIN q.heap /\ HasChildren(q.heap[x]) /\ Root(p.heap, x)
    <3>1. x \in DOMAIN p.heap /\ Root(p.heap, x) /\ HasChildren(p.heap[x])
      BY <1>10, <2>1 DEF Given
    <3>. QED
      BY <3>1, <1>3, <1>4, <1>6
  <2>2. ASSUME NEW j, NEW k, NEW x, Has(q.heap, n, j, x), Has(q.heap, n, k, x), x # Null
        PROVE  j = k
    BY <1>10, <2>2 DEF Given
  <2>. QED
    BY <2>1, <2>2 DEF Takes
<1>12. Forest(q.heap) /\ Bodies(q.heap, q.funcs)
  BY <1>1, <1>3, <1>4, <1>9, <1>11, PutForest, BodiesPut
<1>13. Root(q.heap, n)
  <2>1. Root(p.heap, n)
    BY <1>4, <1>5 DEF Root, Forest, Sound
  <2>2. \A k : ~Has(q.heap, n, k, n)
    BY <1>5, <1>10 DEF Given
  <2>. QED
    BY <2>1, <2>2, <1>9, PutRoot
<1>14. Grown(b, f, q.heap)
  <2>1. \A k, x : Has(q.heap, n, k, x) => x = Null \/ x > b
    BY <1>10 DEF Given
  <2>. QED
    BY <2>1, <1>3, <1>4, <1>8, <1>9, PutGrown
<1>15. Fine(q)
  BY <1>1, <1>4, <1>12 DEF Fine
<1>16. Entered(p) => Owed(q)
  BY <1>1, <1>5, <1>6 DEF Entered, Owed
<1>. QED
  BY <1>1, <1>3, <1>5, <1>8, <1>13, <1>14, <1>15, <1>16 DEF q, n, node

(* A node that is entered in the list as soon as it is allocated. *)
LEMMA NewRan ==
    ASSUME NEW p0, NEW p, Ready(p), NEW type \in NodeType, NEW words \in Seq(Nat),
           NEW kids \in Seq(Nat), NEW b,
           p0.heap \in Seq(Node), p.at >= p0.at, Grown(b, p0.heap, p.heap),
           Given(b, p.heap, kids), HasChildren(Made(type, words, kids))
    PROVE  Ran(b, p0, Keep(New(p, type, words, kids)))
<1>. DEFINE q == New(p, type, words, kids)
<1>1. Fine(p) /\ Entered(p)
  BY DEF Ready
<1>2. /\ Fine(q) /\ q.at = p.at /\ q.res \in DOMAIN q.heap /\ q.res > b /\ Root(q.heap, q.res)
      /\ q.heap[q.res] = Made(type, words, kids) /\ Grown(b, p0.heap, q.heap)
      /\ Entered(p) => Owed(q)
  BY <1>1, Allocated
<1>. HIDE DEF q
<1>3. After(b, p0, q)
  BY <1>1, <1>2 DEF After, Returns
<1>. QED
  BY <1>3, KeepRan DEF q

LEMMA OperatorRan ==
    ASSUME NEW p0, NEW p, Ready(p), NEW type \in NodeType, NEW kids \in Seq(Nat), NEW b,
           p0.heap \in Seq(Node), p.at >= p0.at, Grown(b, p0.heap, p.heap),
           Given(b, p.heap, kids), HasChildren(Made(type, << >>, kids))
    PROVE  Ran(b, p0, Operator(p, type, kids))
<1>. DEFINE none == << >>
<1>1. none \in Seq(Nat) /\ HasChildren(Made(type, none, kids))
  OBVIOUS
<1>2. Operator(p, type, kids) = Keep(New(p, type, none, kids))
  BY DEF Operator
<1>. HIDE DEF none
<1>. QED
  BY <1>1, <1>2, NewRan

LEMMA TwoChildren ==
    ASSUME NEW type, NEW words, NEW l, NEW r, l # Null, r # Null
    PROVE  HasChildren(Made(type, words, <<l, r>>))
<1>. DEFINE kids == <<l, r>>
<1>1. DOMAIN kids = {1, 2} /\ kids[1] # Null /\ kids[2] # Null
  OBVIOUS
<1>. HIDE DEF kids
<1>2. Needed(Made(type, words, kids)) \subseteq {1, 2}
  BY DEF Needed
<1>3. Made(type, words, kids).kids = kids
  BY DEF Made
<1>. QED
  BY <1>1, <1>2, <1>3 DEF HasChildren, kids

LEMMA OneChild ==
    ASSUME NEW type \in {"function", "block", ";", "!"}, NEW words, NEW kids \in Seq(Nat),
           1 \in DOMAIN kids, kids[1] # Null
    PROVE  HasChildren(Made(type, words, kids))
<1>1. Needed(Made(type, words, kids)) = {1}
  BY DEF Needed, Made
<1>2. Made(type, words, kids).kids = kids
  BY DEF Made
<1>. QED
  BY <1>1, <1>2 DEF HasChildren

LEMMA GivenOne ==
    ASSUME NEW b, NEW h, NEW r \in Nat \ {Null}, r \in DOMAIN h, r > b, Root(h, r),
           HasChildren(h[r])
    PROVE  Given(b, h, <<r>>) /\ Given(b, h, <<r, Null>>)
<1>. DEFINE one == <<r>>
            two == <<r, Null>>
<1>1. DOMAIN one = {1} /\ one[1] = r /\ DOMAIN two = {1, 2} /\ two[1] = r /\ two[2] = Null
  OBVIOUS
<1>. HIDE DEF one, two
<1>2. Given(b, h, one)
  BY <1>1 DEF Given
<1>3. Given(b, h, two)
  BY <1>1 DEF Given
<1>. QED
  BY <1>2, <1>3 DEF one, two

LEMMA JoinRan ==
    ASSUME NEW b, NEW p0 \in State, NEW left, NEW type \in NodeType, NEW right,
           Ran(b, p0, left), ~Failed(left), Ran(Len(left.heap), left, right)
    PROVE  Ran(b, p0, Join(left, type, right))
<1>1. Fine(left) /\ Fine(right) /\ Ready(right) /\ Entered(right)
  BY DEF Ran, After, Ready
<1>2. /\ left.at >= p0.at /\ right.at >= left.at /\ left.at \in Nat /\ right.at \in Nat
      /\ p0.at \in Nat /\ p0.heap \in Seq(Node)
      /\ left.heap \in Seq(Node) /\ right.heap \in Seq(Node)
      /\ Len(left.heap) \in Nat /\ left.res \in Nat /\ right.res \in Nat
      /\ DOMAIN left.heap = 1 .. Len(left.heap) /\ DOMAIN right.heap = 1 .. Len(right.heap)
      /\ Len(right.heap) \in Nat
  BY <1>1, FineFields, StateFields DEF Ran, After
<1>3. right.at >= p0.at
  BY <1>2
<1>4. Grown(b, p0.heap, left.heap) /\ Grown(Len(left.heap), left.heap, right.heap)
  BY DEF Ran, After
<1>5. b \in Nat /\ b <= Len(left.heap)
  BY <1>4 DEF Grown
<1>6. Grown(b, p0.heap, right.heap)
  BY <1>2, <1>4, <1>5, GrownOn
<1>7. CASE Failed(right)
  <2>1. Join(left, type, right) = right
    BY <1>7 DEF Join
  <2>2. After(b, p0, right)
    BY <1>1, <1>3, <1>6, <1>7 DEF After, Ran, Returns, Failed
  <2>. QED
    BY <2>1, <2>2, <1>1 DEF Ran
<1>8. CASE ~Failed(right)
  <2>. DEFINE kids == <<left.res, right.res>>
  <2>1. Join(left, type, right) = Operator(right, type, kids)
    BY <1>8 DEF Join
  <2>2. kids \in Seq(Nat) /\ DOMAIN kids = {1, 2} /\ kids[1] = left.res /\ kids[2] = right.res
    BY <1>2
  <2>3. left.res # Null /\ right.res # Null
    BY <1>8 DEF Failed
  <2>4. HasChildren(Made(type, << >>, kids))
    BY <2>3, TwoChildren
  <2>. HIDE DEF kids
  <2>5. /\ left.res \in DOMAIN left.heap /\ left.res > b /\ Root(left.heap, left.res)
        /\ HasChildren(left.heap[left.res])
    BY <2>3 DEF Ran, After, Returns
  <2>6. /\ right.res \in DOMAIN right.heap /\ right.res > Len(left.heap)
        /\ Root(right.heap, right.res) /\ HasChildren(right.heap[right.res])
    BY <2>3 DEF Ran, After, Returns
  <2>7. left.res \in 1 .. Len(left.heap) /\ Len(left.heap) <= Len(right.heap)
    BY <2>5, <1>2, <1>4 DEF Grown
  <2>8. Root(right.heap, left.res) /\ right.heap[left.res] = left.heap[left.res]
    BY <1>2, <1>4, <2>5, <2>7, RootStays
  <2>9. left.res \in DOMAIN right.heap /\ left.res # right.res /\ right.res > b
    BY <1>2, <1>5, <2>6, <2>7
  <2>10. Given(b, right.heap, kids)
    BY <2>2, <2>5, <2>6, <2>8, <2>9 DEF Given
  <2>11. /\ Ready(right) /\ type \in NodeType /\ kids \in Seq(Nat) /\ p0.heap \in Seq(Node)
         /\ right.at >= p0.at /\ Grown(b, p0.heap, right.heap)
    BY <1>1, <1>2, <1>3, <1>6, <2>2
  <2>12. Ran(b, p0, Operator(right, type, kids))
    BY <2>4, <2>10, <2>11, OperatorRan
  <2>. QED
    BY <2>1, <2>12
<1>. QED
  BY <1>7, <1>8

-----------------------------------------------------------------------------
(* The rules without compound commands. *)
LEMMA InText ==
    ASSUME tokens \in Seq(TokenType), NEW k \in Nat, At(k) # "eof"
    PROVE  k + 1 <= Turns
BY DEF At, Turns

LEMMA RepeatStill ==
    ASSUME tokens \in Seq(TokenType), NEW turn \in [State -> State], NEW p \in State, turn[p] = p
    PROVE  Repeat(turn, p) = p
<1>1. PICK f : /\ \A q : Repeat(turn, q) = f[Turns][q]
               /\ \A n \in 1 .. Turns : \A q \in State :
                    f[n][q] = IF turn[q] = q THEN q ELSE f[n - 1][turn[q]]
  BY RepeatLoops
<1>2. Turns \in 1 .. Turns
  BY DEF Turns
<1>. QED
  BY <1>1, <1>2

LEMMA LeafChildren ==
    ASSUME NEW type \in {"simple", "redir"}, NEW words, NEW kids
    PROVE  HasChildren(Made(type, words, kids))
<1>1. Needed(Made(type, words, kids)) = {}
  BY DEF Needed, Made
<1>. QED
  BY <1>1 DEF HasChildren

LEMMA RedirectionShape ==
    ASSUME tokens \in Seq(TokenType), NEW p \in State, Peek(p) \in Redirections
    PROVE  \E k \in {p.at + 1, p.at + 2}, words \in Seq(Nat) :
             /\ parse_redirection(p) = Keep(New(To(p, k), "redir", words, << >>))
             /\ k <= Turns
<1>. DEFINE none == << >>
            one == <<p.at>>
            two == <<p.at, p.at + 1>>
            words == IF Peek(p) = ">w" THEN one ELSE two
            k == IF Peek(p) = ">w" \/ PeekTwo(p) \in {"eof", ";"} THEN p.at + 1 ELSE p.at + 2
<1>1. one \in Seq(Nat) /\ two \in Seq(Nat) /\ p.at \in Nat /\ p.at + 1 \in Nat
  BY StateFields
<1>2. parse_redirection(p) = Keep(New(To(p, k), "redir", words, none))
  BY DEF parse_redirection
<1>. HIDE DEF none, one, two
<1>3. words \in Seq(Nat)
  BY <1>1
<1>4. At(p.at) # "eof"
  BY DEF Peek, Redirections
<1>5. p.at + 1 <= Turns
  BY <1>1, <1>4, InText
<1>6. At(p.at + 1) # "eof" => p.at + 2 <= Turns
  <2>1. At(p.at + 1) # "eof" => (p.at + 1) + 1 <= Turns
    BY <1>1, InText
  <2>2. (p.at + 1) + 1 = p.at + 2
    BY <1>1
  <2>. QED
    BY <2>1, <2>2
<1>7. PeekTwo(p) \notin {"eof", ";"} => At(p.at + 1) # "eof"
  BY DEF PeekTwo
<1>8. k <= Turns /\ k \in {p.at + 1, p.at + 2}
  BY <1>5, <1>6, <1>7
<1>. HIDE DEF words, k
<1>. QED
  BY <1>2, <1>3, <1>8 DEF none

(* What is allocated for a redirection. *)
LEMMA RedirectionMade ==
    ASSUME tokens \in Seq(TokenType), NEW q, Fine(q), Peek(q) \in Redirections
    PROVE  \E k \in Nat, words \in Seq(Nat) :
             /\ k > q.at /\ Fine(To(q, k)) /\ To(q, k).at = k /\ To(q, k).heap = q.heap
             /\ To(q, k).nodes = q.nodes
             /\ parse_redirection(q) = Keep(New(To(q, k), "redir", words, << >>))
<1>1. q \in State /\ q.at \in Nat
  BY FineFields
<1>2. PICK k \in {q.at + 1, q.at + 2}, words \in Seq(Nat) :
        parse_redirection(q) = Keep(New(To(q, k), "redir", words, << >>)) /\ k <= Turns
  BY <1>1, RedirectionShape
<1>3. k \in Nat \ {0} /\ k > q.at
  BY <1>1, <1>2
<1>. DEFINE r == To(q, k)
<1>4. /\ r \in State /\ r.at = k /\ r.heap = q.heap /\ r.nodes = q.nodes /\ r.funcs = q.funcs
  BY <1>1, <1>3, ToFields
<1>. HIDE DEF r
<1>5. Fine(r)
  BY <1>2, <1>4, Moved
<1>. QED
  BY <1>2, <1>3, <1>4, <1>5 DEF r

LEMMA RedirectionRan ==
    ASSUME tokens \in Seq(TokenType), NEW b, NEW p0 \in State, NEW q, Ran(b, p0, q),
           Peek(q) \in Redirections
    PROVE  Ran(b, p0, parse_redirection(q))
<1>1. Fine(q) /\ Entered(q) /\ q.at >= p0.at /\ Grown(b, p0.heap, q.heap)
  BY DEF Ran, After
<1>2. p0.at \in Nat /\ q.at \in Nat /\ p0.heap \in Seq(Node)
  BY <1>1, FineFields, StateFields
<1>3. PICK k \in Nat, words \in Seq(Nat) :
        /\ k > q.at /\ Fine(To(q, k)) /\ To(q, k).at = k /\ To(q, k).heap = q.heap
        /\ To(q, k).nodes = q.nodes
        /\ parse_redirection(q) = Keep(New(To(q, k), "redir", words, << >>))
  BY <1>1, RedirectionMade
<1>. DEFINE r == To(q, k)
            none == << >>
<1>4. none \in Seq(Nat) /\ Given(b, r.heap, none)
  BY DEF Given
<1>5. Ready(r) /\ r.at >= p0.at /\ Grown(b, p0.heap, r.heap)
  BY <1>1, <1>2, <1>3 DEF Ready, Entered
<1>6. "redir" \in NodeType
  BY DEF NodeType
<1>7. HasChildren(Made("redir", words, none))
  BY LeafChildren
<1>. HIDE DEF r, none
<1>8. Ran(b, p0, Keep(New(r, "redir", words, none)))
  BY <1>2, <1>4, <1>5, <1>6, <1>7, NewRan
<1>. QED
  BY <1>3, <1>8 DEF r, none

LEMMA PrefixRan ==
    ASSUME tokens \in Seq(TokenType), NEW b, NEW p0 \in State, NEW p, Ran(b, p0, p)
    PROVE  Ran(b, p0, handle_prefix(p))
<1>. DEFINE S == {q \in State : Ran(b, p0, q)}
<1>1. ASSUME NEW q \in S PROVE PrefixTurn[q] \in S
  <2>1. CASE Peek(q) \in Redirections
    <3>1. PrefixTurn[q] = parse_redirection(q) /\ PrefixTurn[q] \in State
      BY <2>1, PrefixTurns
    <3>. QED
      BY <2>1, <3>1, RedirectionRan
  <2>2. CASE Peek(q) \notin Redirections
    BY <2>2, PrefixTurns
  <2>. QED
    BY <2>1, <2>2
<1>2. p \in S /\ S \in SUBSET State
  BY DEF Ran, After, Fine
<1>3. handle_prefix(p) = Repeat(PrefixTurn, p) /\ PrefixTurn \in [State -> State]
  BY PrefixTurns
<1>. HIDE DEF S
<1>4. Repeat(PrefixTurn, p) \in S
  BY <1>1, <1>2, <1>3, RepeatKeeps
<1>. QED
  BY <1>3, <1>4 DEF S

LEMMA PrefixStops ==
    ASSUME tokens \in Seq(TokenType), NEW p \in State, p.at <= Turns
    PROVE  /\ Peek(handle_prefix(p)) \notin Redirections
           /\ \A q \in State : Peek(q) \notin Redirections => handle_prefix(q) = q
<1>. DEFINE S == {q \in State : q.at <= Turns}
<1>1. ASSUME NEW q \in S, Peek(q) \in Redirections
      PROVE  parse_redirection(q) \in S /\ parse_redirection(q).at > q.at
  <2>1. PICK k \in {q.at + 1, q.at + 2}, words \in Seq(Nat) :
          parse_redirection(q) = Keep(New(To(q, k), "redir", words, << >>)) /\ k <= Turns
    BY <1>1, RedirectionShape
  <2>. DEFINE none == << >>
              r == To(q, k)
  <2>2. none \in Seq(Nat) /\ "redir" \in NodeType
    BY DEF NodeType
  <2>. HIDE DEF none
  <2>3. k \in Nat \ {0} /\ k > q.at
    BY StateFields
  <2>4. r \in State /\ r.at = k
    BY <2>3, ToFields
  <2>. HIDE DEF r
  <2>5. New(r, "redir", words, none) \in State /\ New(r, "redir", words, none).at = k
    BY <2>2, <2>4, NewFields
  <2>6. Keep(New(r, "redir", words, none)) \in State /\ Keep(New(r, "redir", words, none)).at = k
    BY <2>5, KeepFields
  <2>. QED
    BY <2>1, <2>3, <2>6 DEF r, none
<1>2. \A q \in S : PrefixTurn[q] \in S /\ (PrefixTurn[q].at > q.at \/ PrefixTurn[q] = q)
  BY <1>1, PrefixTurns
<1>3. \A q \in S : PrefixTurn[q].at > q.at \/ PrefixTurn[PrefixTurn[q]] = PrefixTurn[q]
  BY <1>2
<1>4. p \in S /\ S \in SUBSET State /\ \A q \in S : q.at <= Turns
  OBVIOUS
<1>5. PrefixTurn \in [State -> State] /\ handle_prefix(p) = Repeat(PrefixTurn, p)
  BY PrefixTurns
<1>6. \A q \in S : q.at \in Nat /\ ~(q.at > q.at)
  BY StateFields
<1>. HIDE DEF S
<1>. DEFINE end == Repeat(PrefixTurn, p)
<1>7. end \in S
  BY <1>2, <1>4, <1>5, RepeatKeeps
<1>8. PrefixTurn[end] = end
  BY <1>2, <1>3, <1>4, <1>5, RepeatStops
<1>. HIDE DEF end
<1>9. Peek(end) \notin Redirections
  <2>1. Peek(end) \in Redirections => PrefixTurn[end] = parse_redirection(end)
    BY <1>4, <1>7, PrefixTurns
  <2>. QED
    BY <1>1, <1>6, <1>7, <1>8, <2>1
<1>10. ASSUME NEW q \in State, Peek(q) \notin Redirections PROVE handle_prefix(q) = q
  <2>1. PrefixTurn[q] = q
    BY <1>10, PrefixTurns
  <2>2. Repeat(PrefixTurn, q) = q
    BY <1>5, <2>1, RepeatStill
  <2>. QED
    BY <2>2, PrefixTurns
<1>. QED
  BY <1>5, <1>9, <1>10 DEF end

(* While a simple command reads its redirections: its node is not entered yet, and
   what is above it are nodes without children. *)
Filling(p, q) ==
    /\ Fine(q) /\ q.at >= p.at /\ Len(p.heap) < Len(q.heap)
    /\ Same(Len(p.heap), p.heap, q.heap)
    /\ \A m \in DOMAIN q.heap :
         m > Len(p.heap) => DOMAIN q.heap[m].kids = {} /\ HasChildren(q.heap[m])
    /\ q.heap[Len(p.heap) + 1].type = "simple"
    /\ Members(q.nodes) = DOMAIN q.heap \ {Len(p.heap) + 1}

LEMMA FillingBegins ==
    ASSUME tokens \in Seq(TokenType), NEW p, Ready(p)
    PROVE  Filling(p, Command(p))
<1>. DEFINE none == << >>
            type == "simple"
            node == Made(type, none, none)
            q == Command(p)
<1>1. /\ p \in State /\ p.at \in Nat \ {0} /\ p.at <= Turns /\ Fine(p) /\ Entered(p)
      /\ p.heap \in Seq(Node) /\ Len(p.heap) \in Nat /\ DOMAIN p.heap = 1 .. Len(p.heap)
  BY FineFields DEF Ready
<1>. DEFINE k == Behind("word", p.at)
<1>2. k \in Nat \ {0} /\ k >= p.at /\ k <= Turns
  BY <1>1, BehindFrom
<1>3. none \in Seq(Nat) /\ DOMAIN none = {} /\ type \in NodeType /\ Given(Len(p.heap), p.heap, none)
  BY DEF NodeType, Given
<1>4. q = To(New(p, type, none, none), k) /\ HasChildren(node)
  BY LeafChildren DEF Command
<1>. HIDE DEF none, k, type
<1>. DEFINE r == New(p, type, none, none)
<1>5. Grown(Len(p.heap), p.heap, p.heap)
  BY <1>1, GrownSelf
<1>6. /\ Fine(r) /\ r.at = p.at /\ r.nodes = p.nodes /\ r.res = Len(p.heap) + 1
      /\ r.heap[r.res] = node /\ Grown(Len(p.heap), p.heap, r.heap)
  <2>1. /\ Fine(p) /\ type \in NodeType /\ none \in Seq(Nat) /\ p.heap \in Seq(Node)
        /\ Given(Len(p.heap), p.heap, none)
    BY <1>1, <1>3
  <2>. QED
    BY <1>5, <2>1, Allocated
<1>7. /\ node \in Node /\ node.kids = none /\ node.type = type /\ r \in State
      /\ r.heap = Append(p.heap, node)
  <2>1. p \in State /\ type \in NodeType /\ none \in Seq(Nat)
    BY <1>1, <1>3
  <2>. QED
    BY <2>1, MadeFields, NewFields
<1>. HIDE DEF r
<1>. HIDE DEF node
<1>9. Len(r.heap) = Len(p.heap) + 1 /\ DOMAIN r.heap = 1 .. Len(p.heap) + 1
  BY <1>1, <1>6, <1>7, Grows, FineFields
<1>10. /\ q \in State /\ q.at = k /\ q.heap = r.heap /\ q.nodes = r.nodes /\ q.funcs = r.funcs
  <2>1. q = To(r, k)
    BY <1>4 DEF r
  <2>. HIDE DEF q
  <2>. QED
    BY <1>2, <1>7, <2>1, ToFields
<1>. HIDE DEF q
<1>11. Fine(q)
  BY <1>2, <1>6, <1>10, Moved
<1>12. Same(Len(p.heap), p.heap, q.heap)
  BY <1>6, <1>10 DEF Grown
<1>13. ASSUME NEW m \in DOMAIN q.heap, m > Len(p.heap) PROVE q.heap[m] = node
  BY <1>1, <1>6, <1>9, <1>10, <1>13
<1>14. Members(q.nodes) = DOMAIN q.heap \ {Len(p.heap) + 1}
  <2>1. Members(q.nodes) = DOMAIN p.heap
    BY <1>1, <1>6, <1>10 DEF Entered
  <2>. QED
    BY <1>1, <1>9, <1>10, <2>1
<1>15. q.at >= p.at /\ Len(p.heap) < Len(q.heap) /\ q.heap[Len(p.heap) + 1].type = "simple"
  BY <1>1, <1>2, <1>6, <1>7, <1>9, <1>10 DEF type
<1>. QED
  BY <1>3, <1>4, <1>7, <1>11, <1>12, <1>13, <1>14, <1>15 DEF Filling, q

LEMMA FillingGoesOn ==
    ASSUME tokens \in Seq(TokenType), NEW p, Ready(p), NEW q, Filling(p, q),
           Peek(q) \in Redirections
    PROVE  Filling(p, parse_redirection(q))
<1>. DEFINE none == << >>
            type == "redir"
            n == Len(p.heap) + 1
<1>1. Fine(q) /\ Fine(p)
  BY DEF Filling, Ready
<1>2. /\ p.at \in Nat /\ q.at \in Nat /\ q.at >= p.at /\ p.heap \in Seq(Node)
      /\ Len(p.heap) \in Nat /\ Len(q.heap) \in Nat /\ Len(p.heap) < Len(q.heap)
      /\ q.heap \in Seq(Node) /\ DOMAIN q.heap = 1 .. Len(q.heap)
  BY <1>1, FineFields DEF Filling
<1>3. PICK k \in Nat, words \in Seq(Nat) :
        /\ k > q.at /\ Fine(To(q, k)) /\ To(q, k).at = k /\ To(q, k).heap = q.heap
        /\ To(q, k).nodes = q.nodes
        /\ parse_redirection(q) = Keep(New(To(q, k), "redir", words, << >>))
  BY <1>1, RedirectionMade
<1>. DEFINE a == To(q, k)
            r == New(a, type, words, none)
            s == Keep(r)
            node == Made(type, words, none)
<1>4. parse_redirection(q) = s /\ HasChildren(node)
  BY <1>3, LeafChildren
<1>5. none \in Seq(Nat) /\ DOMAIN none = {} /\ type \in NodeType /\ Given(Len(q.heap), a.heap, none)
  BY DEF NodeType, Given
<1>6. Grown(Len(q.heap), q.heap, a.heap)
  BY <1>2, <1>3, GrownSelf
<1>. HIDE DEF a, none, type
<1>7. /\ Fine(a) /\ a.at = k /\ a.heap = q.heap /\ a.nodes = q.nodes /\ a \in State
  BY <1>3, FineFields DEF a
<1>8. /\ Fine(r) /\ r.at = a.at /\ r.nodes = a.nodes /\ r.res = Len(a.heap) + 1
      /\ r.heap[r.res] = node /\ Grown(Len(q.heap), q.heap, r.heap)
  <2>1. /\ Fine(a) /\ type \in NodeType /\ none \in Seq(Nat) /\ q.heap \in Seq(Node)
        /\ Given(Len(q.heap), a.heap, none)
    BY <1>2, <1>5, <1>7
  <2>. QED
    BY <1>6, <2>1, Allocated
<1>9. node \in Node /\ node.kids = none /\ r \in State /\ r.heap = Append(a.heap, node)
  <2>1. a \in State /\ type \in NodeType /\ none \in Seq(Nat)
    BY <1>5, <1>7
  <2>. QED
    BY <2>1, MadeFields, NewFields
<1>. HIDE DEF node, r
<1>11. Len(r.heap) = Len(q.heap) + 1 /\ DOMAIN r.heap = 1 .. Len(q.heap) + 1
  BY <1>2, <1>7, <1>8, <1>9, Grows, FineFields
<1>12. /\ s \in State /\ s.at = r.at /\ s.heap = r.heap /\ s.nodes = ast_append(r.nodes, r.res)
       /\ s.funcs = r.funcs
  BY <1>9, KeepFields
<1>. HIDE DEF s
<1>13. /\ Members(s.nodes) = Members(r.nodes) \cup ({r.res} \ {Null}) /\ Once(s.nodes)
  <2>1. r.nodes \in Seq(Nat) /\ r.res \in Nat /\ Once(r.nodes)
    BY <1>8, FineFields
  <2>. QED
    BY <1>12, <2>1, AppendMembers
<1>14. Fine(s)
  BY <1>8, <1>12, <1>13 DEF Fine
<1>15. Members(r.nodes) = DOMAIN q.heap \ {n}
  BY <1>7, <1>8 DEF Filling
<1>16. r.res = Len(q.heap) + 1
  BY <1>7, <1>8
<1>17. Members(s.nodes) = DOMAIN s.heap \ {n}
  BY <1>2, <1>11, <1>12, <1>13, <1>15, <1>16 DEF Null
<1>18. \A m \in DOMAIN q.heap : s.heap[m] = q.heap[m]
  BY <1>2, <1>8, <1>12 DEF Grown, Same
<1>19. \A m \in DOMAIN s.heap : m \in DOMAIN q.heap \/ s.heap[m] = node
  BY <1>2, <1>8, <1>11, <1>12, <1>16
<1>20. Same(Len(p.heap), p.heap, s.heap)
  <2>1. Same(Len(p.heap), p.heap, q.heap) /\ 1 .. Len(p.heap) \subseteq DOMAIN q.heap
    BY <1>2 DEF Filling
  <2>. QED
    BY <2>1, <1>18 DEF Same
<1>21. ASSUME NEW m \in DOMAIN s.heap, m > Len(p.heap)
       PROVE  DOMAIN s.heap[m].kids = {} /\ HasChildren(s.heap[m])
  BY <1>4, <1>5, <1>9, <1>18, <1>19, <1>21 DEF Filling
<1>22. s.heap[Len(p.heap) + 1].type = "simple"
  <2>1. Len(p.heap) + 1 \in DOMAIN q.heap
    BY <1>2
  <2>. QED
    BY <1>18, <2>1 DEF Filling
<1>23. s.at >= p.at /\ Len(p.heap) < Len(s.heap)
  BY <1>2, <1>3, <1>7, <1>8, <1>11, <1>12
<1>. QED
  BY <1>4, <1>14, <1>17, <1>20, <1>21, <1>22, <1>23 DEF Filling

LEMMA FillingEnds ==
    ASSUME tokens \in Seq(TokenType), NEW p, Ready(p), NEW q, Filling(p, q), NEW words \in Seq(Nat)
    PROVE  /\ After(Len(p.heap), p, Filled(q, Len(p.heap) + 1, words))
           /\ Filled(q, Len(p.heap) + 1, words).at = q.at
<1>. DEFINE n == Len(p.heap) + 1
            b == Len(p.heap)
            r == Filled(q, n, words)
            kids == Redirs(q, n)
            type == q.heap[n].type
            node == Made(type, words, kids)
<1>1. /\ q \in State /\ p \in State /\ p.at \in Nat /\ q.at \in Nat /\ q.at >= p.at
      /\ p.heap \in Seq(Node) /\ q.heap \in Seq(Node) /\ Len(p.heap) \in Nat
      /\ Len(q.heap) \in Nat /\ Len(p.heap) < Len(q.heap)
      /\ DOMAIN p.heap = 1 .. Len(p.heap) /\ DOMAIN q.heap = 1 .. Len(q.heap)
      /\ Forest(p.heap) /\ Forest(q.heap) /\ Bodies(q.heap, q.funcs) /\ Once(q.nodes)
      /\ q.at <= Turns
  BY FineFields DEF Filling, Ready
<1>2. n \in 1 .. Len(q.heap) /\ n \in Nat /\ n > b /\ n # Null /\ n \in DOMAIN q.heap /\ b \in Nat
  BY <1>1 DEF Null
<1>3. type \in {"simple", "redir"} /\ type \in NodeType
  BY DEF Filling, NodeType
<1>. HIDE DEF n
<1>4. /\ r \in State /\ r.at = q.at /\ r.nodes = q.nodes /\ r.funcs = q.funcs /\ r.res = n
      /\ r.heap = [q.heap EXCEPT ![n] = node]
  BY <1>1, <1>2, FilledFields
<1>5. /\ kids \in Seq(Nat) /\ Len(kids) = Len(q.heap) - n
      /\ \A k \in 1 .. Len(q.heap) - n : kids[k] = n + k
  BY <1>1, <1>2, RedirsTyped
<1>. HIDE DEF r, kids, type
<1>6. node.kids = kids /\ node \in Node /\ HasChildren(node)
  BY <1>3, <1>5, MadeFields, LeafChildren
<1>. HIDE DEF node
<1>7. /\ r.heap \in Seq(Node) /\ DOMAIN r.heap = DOMAIN q.heap /\ r.heap[n] = node
      /\ \A m \in DOMAIN q.heap : m # n => r.heap[m] = q.heap[m]
  BY <1>1, <1>2, <1>4, <1>6, ExceptSeq
<1>8. Put(q.heap, r.heap, n) /\ Whole(q.heap, r.heap, n)
  BY <1>2, <1>6, <1>7 DEF Put, Whole
<1>9. ASSUME NEW x \in DOMAIN q.heap, x > b PROVE Root(q.heap, x) /\ x # Null
  <2>1. x # Null /\ x \notin DOMAIN p.heap
    BY <1>1, <1>9 DEF Null
  <2>2. ASSUME NEW m, NEW k, Has(q.heap, m, k, x) PROVE FALSE
    <3>1. m \in DOMAIN q.heap /\ k \in DOMAIN q.heap[m].kids
      BY <2>2 DEF Has
    <3>2. ~(m > Len(p.heap))
      BY <3>1 DEF Filling
    <3>3. m \in DOMAIN p.heap /\ m \in 1 .. Len(p.heap)
      BY <3>1, <3>2, <1>1
    <3>4. q.heap[m] = p.heap[m]
      BY <3>3 DEF Filling, Same
    <3>5. Has(p.heap, m, k, x)
      BY <2>2, <3>3, <3>4 DEF Has
    <3>. QED
      BY <2>1, <3>5, <1>1 DEF Forest, Sound
  <2>. QED
    BY <2>1, <2>2 DEF Root
<1>10. ASSUME NEW k, NEW x, Has(r.heap, n, k, x)
       PROVE  k \in Nat /\ x = n + k /\ x \in DOMAIN q.heap /\ x > b /\ x # n
  <2>1. k \in DOMAIN kids /\ kids[k] = x
    BY <1>6, <1>7, <1>10 DEF Has
  <2>2. DOMAIN kids = 1 .. Len(q.heap) - n
    BY <1>5
  <2>3. k \in 1 .. Len(q.heap) - n
    BY <2>1, <2>2
  <2>4. x = n + k
    BY <1>5, <2>1, <2>3
  <2>. QED
    BY <1>1, <1>2, <2>3, <2>4
<1>11. Takes(q.heap, r.heap, n)
  <2>1. ASSUME NEW k, NEW x, Has(r.heap, n, k, x)
        PROVE  x \in DOMAIN r.heap /\ HasChildren(r.heap[x]) /\ Root(q.heap, x)
    <3>1. x \in DOMAIN q.heap /\ x > b /\ x # n
      BY <1>10, <2>1
    <3>2. HasChildren(q.heap[x])
      BY <3>1 DEF Filling
    <3>. QED
      BY <1>7, <1>9, <3>1, <3>2
  <2>2. ASSUME NEW j, NEW k, NEW x, Has(r.heap, n, j, x), Has(r.heap, n, k, x) PROVE j = k
    <3>1. j \in Nat /\ k \in Nat /\ x = n + j /\ x = n + k
      BY <1>10, <2>2
    <3>. QED
      BY <3>1, <1>2
  <2>. QED
    BY <2>1, <2>2 DEF Takes
<1>12. Forest(r.heap) /\ Bodies(r.heap, r.funcs)
  BY <1>1, <1>4, <1>7, <1>8, <1>11, PutForest, BodiesPut
<1>13. Fine(r)
  BY <1>1, <1>4, <1>12 DEF Fine
<1>14. Root(r.heap, n)
  <2>1. Root(q.heap, n)
    BY <1>2, <1>9
  <2>2. \A k : ~Has(r.heap, n, k, n)
    BY <1>10
  <2>. QED
    BY <1>8, <2>1, <2>2, PutRoot
<1>15. Grown(b, p.heap, q.heap)
  <2>1. \A m, k, x : Has(q.heap, m, k, x) => ~(m > b)
    BY DEF Has, Filling
  <2>2. Above(b, q.heap)
    BY <2>1 DEF Above
  <2>3. Same(b, p.heap, q.heap)
    BY DEF Filling
  <2>. QED
    BY <1>1, <1>2, <2>2, <2>3 DEF Grown
<1>16. Grown(b, p.heap, r.heap)
  <2>1. \A k, x : Has(r.heap, n, k, x) => x = Null \/ x > b
    BY <1>10
  <2>. QED
    BY <1>1, <1>2, <1>7, <1>8, <1>15, <2>1, PutGrown
<1>17. Owed(r)
  <2>1. Members(q.nodes) = DOMAIN q.heap \ {n}
    BY DEF Filling, n
  <2>. QED
    BY <1>2, <1>4, <1>7, <2>1 DEF Owed
<1>18. Returns(b, r)
  BY <1>2, <1>4, <1>6, <1>7, <1>14 DEF Returns
<1>19. After(b, p, r)
  BY <1>1, <1>4, <1>13, <1>16, <1>17, <1>18 DEF After
<1>. QED
  BY <1>4, <1>19 DEF r, n

LEMMA SimpleAfter ==
    ASSUME tokens \in Seq(TokenType), NEW p, Ready(p)
    PROVE  /\ After(Len(p.heap), p, add_simple_commande(p))
           /\ handle_prefix(add_simple_commande(p)) = add_simple_commande(p)
<1>. DEFINE S == {q \in State : Filling(p, q)}
            q == handle_prefix(Command(p))
            words == WordsAt(p.at)
<1>1. p \in State /\ p.at \in Nat \ {0}
  BY FineFields DEF Ready
<1>2. Command(p) \in S
  BY <1>1, FillingBegins, CommandFields
<1>3. ASSUME NEW r \in S PROVE PrefixTurn[r] \in S
  <2>1. CASE Peek(r) \in Redirections
    <3>1. PrefixTurn[r] = parse_redirection(r) /\ PrefixTurn[r] \in State
      BY <2>1, PrefixTurns
    <3>. QED
      BY <2>1, <3>1, FillingGoesOn
  <2>2. CASE Peek(r) \notin Redirections
    BY <2>2, PrefixTurns
  <2>. QED
    BY <2>1, <2>2
<1>4. S \in SUBSET State /\ PrefixTurn \in [State -> State] /\ q = Repeat(PrefixTurn, Command(p))
  BY PrefixTurns
<1>. HIDE DEF S
<1>5. q \in S
  BY <1>2, <1>3, <1>4, RepeatKeeps
<1>6. Filling(p, q)
  BY <1>5 DEF S
<1>7. Peek(q) \notin Redirections
  <2>1. Command(p) \in State /\ Command(p).at <= Turns
    BY <1>2 DEF S, Filling, Fine
  <2>. QED
    BY <2>1, PrefixStops
<1>8. words \in Seq(Nat) /\ add_simple_commande(p) = Filled(q, Len(p.heap) + 1, words)
  BY <1>1, WordsTyped, CommandFields DEF WordsAt
<1>. HIDE DEF q, words
<1>9. /\ After(Len(p.heap), p, add_simple_commande(p)) /\ add_simple_commande(p).at = q.at
  BY <1>6, <1>8, FillingEnds
<1>10. Peek(add_simple_commande(p)) \notin Redirections
  BY <1>7, <1>9 DEF Peek
<1>11. add_simple_commande(p) \in State /\ add_simple_commande(p).at <= Turns
  BY <1>9 DEF After, Fine
<1>. QED
  BY <1>9, <1>10, <1>11, PrefixStops

-----------------------------------------------------------------------------
(* Compound commands.  While the children of node n, of type t, are parsed: it has c of
   them, and is nobody's child. *)
Open(p, n, t, q, c) ==
    /\ Ready(q) /\ q.at >= p.at /\ n \in Nat /\ Grown(n - 1, p.heap, q.heap)
    /\ n \in DOMAIN q.heap /\ q.heap[n].type = t
    /\ \/ Failed(q)
       \/ /\ Root(q.heap, n) /\ Len(q.heap[n].kids) = c
          /\ \A k \in DOMAIN q.heap[n].kids : q.heap[n].kids[k] # Null

(* if or elif, when its node has been allocated. *)
Fresh(p) == Open(p, p.res, "if", p, 0) /\ ~Failed(p) /\ p.at + 1 <= Turns

(* What a rule may rely on when it calls those that contain it. *)
Right(inner) ==
    /\ inner \in Inners
    /\ \A p : Ready(p) =>
         /\ After(Len(p.heap), p, inner.list[p])
         /\ Failed(inner.list[p]) \/ Peek(inner.list[p]) \in Terminators
    /\ \A p : Fresh(p) => Ran(p.res - 1, p, inner.branches[p])

LEMMA OpenFields ==
    ASSUME NEW p \in State, NEW n, NEW t, NEW q, NEW c, Open(p, n, t, q, c)
    PROVE  /\ Ready(q) /\ Fine(q) /\ q \in State /\ q.at \in Nat /\ q.at >= p.at /\ p.at \in Nat
           /\ q.heap \in Seq(Node) /\ p.heap \in Seq(Node) /\ n \in Nat /\ n \in 1 .. Len(q.heap)
           /\ n - 1 \in Nat /\ Len(q.heap) \in Nat /\ DOMAIN q.heap = 1 .. Len(q.heap)
           /\ n \in DOMAIN q.heap /\ n # Null /\ q.heap[n] \in Node /\ q.at <= Turns
           /\ Grown(n - 1, p.heap, q.heap) /\ n - 1 <= Len(q.heap)
<1>1. Ready(q) /\ Fine(q) /\ n \in Nat /\ n \in DOMAIN q.heap
  BY DEF Open, Ready
<1>2. /\ q \in State /\ q.at \in Nat /\ q.heap \in Seq(Node) /\ Len(q.heap) \in Nat
      /\ DOMAIN q.heap = 1 .. Len(q.heap) /\ q.at <= Turns
  BY <1>1, FineFields
<1>3. p.at \in Nat /\ p.heap \in Seq(Node)
  BY StateFields
<1>4. n \in 1 .. Len(q.heap) /\ n - 1 \in Nat /\ n - 1 <= Len(q.heap)
  BY <1>1, <1>2
<1>5. n # Null /\ q.heap[n] \in Node
  BY <1>1, <1>2, Heap
<1>. QED
  BY <1>1, <1>2, <1>3, <1>4, <1>5 DEF Open

LEMMA OpenFail ==
    ASSUME NEW p \in State, NEW n, NEW t, NEW q, NEW c, Open(p, n, t, q, c), NEW d
    PROVE  /\ Failed(q) => Open(p, n, t, q, d)
           /\ Open(p, n, t, Fail(q), d)
<1>. DEFINE r == Fail(q)
<1>1. Ready(q) /\ q \in State /\ q.at <= Turns
  BY OpenFields
<1>2. /\ r \in State /\ r.at = q.at /\ r.res = Null /\ r.heap = q.heap
      /\ r.nodes = q.nodes /\ r.funcs = q.funcs
  BY <1>1, FailFields
<1>. HIDE DEF r
<1>3. Ready(r)
  BY <1>1, <1>2, StepOn
<1>4. Open(p, n, t, r, d)
  BY <1>2, <1>3 DEF Open, Failed
<1>. QED
  BY <1>4 DEF Open, r

LEMMA OpenChild ==
    ASSUME NEW p \in State, NEW n, NEW t, NEW q, NEW c \in Nat, Open(p, n, t, q, c), ~Failed(q),
           NEW r, r.at >= q.at, After(Len(q.heap), q, r)
    PROVE  /\ Open(p, n, t, Child(n, r), c + 1) /\ Child(n, r).at = r.at
           /\ Failed(Child(n, r)) <=> Failed(r)
<1>1. /\ Ready(q) /\ q \in State /\ q.at \in Nat /\ q.at >= p.at /\ p.at \in Nat
      /\ q.heap \in Seq(Node) /\ p.heap \in Seq(Node) /\ n \in Nat /\ n \in 1 .. Len(q.heap)
      /\ n - 1 \in Nat /\ Len(q.heap) \in Nat /\ DOMAIN q.heap = 1 .. Len(q.heap)
      /\ n \in DOMAIN q.heap /\ n # Null /\ q.heap[n] \in Node
      /\ Grown(n - 1, p.heap, q.heap) /\ n - 1 <= Len(q.heap)
  BY OpenFields
<1>2. /\ Fine(r) /\ r \in State /\ r.at \in Nat /\ r.heap \in Seq(Node) /\ Len(r.heap) \in Nat
      /\ DOMAIN r.heap = 1 .. Len(r.heap) /\ r.res \in Nat
  BY FineFields DEF After
<1>3. r.at >= p.at
  BY <1>1, <1>2
<1>4. Grown(Len(q.heap), q.heap, r.heap)
  BY DEF After
<1>5. Grown(n - 1, p.heap, r.heap)
  BY <1>1, <1>2, <1>4, GrownOn
<1>6. n \in DOMAIN r.heap /\ r.heap[n] = q.heap[n]
  BY <1>1, <1>2, <1>4 DEF Grown, Same
<1>7. r.heap[n].type = t
  BY <1>6 DEF Open
<1>8. CASE Failed(r)
  <2>1. Child(n, r) = r
    BY <1>8 DEF Child
  <2>2. Ready(r)
    BY <1>2, <1>8 DEF After, Ready, Owed, Entered, Failed
  <2>3. Open(p, n, t, r, c + 1)
    BY <1>1, <1>3, <1>5, <1>6, <1>7, <1>8, <2>2 DEF Open
  <2>. QED
    BY <2>1, <2>3
<1>9. CASE ~Failed(r)
  <2>. DEFINE s == Keep(r)
              x == r.res
              u == AddKid(n, s)
              old == s.heap[n].kids
              kids == Append(old, x)
              node == Made(s.heap[n].type, s.heap[n].words, kids)
  <2>1. Child(n, r) = u
    BY <1>9 DEF Child
  <2>2. Fine(r) /\ Owed(r)
    BY DEF After
  <2>3. Ready(s) /\ s.at = r.at /\ s.res = r.res /\ s.heap = r.heap /\ s.funcs = r.funcs
    BY <2>2, KeepReady
  <2>. HIDE DEF s
  <2>4. /\ Fine(s) /\ s \in State /\ s.nodes \in Seq(Nat) /\ Once(s.nodes) /\ s.at <= Turns
        /\ Forest(s.heap) /\ Bodies(s.heap, s.funcs) /\ Entered(s) /\ s.heap \in Seq(Node)
        /\ n \in 1 .. Len(s.heap)
    BY <1>2, <1>6, <2>3, FineFields DEF Ready
  <2>5. /\ u \in State /\ u.at = s.at /\ u.nodes = s.nodes /\ u.funcs = s.funcs /\ u.res = s.res
        /\ u.heap = [s.heap EXCEPT ![n] = node]
    BY <2>3, <2>4, AddKidFields
  <2>. HIDE DEF u
  <2>6. /\ x # Null /\ x \in DOMAIN r.heap /\ x > Len(q.heap) /\ Root(r.heap, x)
        /\ HasChildren(r.heap[x]) /\ x \in Nat
    BY <1>2, <1>9 DEF After, Returns, Failed
  <2>. HIDE DEF x
  <2>7. /\ s.heap[n] \in Node /\ old \in Seq(Nat) /\ s.heap[n].type \in NodeType
        /\ s.heap[n].words \in Seq(Nat)
    BY <1>1, <1>6, <2>3 DEF Node
  <2>8. /\ Len(old) = c /\ \A k \in DOMAIN old : old[k] # Null
    BY <1>6, <2>3 DEF Open
  <2>9. Root(q.heap, n)
    BY DEF Open
  <2>10. Root(r.heap, n)
    BY <1>1, <1>2, <1>4, <2>9, RootStays
  <2>. HIDE DEF old
  <2>11. /\ kids \in Seq(Nat) /\ Len(kids) = c + 1
         /\ DOMAIN kids = DOMAIN old \cup {c + 1} /\ kids[c + 1] = x /\ c + 1 \notin DOMAIN old
         /\ \A k \in DOMAIN old : kids[k] = old[k]
    BY <2>6, <2>7, <2>8
  <2>. HIDE DEF kids
  <2>12. /\ node \in Node /\ node.type = s.heap[n].type /\ node.kids = kids
    BY <2>7, <2>11, MadeFields
  <2>. HIDE DEF node
  <2>13. /\ u.heap \in Seq(Node) /\ DOMAIN u.heap = DOMAIN s.heap /\ u.heap[n] = node
         /\ \A m \in DOMAIN s.heap : m # n => u.heap[m] = s.heap[m]
    BY <2>4, <2>5, <2>12, ExceptSeq
  <2>14. Put(s.heap, u.heap, n)
    BY <1>6, <2>3, <2>13 DEF Put
  <2>15. Whole(s.heap, u.heap, n)
    <3>1. ASSUME HasChildren(s.heap[n]) PROVE HasChildren(node)
      <4>1. Needed(node) = Needed(s.heap[n])
        BY <2>12 DEF Needed
      <4>2. \A k \in Needed(s.heap[n]) : k \in DOMAIN old /\ old[k] # Null
        BY <3>1 DEF HasChildren, old
      <4>. QED
        BY <4>1, <4>2, <2>11, <2>12 DEF HasChildren
    <3>. QED
      BY <3>1, <2>13 DEF Whole
  <2>16. x # n
    BY <1>1, <2>6
  <2>17. ASSUME NEW k, NEW y, Has(u.heap, n, k, y)
         PROVE  k \in DOMAIN kids /\ kids[k] = y
    BY <2>12, <2>13, <2>17 DEF Has
  <2>18. ASSUME NEW k \in DOMAIN old PROVE Has(s.heap, n, k, kids[k])
    BY <1>6, <2>3, <2>11, <2>18 DEF Has, old
  <2>19. Takes(s.heap, u.heap, n)
    <3>1. ASSUME NEW k, NEW y, Has(u.heap, n, k, y), y # Null
          PROVE  /\ y \in DOMAIN u.heap /\ HasChildren(u.heap[y])
                 /\ Has(s.heap, n, k, y) \/ Root(s.heap, y)
      <4>1. CASE k = c + 1
        <5>1. y = x
          BY <2>11, <2>17, <3>1, <4>1
        <5>. QED
          BY <5>1, <2>3, <2>6, <2>13, <2>16
      <4>2. CASE k # c + 1
        <5>1. k \in DOMAIN old /\ kids[k] = y
          BY <2>11, <2>17, <3>1, <4>2
        <5>2. Has(s.heap, n, k, y)
          BY <5>1, <2>18
        <5>3. y \in DOMAIN s.heap /\ HasChildren(s.heap[y])
          BY <5>2, <3>1, <2>4 DEF Forest, Sound
        <5>. QED
          BY <5>2, <5>3, <2>13, <2>15, <2>14 DEF Whole
      <4>. QED
        BY <4>1, <4>2
    <3>2. ASSUME NEW j, NEW k, NEW y, Has(u.heap, n, j, y), Has(u.heap, n, k, y), y # Null
          PROVE  j = k
      <4>1. j \in DOMAIN kids /\ k \in DOMAIN kids /\ kids[j] = y /\ kids[k] = y
        BY <2>17, <3>2
      <4>2. ASSUME NEW i \in DOMAIN old PROVE kids[i] # x
        BY <2>18, <2>3, <2>6 DEF Root
      <4>3. CASE j \in DOMAIN old /\ k \in DOMAIN old
        <5>1. Has(s.heap, n, j, y) /\ Has(s.heap, n, k, y)
          BY <2>18, <4>1, <4>3
        <5>. QED
          BY <5>1, <3>2, <2>4 DEF Forest, Single
      <4>4. CASE j = c + 1 \/ k = c + 1
        BY <2>11, <4>1, <4>2, <4>4
      <4>. QED
        BY <2>11, <4>1, <4>3, <4>4
    <3>. QED
      BY <3>1, <3>2 DEF Takes
  <2>20. Forest(u.heap) /\ Bodies(u.heap, u.funcs)
    BY <2>4, <2>5, <2>13, <2>14, <2>15, <2>19, PutForest, BodiesPut
  <2>21. Fine(u) /\ Entered(u)
    BY <2>4, <2>5, <2>13, <2>20 DEF Fine, Entered
  <2>22. Root(u.heap, n)
    <3>1. Root(s.heap, n)
      BY <2>3, <2>10
    <3>2. \A k : ~Has(u.heap, n, k, n)
      <4>1. ASSUME NEW k, Has(u.heap, n, k, n) PROVE FALSE
        <5>1. k \in DOMAIN kids /\ kids[k] = n
          BY <2>17, <4>1
        <5>2. CASE k \in DOMAIN old
          BY <2>18, <3>1, <5>1, <5>2 DEF Root
        <5>3. CASE k = c + 1
          BY <2>11, <2>16, <5>1, <5>3
        <5>. QED
          BY <2>11, <5>1, <5>2, <5>3
      <4>. QED
        BY <4>1
    <3>. QED
      BY <2>14, <3>1, <3>2, PutRoot
  <2>23. Grown(n - 1, p.heap, u.heap)
    <3>1. ASSUME NEW k, NEW y, Has(u.heap, n, k, y) PROVE y = Null \/ y > n - 1
      <4>1. k \in DOMAIN kids /\ kids[k] = y
        BY <2>17, <3>1
      <4>2. CASE k \in DOMAIN old
        <5>1. Has(s.heap, n, k, y)
          BY <2>18, <4>1, <4>2
        <5>2. n > n - 1
          BY <1>1
        <5>. QED
          BY <1>5, <2>3, <5>1, <5>2 DEF Grown, Above
      <4>3. CASE k = c + 1
        BY <1>1, <2>6, <2>11, <4>1, <4>3
      <4>. QED
        BY <2>11, <4>1, <4>2, <4>3
    <3>2. n > n - 1
      BY <1>1
    <3>3. Grown(n - 1, p.heap, s.heap)
      BY <1>5, <2>3
    <3>. DEFINE b == n - 1
    <3>4. Put(s.heap, u.heap, n) /\ Grown(b, p.heap, s.heap) /\ n > b
          /\ (\A k, y : Has(u.heap, n, k, y) => y = Null \/ y > b)
      BY <2>14, <3>1, <3>2, <3>3
    <3>. HIDE DEF b
    <3>5. Grown(b, p.heap, u.heap)
      BY <1>1, <2>4, <2>13, <3>4, PutGrown
    <3>. QED
      BY <3>5 DEF b
  <2>24. u.heap[n].type = t /\ n \in DOMAIN u.heap
    BY <1>6, <1>7, <2>3, <2>12, <2>13
  <2>25. /\ Len(u.heap[n].kids) = c + 1
         /\ \A k \in DOMAIN u.heap[n].kids : u.heap[n].kids[k] # Null
    BY <2>6, <2>8, <2>11, <2>12, <2>13
  <2>26. u.at >= p.at
    BY <1>3, <2>3, <2>5
  <2>27. Open(p, n, t, u, c + 1)
    BY <1>1, <2>21, <2>22, <2>23, <2>24, <2>25, <2>26 DEF Open, Ready
  <2>28. u.at = r.at /\ (Failed(u) <=> Failed(r))
    BY <2>3, <2>5 DEF Failed
  <2>. QED
    BY <2>1, <2>27, <2>28
<1>. QED
  BY <1>8, <1>9

LEMMA TerminatorInText ==
    ASSUME tokens \in Seq(TokenType), NEW q \in State, Peek(q) \in Terminators
    PROVE  q.at + 1 <= Turns
<1>1. q.at \in Nat /\ At(q.at) # "eof"
  BY StateFields DEF Peek, Terminators
<1>. QED
  BY <1>1, InText

LEMMA ListInOpen ==
    ASSUME tokens \in Seq(TokenType), NEW inner, Right(inner), NEW p \in State, NEW n, NEW t,
           NEW q, NEW c \in Nat, Open(p, n, t, q, c), Failed(q) \/ q.at + 1 <= Turns
    PROVE  LET r == ListIn(inner, n, q)
           IN  Open(p, n, t, r, c + 1) /\ (Failed(r) \/ Peek(r) \in Terminators)
<1>1. CASE Failed(q)
  <2>1. ListIn(inner, n, q) = q
    BY <1>1 DEF ListIn
  <2>2. Open(p, n, t, q, c + 1)
    BY <1>1, OpenFail
  <2>. QED
    BY <1>1, <2>1, <2>2
<1>2. CASE ~Failed(q)
  <2>. DEFINE o == Pop(q)
              l == inner.list[o]
              r == Child(n, l)
  <2>1. ListIn(inner, n, q) = r
    BY <1>2 DEF ListIn
  <2>2. Ready(q) /\ q \in State /\ q.at \in Nat
    BY OpenFields
  <2>3. /\ o \in State /\ o.at = q.at + 1 /\ o.heap = q.heap
        /\ o.nodes = q.nodes /\ o.funcs = q.funcs
    BY <2>2, PopFields
  <2>. HIDE DEF o
  <2>4. o.at <= Turns /\ o.at >= q.at
    BY <1>2, <2>2, <2>3
  <2>5. Ready(o)
    BY <2>2, <2>3, <2>4, StepOn
  <2>6. After(Len(o.heap), o, l) /\ (Failed(l) \/ Peek(l) \in Terminators)
    BY <2>5 DEF Right
  <2>. HIDE DEF l
  <2>7. After(Len(q.heap), q, l)
    BY <2>2, <2>3, <2>4, <2>6, AfterStep
  <2>8. l.at >= q.at
    BY <2>7 DEF After
  <2>9. Open(p, n, t, r, c + 1) /\ r.at = l.at /\ (Failed(r) <=> Failed(l))
    BY <1>2, <2>7, <2>8, OpenChild
  <2>10. Failed(r) \/ Peek(r) \in Terminators
    BY <2>6, <2>9 DEF Peek
  <2>. QED
    BY <2>1, <2>9, <2>10
<1>. QED
  BY <1>1, <1>2

LEMMA OpenAllocated ==
    ASSUME NEW p, Ready(p), NEW t \in NodeType
    PROVE  LET r == Keep(New(p, t, << >>, << >>))
           IN  /\ Open(p, r.res, t, r, 0) /\ r.res = Len(p.heap) + 1 /\ r.at = p.at
               /\ ~Failed(r)
<1>. DEFINE none == << >>
            q == New(p, t, none, none)
            node == Made(t, none, none)
            r == Keep(q)
<1>1. /\ p \in State /\ Fine(p) /\ Entered(p) /\ p.heap \in Seq(Node) /\ Len(p.heap) \in Nat
      /\ p.at \in Nat
  BY FineFields DEF Ready
<1>2. none \in Seq(Nat) /\ DOMAIN none = {} /\ Len(none) = 0 /\ Given(Len(p.heap), p.heap, none)
  BY DEF Given
<1>. HIDE DEF none
<1>3. Grown(Len(p.heap), p.heap, p.heap)
  BY <1>1, GrownSelf
<1>4. /\ Fine(q) /\ q.at = p.at /\ q.res = Len(p.heap) + 1 /\ q.res \in DOMAIN q.heap
      /\ Root(q.heap, q.res) /\ q.heap[q.res] = node /\ Grown(Len(p.heap), p.heap, q.heap)
      /\ Entered(p) => Owed(q)
  <2>1. Fine(p) /\ none \in Seq(Nat) /\ p.heap \in Seq(Node) /\ Given(Len(p.heap), p.heap, none)
    BY <1>1, <1>2
  <2>. QED
    BY <1>3, <2>1, Allocated
<1>5. node.type = t /\ node.kids = none
  BY DEF Made
<1>. HIDE DEF q, node
<1>6. Ready(r) /\ r.at = q.at /\ r.res = q.res /\ r.heap = q.heap
  BY <1>1, <1>4, KeepReady
<1>. HIDE DEF r
<1>7. r.res \in Nat /\ r.res - 1 = Len(p.heap) /\ r.res # Null /\ r.at >= p.at
  BY <1>1, <1>4, <1>6 DEF Null
<1>8. Open(p, r.res, t, r, 0)
  BY <1>2, <1>4, <1>5, <1>6, <1>7 DEF Open
<1>. QED
  BY <1>4, <1>6, <1>7, <1>8 DEF r, q, none, Failed

LEMMA FreshIf ==
    ASSUME NEW p, Ready(p), p.at + 1 <= Turns
    PROVE  LET f == Keep(New(p, "if", << >>, << >>))
           IN  Fresh(f) /\ \A r : Ran(f.res - 1, f, r) => Ran(Len(p.heap), p, r)
<1>. DEFINE f == Keep(New(p, "if", << >>, << >>))
            b == Len(p.heap)
            type == "if"
<1>1. type \in NodeType
  BY DEF NodeType
<1>2. f = Keep(New(p, type, << >>, << >>))
  OBVIOUS
<1>. HIDE DEF type, f
<1>3. Open(p, f.res, type, f, 0) /\ f.res = b + 1 /\ f.at = p.at /\ ~Failed(f)
  BY <1>1, <1>2, OpenAllocated
<1>4. p \in State /\ p.at \in Nat /\ b \in Nat
  BY FineFields DEF Ready
<1>5. /\ Fine(f) /\ f.at >= p.at /\ f.heap \in Seq(Node) /\ f.res - 1 <= Len(f.heap)
      /\ f.res - 1 \in Nat /\ Grown(f.res - 1, p.heap, f.heap)
  BY <1>3, <1>4, OpenFields
<1>6. f.res - 1 = b
  BY <1>3, <1>4
<1>7. Grown(b, p.heap, f.heap)
  BY <1>5, <1>6
<1>8. Grown(b, f.heap, f.heap)
  BY <1>7 DEF Grown, Same
<1>9. Open(f, f.res, type, f, 0)
  <2>1. f.at >= f.at
    BY <1>3, <1>4
  <2>2. Grown(f.res - 1, f.heap, f.heap)
    BY <1>6, <1>8
  <2>. QED
    BY <1>3, <2>1, <2>2 DEF Open
<1>10. Fresh(f)
  BY <1>3, <1>9 DEF Fresh, type
<1>11. ASSUME NEW r, Ran(f.res - 1, f, r) PROVE Ran(b, p, r)
  <2>1. After(b, f, r) /\ Entered(r)
    BY <1>6, <1>11 DEF Ran
  <2>2. b <= b
    BY <1>4
  <2>. HIDE DEF b
  <2>3. After(b, p, r)
    BY <1>4, <1>5, <1>7, <2>1, <2>2, AfterThat
  <2>. QED
    BY <2>1, <2>3 DEF Ran
<1>. QED
  BY <1>10, <1>11 DEF f

LEMMA FailReady ==
    ASSUME NEW p, Ready(p)
    PROVE  Ran(Len(p.heap), p, Fail(p))
<1>. DEFINE r == Fail(p)
<1>1. p \in State /\ p.at \in Nat /\ p.at <= Turns
  BY FineFields DEF Ready
<1>2. /\ r \in State /\ r.at = p.at /\ r.res = Null /\ r.heap = p.heap
      /\ r.nodes = p.nodes /\ r.funcs = p.funcs
  BY <1>1, FailFields
<1>. HIDE DEF r
<1>3. Ready(r)
  BY <1>1, <1>2, StepOn
<1>4. Ran(Len(r.heap), r, r)
  BY <1>2, <1>3, ReadySelf DEF Failed
<1>5. r.at >= p.at
  BY <1>1, <1>2
<1>6. After(Len(p.heap), r, r) /\ Entered(r)
  BY <1>2, <1>4 DEF Ran
<1>7. After(Len(p.heap), p, r)
  BY <1>1, <1>2, <1>5, <1>6, AfterStep
<1>. QED
  BY <1>6, <1>7 DEF Ran, r

LEMMA AllChildren ==
    ASSUME NEW node \in Node, NEW c \in Nat, Len(node.kids) = c,
           \A k \in DOMAIN node.kids : node.kids[k] # Null,
           c >= 2 \/ (c >= 1 /\ node.type = "block")
    PROVE  HasChildren(node)
<1>1. node.kids \in Seq(Nat)
  BY DEF Node
<1>2. DOMAIN node.kids = 1 .. c
  BY <1>1
<1>3. Needed(node) \subseteq {1, 2} /\ (node.type = "block" => Needed(node) = {1})
  BY DEF Needed
<1>4. Needed(node) \subseteq 1 .. c
  BY <1>3
<1>. QED
  BY <1>2, <1>4 DEF HasChildren

LEMMA OpenResult ==
    ASSUME NEW p \in State, NEW n, NEW t, NEW q, NEW c \in Nat, Open(p, n, t, q, c),
           c >= 2 \/ (c >= 1 /\ t = "block")
    PROVE  Ran(n - 1, p, Result(n, q))
<1>. DEFINE r == Result(n, q)
            b == n - 1
<1>1. /\ Ready(q) /\ Fine(q) /\ q \in State /\ q.at \in Nat /\ q.at >= p.at /\ n \in Nat
      /\ n \in DOMAIN q.heap /\ n # Null /\ q.heap[n] \in Node /\ q.at <= Turns
      /\ Grown(b, p.heap, q.heap) /\ Entered(q)
  BY OpenFields DEF Ready
<1>2. n > b
  BY <1>1
<1>. HIDE DEF b
<1>3. /\ r \in State /\ r.at = q.at /\ r.heap = q.heap /\ r.nodes = q.nodes /\ r.funcs = q.funcs
      /\ r.res = IF Failed(q) THEN Null ELSE n
  BY <1>1, ResultState
<1>. HIDE DEF r
<1>4. Fine(r) /\ Entered(r)
  BY <1>1, <1>3, Moved
<1>5. Owed(r) /\ r.at >= p.at /\ Grown(b, p.heap, r.heap)
  BY <1>1, <1>3, <1>4 DEF Owed, Entered
<1>6. CASE Failed(q)
  BY <1>3, <1>4, <1>5, <1>6 DEF Ran, After, Returns, r, b
<1>7. CASE ~Failed(q)
  <2>1. /\ Root(q.heap, n) /\ Len(q.heap[n].kids) = c
        /\ \A k \in DOMAIN q.heap[n].kids : q.heap[n].kids[k] # Null
        /\ q.heap[n].type = t
    BY <1>7 DEF Open
  <2>2. HasChildren(q.heap[n])
    BY <1>1, <2>1, AllChildren
  <2>3. Returns(b, r)
    BY <1>1, <1>2, <1>3, <1>7, <2>1, <2>2 DEF Returns
  <2>. QED
    BY <1>4, <1>5, <2>3 DEF Ran, After, r, b
<1>. QED
  BY <1>6, <1>7

LEMMA ElseOpen ==
    ASSUME tokens \in Seq(TokenType), NEW inner, Right(inner), NEW p \in State, NEW n, NEW t,
           NEW q, Open(p, n, t, q, 2), Failed(q) \/ Peek(q) \in Terminators
    PROVE  \E c \in {2, 3} : Open(p, n, t, parse_rule_else(inner, n, q), c)
<1>. DEFINE r == parse_rule_else(inner, n, q)
<1>1. Ready(q) /\ q \in State
  BY OpenFields
<1>2. CASE Failed(q)
  BY <1>2 DEF parse_rule_else
<1>3. CASE ~Failed(q)
  <2>1. q.at + 1 <= Turns
    BY <1>1, <1>3, TerminatorInText
  <2>2. CASE Peek(q) = "elif"
    <3>. DEFINE f == Keep(New(q, "if", << >>, << >>))
                l == inner.branches[f]
    <3>1. r = Child(n, l)
      BY <1>3, <2>2 DEF parse_rule_else
    <3>2. Fresh(f) /\ \A s : Ran(f.res - 1, f, s) => Ran(Len(q.heap), q, s)
      BY <1>1, <2>1, FreshIf
    <3>. HIDE DEF f
    <3>3. Ran(f.res - 1, f, l)
      BY <3>2 DEF Right
    <3>. HIDE DEF l
    <3>4. After(Len(q.heap), q, l) /\ l.at >= q.at
      BY <3>2, <3>3 DEF Ran, After
    <3>5. Open(p, n, t, Child(n, l), 2 + 1)
      BY <1>3, <3>4, OpenChild
    <3>. HIDE DEF r
    <3>6. 2 + 1 = 3
      OBVIOUS
    <3>. QED
      BY <3>1, <3>5, <3>6 DEF r
  <2>3. CASE Peek(q) = "else"
    <3>1. r = ListIn(inner, n, q)
      BY <1>3, <2>3 DEF parse_rule_else
    <3>2. Open(p, n, t, ListIn(inner, n, q), 2 + 1)
      BY <2>1, ListInOpen
    <3>. HIDE DEF r
    <3>3. 2 + 1 = 3
      OBVIOUS
    <3>. QED
      BY <3>1, <3>2, <3>3 DEF r
  <2>4. CASE Peek(q) \notin {"elif", "else"}
    BY <1>3, <2>4 DEF parse_rule_else
  <2>. QED
    BY <2>2, <2>3, <2>4
<1>. QED
  BY <1>2, <1>3

LEMMA BranchesRan ==
    ASSUME tokens \in Seq(TokenType), NEW inner, Right(inner), NEW p, Fresh(p)
    PROVE  Ran(p.res - 1, p, parse_branches(inner, p))
<1>. DEFINE n == p.res
            a == ListIn(inner, n, p)
            b == ListIn(inner, n, a)
            d == parse_rule_else(inner, n, b)
<1>1. p \in State
  BY DEF Fresh, Open, Ready, Fine
<1>2. Open(p, n, "if", p, 0) /\ p.at + 1 <= Turns
  BY DEF Fresh
<1>3. parse_branches(inner, p) = Result(n, d)
  BY DEF parse_branches
<1>. HIDE DEF n
<1>4. Open(p, n, "if", a, 0 + 1) /\ (Failed(a) \/ Peek(a) \in Terminators)
  BY <1>1, <1>2, ListInOpen
<1>. HIDE DEF a
<1>5. a \in State /\ (Failed(a) \/ a.at + 1 <= Turns)
  <2>1. a \in State
    BY <1>1, <1>4, OpenFields
  <2>. QED
    BY <1>4, <2>1, TerminatorInText
<1>6. Open(p, n, "if", b, (0 + 1) + 1) /\ (Failed(b) \/ Peek(b) \in Terminators)
  BY <1>1, <1>4, <1>5, ListInOpen
<1>. HIDE DEF b
<1>7. Open(p, n, "if", b, 2)
  <2>1. (0 + 1) + 1 = 2
    OBVIOUS
  <2>. QED
    BY <1>6, <2>1
<1>8. PICK c \in {2, 3} : Open(p, n, "if", d, c)
  BY <1>1, <1>6, <1>7, ElseOpen
<1>. HIDE DEF d
<1>9. c \in Nat /\ c >= 2
  OBVIOUS
<1>10. Ran(n - 1, p, Result(n, d))
  BY <1>1, <1>8, <1>9, OpenResult
<1>. QED
  BY <1>3, <1>10 DEF n

(* A token that is looked at before it is popped. *)
LEMMA PopLooked ==
    ASSUME tokens \in Seq(TokenType), NEW q, Ready(q), Peek(q) # "eof"
    PROVE  LET r == Pop(q)
           IN  /\ Ready(r) /\ r.at = q.at + 1 /\ r.at >= q.at /\ r.res = q.res
               /\ r.heap = q.heap /\ r.nodes = q.nodes /\ r.funcs = q.funcs /\ r \in State
<1>. DEFINE r == Pop(q)
<1>1. q \in State /\ q.at \in Nat
  BY FineFields DEF Ready
<1>2. q.at + 1 <= Turns
  BY <1>1, InText DEF Peek
<1>3. /\ r \in State /\ r.at = q.at + 1 /\ r.res = q.res /\ r.heap = q.heap
      /\ r.nodes = q.nodes /\ r.funcs = q.funcs
  BY <1>1, PopFields
<1>. HIDE DEF r
<1>4. Ready(r) /\ r.at >= q.at
  BY <1>1, <1>2, <1>3, StepOn
<1>. QED
  BY <1>3, <1>4 DEF r

LEMMA CloseRan ==
    ASSUME tokens \in Seq(TokenType), NEW b, NEW p \in State, NEW q, Ran(b, p, q),
           NEW type, type # "eof"
    PROVE  Ran(b, p, Close(type, q))
<1>1. CASE Peek(q) = type /\ ~Failed(q)
  <2>. DEFINE r == Pop(q)
  <2>1. Close(type, q) = r
    BY <1>1 DEF Close
  <2>2. Ready(q) /\ q \in State /\ q.at \in Nat /\ p.at \in Nat /\ q.at >= p.at
    BY FineFields, StateFields DEF Ran, After, Ready
  <2>3. /\ Ready(r) /\ r.at = q.at + 1 /\ r.res = q.res /\ r.heap = q.heap /\ r.nodes = q.nodes
        /\ r.funcs = q.funcs
    BY <1>1, <2>2, PopLooked
  <2>. HIDE DEF r
  <2>4. r.at >= p.at
    BY <2>2, <2>3
  <2>5. Owed(r) /\ Grown(b, p.heap, r.heap) /\ Returns(b, r)
    BY <2>3 DEF Ran, After, Owed, Returns
  <2>. QED
    BY <2>1, <2>3, <2>4, <2>5 DEF Ran, After, Ready
<1>2. CASE ~(Peek(q) = type /\ ~Failed(q))
  <2>1. Close(type, q) = Fail(q)
    BY <1>2 DEF Close
  <2>. QED
    BY <2>1, FailRan
<1>. QED
  BY <1>1, <1>2

LEMMA CloseOpen ==
    ASSUME tokens \in Seq(TokenType), NEW p \in State, NEW n, NEW t, NEW q, NEW c,
           Open(p, n, t, q, c), NEW type, type # "eof"
    PROVE  Open(p, n, t, Close(type, q), c)
<1>1. CASE Peek(q) = type /\ ~Failed(q)
  <2>. DEFINE r == Pop(q)
  <2>1. Close(type, q) = r
    BY <1>1 DEF Close
  <2>2. Ready(q) /\ q.at \in Nat /\ p.at \in Nat /\ q.at >= p.at
    BY OpenFields
  <2>3. /\ Ready(r) /\ r.at = q.at + 1 /\ r.res = q.res /\ r.heap = q.heap
    BY <1>1, <2>2, PopLooked
  <2>. HIDE DEF r
  <2>4. r.at >= p.at
    BY <2>2, <2>3
  <2>5. Open(p, n, t, r, c)
    BY <2>3, <2>4 DEF Open, Failed
  <2>. QED
    BY <2>1, <2>5
<1>2. CASE ~(Peek(q) = type /\ ~Failed(q))
  <2>1. Close(type, q) = Fail(q)
    BY <1>2 DEF Close
  <2>. QED
    BY <2>1, OpenFail
<1>. QED
  BY <1>1, <1>2

LEMMA ShellRan ==
    ASSUME tokens \in Seq(TokenType), NEW inner, Right(inner), NEW p, Ready(p)
    PROVE  Ran(Len(p.heap), p, parse_shell_command(inner, p))
<1>1. p \in State /\ p.at \in Nat /\ Len(p.heap) \in Nat
  BY FineFields DEF Ready
<1>2. Peek(p) # "eof" => p.at + 1 <= Turns
  BY <1>1, InText DEF Peek
<1>3. CASE Peek(p) = "if"
  <2>. DEFINE f == Keep(New(p, "if", << >>, << >>))
              r == parse_branches(inner, f)
  <2>1. parse_shell_command(inner, p) = Close("fi", r)
    BY <1>3 DEF parse_shell_command, parse_rule_if
  <2>2. Fresh(f) /\ \A s : Ran(f.res - 1, f, s) => Ran(Len(p.heap), p, s)
    BY <1>2, <1>3, FreshIf
  <2>. HIDE DEF f
  <2>3. Ran(Len(p.heap), p, r)
    BY <2>2, BranchesRan
  <2>. HIDE DEF r
  <2>4. Ran(Len(p.heap), p, Close("fi", r))
    BY <1>1, <2>3, CloseRan
  <2>. QED
    BY <2>1, <2>4
<1>4. CASE Peek(p) \in {"while", "until"}
  <2>. DEFINE t == Peek(p)
              f == Keep(New(p, t, << >>, << >>))
              n == f.res
              a == ListIn(inner, n, f)
              b == parse_condition(inner, n, "do", a)
              d == Close("done", b)
  <2>1. parse_shell_command(inner, p) = Result(n, d)
    BY <1>4 DEF parse_shell_command, parse_rule_wu
  <2>2. t \in NodeType /\ t # "eof"
    BY <1>4 DEF NodeType
  <2>. HIDE DEF t
  <2>3. Open(p, n, t, f, 0) /\ n = Len(p.heap) + 1 /\ f.at = p.at
    BY <2>2, OpenAllocated
  <2>. HIDE DEF f, n
  <2>4. f.at + 1 <= Turns
    BY <1>2, <1>4, <2>3
  <2>5. Open(p, n, t, a, 0 + 1) /\ (Failed(a) \/ Peek(a) \in Terminators)
    BY <1>1, <2>3, <2>4, ListInOpen
  <2>. HIDE DEF a
  <2>6. Open(p, n, t, b, 2)
    <3>1. CASE Peek(a) = "do"
      <4>1. b = ListIn(inner, n, a)
        BY <3>1 DEF parse_condition
      <4>2. a \in State
        BY <1>1, <2>5, OpenFields
      <4>3. a.at + 1 <= Turns
        BY <3>1, <4>2, TerminatorInText DEF Terminators
      <4>4. Open(p, n, t, ListIn(inner, n, a), (0 + 1) + 1)
        BY <1>1, <2>5, <4>3, ListInOpen
      <4>5. (0 + 1) + 1 = 2
        OBVIOUS
      <4>. QED
        BY <4>1, <4>4, <4>5
    <3>2. CASE Peek(a) # "do"
      <4>1. b = Fail(a)
        BY <3>2 DEF parse_condition
      <4>. QED
        BY <1>1, <2>5, <4>1, OpenFail
    <3>. QED
      BY <3>1, <3>2
  <2>. HIDE DEF b
  <2>7. Open(p, n, t, d, 2)
    BY <1>1, <2>6, CloseOpen
  <2>. HIDE DEF d
  <2>8. Ran(n - 1, p, Result(n, d))
    BY <1>1, <2>7, OpenResult
  <2>9. n - 1 = Len(p.heap)
    BY <1>1, <2>3
  <2>. QED
    BY <2>1, <2>8, <2>9
<1>5. CASE Peek(p) \in {"{", "("}
  <2>. DEFINE t == "block"
              f == Keep(New(p, t, << >>, << >>))
              n == f.res
              a == ListIn(inner, n, f)
              type == IF Peek(f) = "{" THEN "}" ELSE ")"
              d == Close(type, a)
  <2>1. parse_shell_command(inner, p) = Result(n, d)
    BY <1>5 DEF parse_shell_command, parse_block_cmd
  <2>2. t \in NodeType /\ type # "eof"
    BY DEF NodeType
  <2>. HIDE DEF type
  <2>3. Open(p, n, t, f, 0) /\ n = Len(p.heap) + 1 /\ f.at = p.at
    <3>. HIDE DEF t
    <3>. QED
      BY <2>2, OpenAllocated
  <2>. HIDE DEF f, n
  <2>4. f.at + 1 <= Turns
    BY <1>2, <1>5, <2>3
  <2>5. Open(p, n, t, a, 0 + 1)
    BY <1>1, <2>3, <2>4, ListInOpen
  <2>. HIDE DEF a
  <2>6. Open(p, n, t, d, 0 + 1)
    BY <1>1, <2>2, <2>5, CloseOpen
  <2>. HIDE DEF d
  <2>7. 0 + 1 >= 1 /\ 0 + 1 \in Nat
    OBVIOUS
  <2>8. Ran(n - 1, p, Result(n, d))
    BY <1>1, <2>6, <2>7, OpenResult
  <2>9. n - 1 = Len(p.heap)
    BY <1>1, <2>3
  <2>. QED
    BY <2>1, <2>8, <2>9
<1>6. CASE Peek(p) \notin {"if", "while", "until", "{", "("}
  <2>1. parse_shell_command(inner, p) = Fail(p)
    BY <1>6 DEF parse_shell_command
  <2>. QED
    BY <2>1, FailReady
<1>. QED
  BY <1>3, <1>4, <1>5, <1>6

LEMMA AppendCases ==
    ASSUME NEW V, NEW s \in Seq(V), NEW e \in V, NEW k \in DOMAIN Append(s, e)
    PROVE  \/ k \in DOMAIN s /\ Append(s, e)[k] = s[k]
           \/ Append(s, e)[k] = e
OBVIOUS

Enter(name, p) == [p EXCEPT !.funcs = Append(@, [name |-> name, body |-> p.res])]

LEMMA EnterFine ==
    ASSUME NEW p, Ready(p), NEW name \in Nat, p.res \in DOMAIN p.heap, HasChildren(p.heap[p.res])
    PROVE  LET q == Enter(name, p)
           IN  Ready(q) /\ q.at = p.at /\ q.res = p.res /\ q.heap = p.heap
<1>. DEFINE q == Enter(name, p)
            entry == [name |-> name, body |-> p.res]
<1>1. /\ p \in State /\ Forest(p.heap) /\ Bodies(p.heap, p.funcs) /\ Once(p.nodes) /\ p.at <= Turns
      /\ p.funcs \in Seq([name : Nat, body : Nat]) /\ Entered(p) /\ p.res \in Nat
  BY FineFields DEF Ready
<1>2. /\ q \in State /\ q.at = p.at /\ q.heap = p.heap /\ q.nodes = p.nodes
      /\ q.res = p.res /\ q.funcs = Append(p.funcs, entry)
  BY <1>1, EnteredFields, Zenon DEF Enter
<1>. HIDE DEF q
<1>3. entry.body = p.res /\ entry \in [name : Nat, body : Nat]
  BY <1>1
<1>. HIDE DEF entry
<1>4. \A k \in DOMAIN Append(p.funcs, entry) :
        \/ k \in DOMAIN p.funcs /\ Append(p.funcs, entry)[k] = p.funcs[k]
        \/ Append(p.funcs, entry)[k] = entry
  BY <1>1, <1>3, AppendCases
<1>5. Bodies(q.heap, q.funcs)
  <2>. DEFINE f == Append(p.funcs, entry)
  <2>1. \A k \in DOMAIN f : (k \in DOMAIN p.funcs /\ f[k] = p.funcs[k]) \/ f[k] = entry
    BY <1>4
  <2>2. q.funcs = f
    BY <1>2
  <2>. HIDE DEF f
  <2>. QED
    BY <1>1, <1>2, <1>3, <2>1, <2>2 DEF Bodies
<1>6. Fine(q) /\ Entered(q)
  BY <1>1, <1>2, <1>5 DEF Fine, Entered
<1>. QED
  BY <1>2, <1>6 DEF Ready, q

LEMMA DefinedAfter ==
    ASSUME NEW b, NEW p \in State, NEW name \in Nat, NEW s, Ran(b, p, s)
    PROVE  After(b, p, Defined(name, s))
<1>1. CASE Failed(s)
  BY <1>1 DEF Defined, Ran
<1>2. CASE ~Failed(s)
  <2>. DEFINE none == << >>
              kids == <<s.res>>
              type == "function"
              k == Keep(s)
              e == Enter(name, k)
              q == New(e, type, none, kids)
  <2>1. /\ Fine(s) /\ Owed(s) /\ s.res \in Nat /\ s.res # Null /\ s.at >= p.at
        /\ s.res \in DOMAIN s.heap /\ s.res > b /\ Root(s.heap, s.res)
        /\ HasChildren(s.heap[s.res]) /\ Grown(b, p.heap, s.heap) /\ s \in State
    BY <1>2, FineFields DEF Ran, After, Returns, Failed
  <2>2. Ready(k) /\ k.at = s.at /\ k.res = s.res /\ k.heap = s.heap
    BY <2>1, KeepReady
  <2>3. Defined(name, s) = q
    <3>1. Defined(name, s)
            = New([Keep(s) EXCEPT !.funcs = Append(@, [name |-> name, body |-> s.res])],
                  type, none, kids)
      BY <1>2, Zenon DEF Defined
    <3>2. [Keep(s) EXCEPT !.funcs = Append(@, [name |-> name, body |-> s.res])] = e
      BY <2>2, Zenon DEF Enter
    <3>. QED
      BY <3>1, <3>2, Zenon
  <2>. HIDE DEF k
  <2>4. Ready(e) /\ e.at = k.at /\ e.res = k.res /\ e.heap = k.heap
    BY <2>1, <2>2, EnterFine
  <2>. HIDE DEF e
  <2>5. none \in Seq(Nat) /\ kids \in Seq(Nat) /\ 1 \in DOMAIN kids /\ kids[1] = s.res
    BY <2>1
  <2>6. Given(b, e.heap, kids)
    BY <2>1, <2>2, <2>4, GivenOne
  <2>7. type \in NodeType /\ type \in {"function", "block", ";", "!"}
    BY DEF NodeType
  <2>. HIDE DEF none, kids, type
  <2>8. HasChildren(Made(type, none, kids))
    BY <2>1, <2>5, <2>7, OneChild
  <2>9. Fine(e) /\ Entered(e) /\ Grown(b, p.heap, e.heap) /\ p.heap \in Seq(Node)
    BY <2>1, <2>2, <2>4, StateFields DEF Ready
  <2>10. /\ Fine(q) /\ q.at = e.at /\ q.res \in DOMAIN q.heap /\ q.res > b /\ Root(q.heap, q.res)
         /\ q.heap[q.res] = Made(type, none, kids) /\ Grown(b, p.heap, q.heap)
         /\ Entered(e) => Owed(q)
    BY <2>5, <2>6, <2>7, <2>9, Allocated
  <2>. HIDE DEF q
  <2>11. After(b, p, q)
    BY <2>1, <2>2, <2>4, <2>8, <2>9, <2>10 DEF After, Returns
  <2>. QED
    BY <2>3, <2>11
<1>. QED
  BY <1>1, <1>2

LEMMA ToReady ==
    ASSUME NEW p, Ready(p), NEW k \in Nat, k >= p.at, k <= Turns
    PROVE  LET q == To(p, k)
           IN  /\ Ready(q) /\ q \in State /\ q.at = k /\ q.heap = p.heap /\ q.res = p.res
<1>. DEFINE q == To(p, k)
<1>1. p \in State /\ p.at \in Nat /\ p.at >= 1
  BY FineFields DEF Ready
<1>2. k \in Nat \ {0}
  BY <1>1
<1>3. /\ q \in State /\ q.at = k /\ q.heap = p.heap /\ q.res = p.res /\ q.nodes = p.nodes
      /\ q.funcs = p.funcs
  BY <1>1, <1>2, ToFields
<1>. HIDE DEF q
<1>4. Ready(q)
  BY <1>3, StepOn
<1>. QED
  BY <1>3, <1>4 DEF q

LEMMA SkipReady ==
    ASSUME tokens \in Seq(TokenType), NEW p, Ready(p)
    PROVE  LET q == SkipNewlines(p)
           IN  Ready(q) /\ q \in State /\ q.at >= p.at /\ q.heap = p.heap /\ q.res = p.res
<1>. DEFINE q == SkipNewlines(p)
<1>1. p \in State /\ p.at <= Turns
  BY FineFields DEF Ready
<1>2. /\ q \in State /\ q.at >= p.at /\ q.heap = p.heap /\ q.res = p.res /\ q.nodes = p.nodes
      /\ q.funcs = p.funcs /\ q.at <= Turns
  BY <1>1, SkipFields
<1>. HIDE DEF q
<1>3. Ready(q)
  BY <1>2, StepOn
<1>. QED
  BY <1>2, <1>3 DEF q

(* A rule called further on in the text. *)
LEMMA RanStep ==
    ASSUME NEW p, NEW q, NEW r, p \in State, q \in State, q.heap = p.heap, q.at >= p.at
    PROVE  /\ After(Len(q.heap), q, r) => After(Len(p.heap), p, r)
           /\ Ran(Len(q.heap), q, r) => Ran(Len(p.heap), p, r)
<1>1. After(Len(q.heap), q, r) => After(Len(p.heap), p, r)
  <2>. SUFFICES ASSUME After(Len(q.heap), q, r) PROVE After(Len(p.heap), p, r)
    OBVIOUS
  <2>1. After(Len(p.heap), q, r)
    OBVIOUS
  <2>. QED
    BY <2>1, AfterStep
<1>. QED
  BY <1>1 DEF Ran

LEMMA FuncAfter ==
    ASSUME tokens \in Seq(TokenType), NEW inner, Right(inner), NEW p, Ready(p),
           PeekTwo(p) = "("
    PROVE  After(Len(p.heap), p, parse_func(inner, p))
<1>1. p \in State /\ p.at \in Nat /\ p.at >= 1 /\ p.at + 2 \in Nat /\ p.at + 3 \in Nat
      /\ (p.at + 1) + 1 = p.at + 2 /\ (p.at + 2) + 1 = p.at + 3 /\ Turns \in Nat
  BY FineFields DEF Ready, Turns
<1>2. p.at + 2 <= Turns
  <2>1. (p.at + 1) + 1 <= Turns
    BY <1>1, InText DEF PeekTwo
  <2>. QED
    BY <1>1, <2>1
<1>3. CASE At(p.at + 2) # ")"
  <2>. DEFINE q == To(p, p.at + 2)
  <2>1. parse_func(inner, p) = Fail(q)
    BY <1>3 DEF parse_func
  <2>2. p.at + 2 >= p.at
    BY <1>1
  <2>3. Ready(q) /\ q \in State /\ q.at = p.at + 2 /\ q.heap = p.heap
    BY <1>1, <1>2, <2>2, ToReady
  <2>. HIDE DEF q
  <2>4. q.at >= p.at
    BY <2>2, <2>3
  <2>5. Ran(Len(q.heap), q, Fail(q))
    BY <2>3, FailReady
  <2>6. Ran(Len(p.heap), p, Fail(q))
    BY <1>1, <2>3, <2>4, <2>5, RanStep
  <2>. QED
    BY <2>1, <2>6 DEF Ran
<1>4. CASE At(p.at + 2) = ")"
  <2>. DEFINE t == To(p, p.at + 3)
              q == SkipNewlines(t)
              s == parse_shell_command(inner, q)
  <2>1. parse_func(inner, p) = Defined(p.at, s)
    BY <1>4 DEF parse_func
  <2>2. p.at + 3 <= Turns /\ p.at + 3 >= p.at
    <3>1. (p.at + 2) + 1 <= Turns
      BY <1>1, <1>4, InText
    <3>. QED
      BY <1>1, <3>1
  <2>3. Ready(t) /\ t \in State /\ t.at = p.at + 3 /\ t.heap = p.heap
    BY <1>1, <2>2, ToReady
  <2>. HIDE DEF t
  <2>4. Ready(q) /\ q \in State /\ q.at >= t.at /\ q.heap = t.heap /\ q.at \in Nat
    BY <2>3, SkipReady, StateFields
  <2>. HIDE DEF q
  <2>5. q.at >= p.at /\ q.heap = p.heap
    BY <1>1, <2>2, <2>3, <2>4
  <2>6. Ran(Len(q.heap), q, s)
    BY <2>4, ShellRan
  <2>. HIDE DEF s
  <2>7. Ran(Len(p.heap), p, s)
    BY <1>1, <2>4, <2>5, <2>6, RanStep
  <2>8. After(Len(p.heap), p, Defined(p.at, s))
    BY <1>1, <2>7, DefinedAfter
  <2>. QED
    BY <2>1, <2>8
<1>. QED
  BY <1>3, <1>4

LEMMA CommandAfter ==
    ASSUME tokens \in Seq(TokenType), NEW inner, Right(inner), NEW p, Ready(p)
    PROVE  After(Len(p.heap), p, parse_command(inner, p))
<1>1. p \in State
  BY FineFields DEF Ready
<1>2. CASE Peek(p) \in Openers
  <2>. DEFINE s == parse_shell_command(inner, p)
  <2>1. parse_command(inner, p) = AfterFailure(s)
    BY <1>2 DEF parse_command
  <2>2. Ran(Len(p.heap), p, s)
    BY ShellRan
  <2>. HIDE DEF s
  <2>3. Ran(Len(p.heap), p, handle_prefix(s))
    BY <1>1, <2>2, PrefixRan
  <2>4. Ran(Len(p.heap), p, AfterFailure(s))
    BY <2>2, <2>3 DEF AfterFailure
  <2>. QED
    BY <2>1, <2>4 DEF Ran
<1>3. CASE Peek(p) \notin Openers /\ Peek(p) # "word"
  <2>1. parse_command(inner, p) = handle_prefix(Fail(p))
    BY <1>3 DEF parse_command
  <2>2. Ran(Len(p.heap), p, handle_prefix(Fail(p)))
    BY <1>1, FailReady, PrefixRan
  <2>. QED
    BY <2>1, <2>2 DEF Ran
<1>4. CASE Peek(p) \notin Openers /\ Peek(p) = "word" /\ PeekTwo(p) = "("
  <2>1. parse_command(inner, p) = handle_prefix(Keep(parse_func(inner, p)))
    BY <1>4 DEF parse_command
  <2>2. Ran(Len(p.heap), p, Keep(parse_func(inner, p)))
    BY <1>4, FuncAfter, KeepRan
  <2>3. Ran(Len(p.heap), p, handle_prefix(Keep(parse_func(inner, p))))
    BY <1>1, <2>2, PrefixRan
  <2>. QED
    BY <2>1, <2>3 DEF Ran
<1>5. CASE Peek(p) \notin Openers /\ Peek(p) = "word" /\ PeekTwo(p) # "("
  <2>1. parse_command(inner, p) = handle_prefix(add_simple_commande(p))
    BY <1>5 DEF parse_command
  <2>. QED
    BY <2>1, SimpleAfter
<1>. QED
  BY <1>2, <1>3, <1>4, <1>5

-----------------------------------------------------------------------------
(* Pipelines and lists. *)
LEMMA RanFields ==
    ASSUME NEW b, NEW p, NEW q, Ran(b, p, q)
    PROVE  /\ Ready(q) /\ Fine(q) /\ Entered(q) /\ q \in State /\ q.at \in Nat /\ q.at <= Turns
           /\ q.at >= p.at /\ q.heap \in Seq(Node) /\ Len(q.heap) \in Nat /\ q.res \in Nat
           /\ Grown(b, p.heap, q.heap) /\ b \in Nat /\ b <= Len(q.heap)
BY FineFields DEF Ran, After, Ready, Grown

LEMMA RanMoved ==
    ASSUME NEW b, NEW p \in State, NEW q, Ran(b, p, q), NEW r, Ready(r), r.heap = q.heap,
           r.res = q.res, r.at >= q.at
    PROVE  Ran(b, p, r)
<1>1. Fine(r) /\ Entered(r) /\ r.at \in Nat /\ q.at \in Nat /\ p.at \in Nat /\ q.at >= p.at
  BY RanFields, FineFields, StateFields DEF Ready
<1>2. Owed(r) /\ Returns(b, r) /\ Grown(b, p.heap, r.heap)
  <2>1. Owed(q) /\ Entered(q)
    BY DEF Ran, After
  <2>. QED
    BY <1>1, <2>1 DEF Ran, After, Returns, Owed, Entered
<1>3. r.at >= p.at
  BY <1>1
<1>. QED
  BY <1>1, <1>2, <1>3 DEF Ran, After

LEMMA RanSelf ==
    ASSUME NEW b, NEW p, NEW q, Ran(b, p, q)
    PROVE  Ran(b, q, q)
<1>1. q.at \in Nat /\ q.at >= q.at
  BY RanFields
<1>2. Grown(b, q.heap, q.heap)
  BY RanFields DEF Grown, Same
<1>. QED
  BY <1>1, <1>2 DEF Ran, After

LEMMA NegatedRan ==
    ASSUME NEW b, NEW p \in State, NEW q, Ran(b, p, q)
    PROVE  Ran(b, p, Negated(q))
<1>1. CASE Failed(q)
  BY <1>1 DEF Negated
<1>2. CASE ~Failed(q)
  <2>. DEFINE type == "!"
              kids == <<q.res, Null>>
  <2>1. /\ Ready(q) /\ q.at >= p.at /\ p.heap \in Seq(Node) /\ Grown(b, p.heap, q.heap)
        /\ q.res \in Nat /\ q.res # Null
    BY <1>2, RanFields, StateFields DEF Failed
  <2>2. type \in NodeType /\ type \in {"function", "block", ";", "!"}
    BY DEF NodeType
  <2>3. kids \in Seq(Nat) /\ 1 \in DOMAIN kids /\ kids[1] = q.res
    BY <2>1 DEF Null
  <2>4. Given(b, q.heap, kids)
    BY <2>1, GivenOne DEF Ran, After, Returns
  <2>5. Negated(q) = Operator(q, type, kids)
    BY <1>2 DEF Negated
  <2>. HIDE DEF type, kids
  <2>6. HasChildren(Made(type, << >>, kids))
    BY <2>1, <2>2, <2>3, OneChild
  <2>7. Ran(b, p, Operator(q, type, kids))
    BY <2>1, <2>2, <2>3, <2>4, <2>6, OperatorRan
  <2>. QED
    BY <2>5, <2>7
<1>. QED
  BY <1>1, <1>2

LEMMA PipesRan ==
    ASSUME tokens \in Seq(TokenType), NEW inner, Right(inner), NEW b, NEW p0 \in State,
           NEW p, Ran(b, p0, p)
    PROVE  Ran(b, p0, Pipes(inner, p))
<1>. DEFINE S == {q \in State : Ran(b, p0, q)}
            turn == PipesTurn(inner)
<1>1. inner \in Inners
  BY DEF Right
<1>2. turn \in [State -> State] /\ Pipes(inner, p) = Repeat(turn, p)
  BY <1>1, PipesTurns
<1>3. ASSUME NEW q \in S, ~Failed(q), Peek(q) = "|"
      PROVE  Ran(b, p0, Join(q, "|", Kept(parse_command(inner, SkipNewlines(Pop(q))))))
  <2>. DEFINE type == "|"
              o == Pop(q)
              n == SkipNewlines(o)
              c == parse_command(inner, n)
              r == Kept(c)
  <2>1. type \in NodeType /\ type # "eof"
    BY DEF NodeType
  <2>. HIDE DEF type
  <2>2. Ran(b, p0, q) /\ Ready(q) /\ q \in State /\ q.at \in Nat
    BY RanFields
  <2>3. Peek(q) # "eof"
    BY <1>3, <2>1 DEF type
  <2>4. Ready(o) /\ o.at >= q.at /\ o.heap = q.heap /\ o \in State /\ o.at \in Nat
    BY <2>2, <2>3, PopLooked, StateFields
  <2>. HIDE DEF o
  <2>5. Ready(n) /\ n \in State /\ n.at >= o.at /\ n.heap = o.heap /\ n.at \in Nat
    BY <2>4, SkipReady, StateFields
  <2>. HIDE DEF n
  <2>6. After(Len(n.heap), n, c)
    BY <2>5, CommandAfter
  <2>. HIDE DEF c
  <2>7. Ran(Len(n.heap), n, r)
    BY <2>6, KeptRan
  <2>. HIDE DEF r
  <2>8. n.heap = q.heap /\ n.at >= q.at
    BY <2>2, <2>4, <2>5
  <2>9. Ran(Len(q.heap), q, r)
    BY <2>2, <2>5, <2>7, <2>8, RanStep
  <2>10. Ran(b, p0, Join(q, type, r))
    BY <1>3, <2>1, <2>2, <2>9, JoinRan
  <2>. QED
    BY <2>10 DEF type, o, n, c, r
<1>4. ASSUME NEW q \in S PROVE turn[q] \in S
  <2>1. turn[q] \in State
    BY <1>2
  <2>2. CASE Failed(q) \/ Peek(q) # "|"
    BY <2>2 DEF PipesTurn
  <2>3. CASE ~Failed(q) /\ Peek(q) = "|"
    <3>1. turn[q] = Join(q, "|", Kept(parse_command(inner, SkipNewlines(Pop(q)))))
      BY <2>3, Zenon DEF PipesTurn
    <3>. QED
      BY <1>3, <2>1, <2>3, <3>1
  <2>. QED
    BY <2>2, <2>3
<1>5. p \in S /\ S \in SUBSET State
  BY RanFields
<1>. HIDE DEF S, turn
<1>6. Repeat(turn, p) \in S
  BY <1>2, <1>4, <1>5, RepeatKeeps
<1>. QED
  BY <1>2, <1>6 DEF S

LEMMA PipelineRan ==
    ASSUME tokens \in Seq(TokenType), NEW inner, Right(inner), NEW p, Ready(p)
    PROVE  Ran(Len(p.heap), p, parse_pipeline(inner, p))
<1>. DEFINE neg == Peek(p) = "!"
            q == IF neg THEN Pop(p) ELSE p
            c == parse_command(inner, q)
            k == Kept(c)
            all == Pipes(inner, k)
<1>1. p \in State /\ p.at \in Nat /\ p.at >= p.at
  BY FineFields DEF Ready
<1>2. parse_pipeline(inner, p) = IF neg THEN Negated(all) ELSE all
  BY Zenon DEF parse_pipeline
<1>3. neg => Peek(p) # "eof"
  OBVIOUS
<1>. HIDE DEF neg
<1>4. Ready(q) /\ q \in State /\ q.at >= p.at /\ q.heap = p.heap
  BY <1>1, <1>3, PopLooked
<1>. HIDE DEF q
<1>5. After(Len(q.heap), q, c)
  BY <1>4, CommandAfter
<1>. HIDE DEF c
<1>6. Ran(Len(q.heap), q, k)
  BY <1>5, KeptRan
<1>. HIDE DEF k
<1>7. Ran(Len(p.heap), p, k)
  BY <1>1, <1>4, <1>6, RanStep
<1>8. Ran(Len(p.heap), p, all)
  BY <1>1, <1>7, PipesRan
<1>. HIDE DEF all
<1>9. Ran(Len(p.heap), p, Negated(all))
  BY <1>1, <1>8, NegatedRan
<1>. QED
  BY <1>2, <1>8, <1>9

LEMMA AndOrRan ==
    ASSUME tokens \in Seq(TokenType), NEW inner, Right(inner), NEW p, Ready(p)
    PROVE  Ran(Len(p.heap), p, parse_and_or(inner, p))
<1>. DEFINE b == Len(p.heap)
            S == {q \in State : Ran(b, p, q)}
            turn == ConditionsTurn(inner)
            first == parse_pipeline(inner, p)
            k == Kept(first)
<1>1. p \in State
  BY FineFields DEF Ready
<1>2. inner \in Inners
  BY DEF Right
<1>3. turn \in [State -> State] /\ parse_and_or(inner, p) = Repeat(turn, k)
  BY <1>2, ConditionsTurns DEF parse_and_or
<1>4. Ran(b, p, first)
  BY PipelineRan
<1>. HIDE DEF first
<1>5. Ran(b, p, k)
  BY <1>4, KeptRan DEF Ran
<1>. HIDE DEF b, k
<1>6. ASSUME NEW q \in S, ~Failed(q), Peek(q) \in {"&&", "||"}
      PROVE  Ran(b, p, Join(q, Peek(q), Kept(parse_pipeline(inner, Pop(q)))))
  <2>. DEFINE type == Peek(q)
              o == Pop(q)
              c == parse_pipeline(inner, o)
              r == Kept(c)
  <2>1. type \in NodeType /\ Peek(q) # "eof"
    BY <1>6 DEF NodeType
  <2>. HIDE DEF type
  <2>2. Ran(b, p, q) /\ Ready(q) /\ q \in State
    BY RanFields
  <2>3. Ready(o) /\ o.at >= q.at /\ o.heap = q.heap /\ o \in State
    BY <2>1, <2>2, PopLooked
  <2>. HIDE DEF o
  <2>4. Ran(Len(o.heap), o, c)
    BY <2>3, PipelineRan
  <2>. HIDE DEF c
  <2>5. Ran(Len(o.heap), o, r)
    BY <2>4, KeptRan DEF Ran
  <2>. HIDE DEF r
  <2>6. Ran(Len(q.heap), q, r)
    BY <2>2, <2>3, <2>5, RanStep
  <2>7. Ran(b, p, Join(q, type, r))
    BY <1>1, <1>6, <2>1, <2>2, <2>6, JoinRan
  <2>. QED
    BY <2>7 DEF type, o, c, r
<1>7. ASSUME NEW q \in S PROVE turn[q] \in S
  <2>1. turn[q] \in State
    BY <1>3
  <2>2. CASE Failed(q) \/ Peek(q) \notin {"&&", "||"}
    BY <2>2 DEF ConditionsTurn
  <2>3. CASE ~Failed(q) /\ Peek(q) \in {"&&", "||"}
    <3>1. turn[q] = Join(q, Peek(q), Kept(parse_pipeline(inner, Pop(q))))
      BY <2>3, Zenon DEF ConditionsTurn
    <3>. QED
      BY <1>6, <2>1, <2>3, <3>1
  <2>. QED
    BY <2>2, <2>3
<1>8. k \in S /\ S \in SUBSET State
  BY <1>5, RanFields
<1>. HIDE DEF S, turn
<1>9. Repeat(turn, k) \in S
  BY <1>3, <1>7, <1>8, RepeatKeeps
<1>. QED
  BY <1>3, <1>9 DEF S, b

(* A list behind a keyword may end in a node that is not entered yet, in front of the
   token that closes the command. *)
Ended(q) == Entered(q) \/ Peek(q) \in Terminators

LEMMA NextTermAfter ==
    ASSUME tokens \in Seq(TokenType), NEW inner, Right(inner), NEW b, NEW p, Ran(b, p, p),
           ~Failed(p)
    PROVE  After(b, p, NextTerm(inner, p)) /\ Ended(NextTerm(inner, p))
<1>1. /\ Ready(p) /\ Fine(p) /\ Entered(p) /\ p \in State /\ p.at \in Nat /\ p.at >= p.at
      /\ p.heap \in Seq(Node) /\ Grown(b, p.heap, p.heap) /\ p.res \in Nat
  BY RanFields
<1>. DEFINE type == ";"
            none == << >>
            kids == <<p.res, Null>>
<1>2. /\ type \in NodeType /\ type \in {"function", "block", ";", "!"} /\ none \in Seq(Nat)
      /\ kids \in Seq(Nat) /\ 1 \in DOMAIN kids /\ kids[1] = p.res /\ p.res # Null
  BY <1>1 DEF NodeType, Null, Failed
<1>3. Given(b, p.heap, kids)
  BY <1>1, <1>2, GivenOne DEF Ran, After, Returns
<1>4. NextTerm(inner, p) = IF Peek(p) \in Terminators THEN New(p, type, none, kids)
                           ELSE Join(p, type, Kept(parse_and_or(inner, p)))
  BY DEF NextTerm
<1>. HIDE DEF type, none, kids
<1>5. CASE Peek(p) \in Terminators
  <2>. DEFINE q == New(p, type, none, kids)
  <2>1. /\ Fine(q) /\ q.at = p.at /\ q.res \in DOMAIN q.heap /\ q.res > b /\ Root(q.heap, q.res)
        /\ q.heap[q.res] = Made(type, none, kids) /\ Grown(b, p.heap, q.heap)
        /\ Entered(p) => Owed(q)
    BY <1>1, <1>2, <1>3, Allocated
  <2>. HIDE DEF q
  <2>2. HasChildren(Made(type, none, kids))
    BY <1>2, OneChild
  <2>3. After(b, p, q)
    BY <1>1, <2>1, <2>2 DEF After, Returns
  <2>4. Peek(q) \in Terminators
    BY <1>5, <2>1 DEF Peek
  <2>. QED
    BY <1>4, <1>5, <2>3, <2>4 DEF Ended, q
<1>6. CASE Peek(p) \notin Terminators
  <2>. DEFINE c == parse_and_or(inner, p)
              r == Kept(c)
  <2>1. Ran(Len(p.heap), p, c)
    BY <1>1, AndOrRan
  <2>. HIDE DEF c
  <2>2. Ran(Len(p.heap), p, r)
    BY <2>1, KeptRan DEF Ran
  <2>. HIDE DEF r
  <2>3. Ran(b, p, Join(p, type, r))
    BY <1>1, <1>2, <2>2, JoinRan
  <2>4. NextTerm(inner, p) = Join(p, type, r)
    BY <1>4, <1>6 DEF r, c
  <2>. QED
    BY <2>3, <2>4 DEF Ran, Ended
<1>. QED
  BY <1>5, <1>6

LEMMA TermsAfter ==
    ASSUME tokens \in Seq(TokenType), NEW inner, Right(inner), NEW b, NEW p0 \in State,
           NEW p, Ran(b, p0, p)
    PROVE  LET r == Terms(inner, p)
           IN  After(b, p0, r) /\ (Failed(r) \/ Peek(r) \in Terminators)
<1>. DEFINE S == {q \in State : After(b, p0, q) /\ Ended(q)}
            turn == TermsTurn(inner)
            Last(q) == Failed(q) \/ Peek(q) \in Terminators
            More(q) == Peek(q) \in {";", "nl"}
<1>1. inner \in Inners
  BY DEF Right
<1>2. turn \in [State -> State] /\ Terms(inner, p) = Repeat(turn, p)
  BY <1>1, TermsTurns
<1>3. \A q \in State : turn[q] = IF Last(q) THEN q
                                 ELSE IF More(q) THEN NextTerm(inner, SkipNewlines(Pop(q)))
                                 ELSE Fail(q)
  BY Zenon DEF TermsTurn
<1>. HIDE DEF turn
<1>4. \A q \in State : Failed(Fail(q)) /\ turn[q] \in State
  BY <1>2, FailFields DEF Failed
<1>5. ASSUME NEW q \in S, ~Last(q), More(q)
      PROVE  turn[q] \in S /\ turn[q].at > q.at
  <2>. DEFINE o == Pop(q)
              n == SkipNewlines(o)
              r == NextTerm(inner, n)
  <2>1. turn[q] = r /\ r \in State
    BY <1>3, <1>4, <1>5
  <2>2. Ran(b, p0, q)
    BY <1>5 DEF Ran, Ended
  <2>3. Ready(q) /\ q \in State /\ q.at \in Nat
    BY <2>2, RanFields
  <2>4. Peek(q) # "eof"
    BY <1>5
  <2>5. Ready(o) /\ o.at = q.at + 1 /\ o.heap = q.heap /\ o.res = q.res /\ o \in State
    BY <2>3, <2>4, PopLooked
  <2>. HIDE DEF o
  <2>6. Ready(n) /\ n \in State /\ n.at >= o.at /\ n.heap = o.heap /\ n.res = o.res /\ n.at \in Nat
    BY <2>5, SkipReady, StateFields
  <2>. HIDE DEF n
  <2>7. n.at > q.at /\ n.at >= q.at /\ n.heap = q.heap /\ n.res = q.res
    BY <2>3, <2>5, <2>6
  <2>8. Ran(b, p0, n)
    BY <2>2, <2>6, <2>7, RanMoved
  <2>9. Ran(b, n, n) /\ ~Failed(n)
    BY <1>5, <2>7, <2>8, RanSelf DEF Failed
  <2>10. After(b, n, r) /\ Ended(r)
    BY <2>9, NextTermAfter
  <2>. HIDE DEF r
  <2>11. Fine(n) /\ n.at >= p0.at /\ Grown(b, p0.heap, n.heap) /\ b <= b
    BY <2>8, RanFields
  <2>12. After(b, p0, r)
    BY <2>10, <2>11, AfterThat
  <2>13. r.at > q.at
    <3>1. r.at >= n.at /\ r.at \in Nat
      BY <2>10, FineFields DEF After
    <3>. QED
      BY <2>3, <2>6, <2>7, <3>1
  <2>. QED
    BY <2>1, <2>10, <2>12, <2>13
<1>6. ASSUME NEW q \in S, ~Last(q), ~More(q)
      PROVE  turn[q] \in S /\ turn[q] = Fail(q)
  <2>1. turn[q] = Fail(q) /\ turn[q] \in State
    BY <1>3, <1>4, <1>6
  <2>2. Ran(b, p0, q)
    BY <1>6 DEF Ran, Ended
  <2>3. Ran(b, p0, Fail(q))
    BY <2>2, FailRan
  <2>. QED
    BY <2>1, <2>3 DEF Ran, Ended
<1>7. \A q \in S : turn[q] \in S
  BY <1>3, <1>5, <1>6
<1>8. \A q \in S : turn[q].at > q.at \/ turn[turn[q]] = turn[q]
  <2>1. ASSUME NEW q \in S, Last(q) PROVE turn[q] = q
    BY <1>3, <2>1
  <2>2. ASSUME NEW q \in S, ~Last(q), ~More(q) PROVE turn[turn[q]] = turn[q]
    <3>1. turn[q] \in S /\ Failed(turn[q])
      BY <1>4, <1>6, <2>2
    <3>2. Last(turn[q])
      BY <3>1
    <3>. QED
      BY <2>1, <3>1, <3>2
  <2>. HIDE DEF Last, More, S
  <2>. QED
    BY <1>5, <2>1, <2>2
<1>9. p \in S /\ S \in SUBSET State /\ \A q \in S : q.at <= Turns /\ q.at \in Nat /\ ~(q.at > q.at)
  BY RanFields, FineFields DEF Ran, After, Ended
<1>. DEFINE end == Repeat(turn, p)
<1>10. \A q \in S : (Last(q) \/ More(q)) /\ turn[q] = q => Last(q)
  BY <1>5, <1>9
<1>11. \A q \in S : Failed(q) => Last(q)
  OBVIOUS
<1>. HIDE DEF S, Last, More
<1>12. end \in S
  BY <1>2, <1>7, <1>9, RepeatKeeps
<1>13. turn[end] = end
  BY <1>2, <1>7, <1>8, <1>9, RepeatStops
<1>. HIDE DEF end
<1>14. Last(end)
  BY <1>4, <1>6, <1>9, <1>10, <1>11, <1>12, <1>13
<1>15. Terms(inner, p) = end
  BY <1>2 DEF end
<1>. QED
  BY <1>12, <1>14, <1>15 DEF S, Last

LEMMA CompoundAfter ==
    ASSUME tokens \in Seq(TokenType), NEW inner, Right(inner), NEW p, Ready(p)
    PROVE  LET r == parse_compound_list(inner, p)
           IN  After(Len(p.heap), p, r) /\ (Failed(r) \/ Peek(r) \in Terminators)
<1>. DEFINE n == SkipNewlines(p)
            c == parse_and_or(inner, n)
            k == Kept(c)
<1>1. p \in State
  BY FineFields DEF Ready
<1>2. parse_compound_list(inner, p) = Terms(inner, k)
  BY DEF parse_compound_list
<1>3. Ready(n) /\ n \in State /\ n.at >= p.at /\ n.heap = p.heap
  BY SkipReady
<1>. HIDE DEF n
<1>4. Ran(Len(n.heap), n, c)
  BY <1>3, AndOrRan
<1>. HIDE DEF c
<1>5. Ran(Len(n.heap), n, k)
  BY <1>4, KeptRan DEF Ran
<1>. HIDE DEF k
<1>6. Ran(Len(p.heap), p, k)
  BY <1>1, <1>3, <1>5, RanStep
<1>. QED
  BY <1>1, <1>2, <1>6, TermsAfter

-----------------------------------------------------------------------------
(* What is inside compound commands, as deep as they are. *)
Level(n) ==
    [list |-> [p \in State |->
                 IF n = 0 THEN Fail(p) ELSE parse_compound_list(Inside[n - 1], p)],
     branches |-> [p \in State |->
                     IF n = 0 THEN Fail(p) ELSE parse_branches(Inside[n - 1], p)]]
InsideIs(f) ==
    f = [n \in 0 .. Len(tokens) |->
          [list |-> [p \in State |->
                       IF n = 0 THEN Fail(p) ELSE parse_compound_list(f[n - 1], p)],
           branches |-> [p \in State |->
                           IF n = 0 THEN Fail(p) ELSE parse_branches(f[n - 1], p)]]]
Rules(list, branches) == [list |-> list, branches |-> branches]
Outermost == Rules([p \in State |-> Fail(p)], [p \in State |-> Fail(p)])
Deeper(inner) == Rules([p \in State |-> parse_compound_list(inner, p)],
                       [p \in State |-> parse_branches(inner, p)])

LEMMA RulesIn ==
    ASSUME NEW list \in [State -> State], NEW branches \in [State -> State]
    PROVE  /\ Rules(list, branches) \in Inners
           /\ Rules(list, branches).list = list /\ Rules(list, branches).branches = branches
BY DEF Rules, Inners

LEMMA DeeperIn ==
    ASSUME tokens \in Seq(TokenType)
    PROVE  /\ Outermost \in Inners
           /\ \A p \in State : Outermost.list[p] = Fail(p) /\ Outermost.branches[p] = Fail(p)
           /\ \A inner \in Inners :
                /\ Deeper(inner) \in Inners
                /\ \A p \in State : /\ Deeper(inner).list[p] = parse_compound_list(inner, p)
                                    /\ Deeper(inner).branches[p] = parse_branches(inner, p)
<1>1. ASSUME NEW inner \in Inners
      PROVE  /\ Deeper(inner) \in Inners
             /\ \A p \in State : /\ Deeper(inner).list[p] = parse_compound_list(inner, p)
                                 /\ Deeper(inner).branches[p] = parse_branches(inner, p)
  <2>. DEFINE list == [p \in State |-> parse_compound_list(inner, p)]
              branches == [p \in State |-> parse_branches(inner, p)]
  <2>1. /\ list \in [State -> State]
        /\ \A p \in State : list[p] = parse_compound_list(inner, p)
    BY CompoundState
  <2>2. /\ branches \in [State -> State]
        /\ \A p \in State : branches[p] = parse_branches(inner, p)
    BY BranchesState
  <2>3. Deeper(inner) = Rules(list, branches)
    BY DEF Deeper
  <2>. HIDE DEF list, branches
  <2>. QED
    BY <2>1, <2>2, <2>3, RulesIn
<1>2. /\ Outermost \in Inners
      /\ \A p \in State : Outermost.list[p] = Fail(p) /\ Outermost.branches[p] = Fail(p)
  <2>. DEFINE fail == [p \in State |-> Fail(p)]
  <2>1. fail \in [State -> State] /\ \A p \in State : fail[p] = Fail(p)
    BY FailFields
  <2>2. Outermost = Rules(fail, fail)
    BY DEF Outermost
  <2>. HIDE DEF fail
  <2>. QED
    BY <2>1, <2>2, RulesIn
<1>. QED
  BY <1>1, <1>2

LEMMA InsideLevels ==
    ASSUME tokens \in Seq(TokenType)
    PROVE  /\ \A n \in 0 .. Len(tokens) : Inside[n] \in Inners
           /\ Inside[0] = Outermost
           /\ \A n \in 1 .. Len(tokens) : Inside[n] = Deeper(Inside[n - 1])
<1>. DEFINE m == Len(tokens)
            step == [inner \in Inners |-> Deeper(inner)]
<1>1. m \in Nat
  OBVIOUS
<1>. HIDE DEF m
<1>2. step \in [Inners -> Inners] /\ \A inner \in Inners : step[inner] = Deeper(inner)
  BY DeeperIn
<1>. HIDE DEF step
<1>3. Outermost \in Inners
  BY DeeperIn
<1>4. Computes(m, Inners, Outermost, step)
  BY <1>1, <1>2, <1>3, LoopComputes, Zenon
<1>5. PICK f \in [0 .. m -> Inners] :
        f[0] = Outermost /\ \A n \in 1 .. m : f[n] = step[f[n - 1]]
  BY <1>4 DEF Computes
<1>6. InsideIs(f)
  <2>. DEFINE Lev(g, n) ==
                [list |-> [p \in State |->
                             IF n = 0 THEN Fail(p) ELSE parse_compound_list(g[n - 1], p)],
                 branches |-> [p \in State |->
                                 IF n = 0 THEN Fail(p) ELSE parse_branches(g[n - 1], p)]]
  <2>1. Lev(f, 0) = Outermost
    BY DEF Outermost, Rules
  <2>2. ASSUME NEW n \in 1 .. m PROVE Lev(f, n) = f[n]
    <3>1. n # 0 /\ n - 1 \in 0 .. m
      BY <1>1
    <3>2. Lev(f, n) = Deeper(f[n - 1])
      BY <3>1 DEF Deeper, Rules
    <3>3. f[n - 1] \in Inners
      BY <1>5, <3>1
    <3>. QED
      BY <1>2, <1>5, <3>2, <3>3
  <2>3. \A n \in 0 .. m : Lev(f, n) = f[n]
    <3>. HIDE DEF Lev
    <3>1. ASSUME NEW n \in 0 .. m, n # 0 PROVE n \in 1 .. m
      BY <1>1, <3>1
    <3>. QED
      BY <1>5, <2>1, <2>2, <3>1
  <2>. HIDE DEF Lev
  <2>4. f = [n \in 0 .. m |-> Lev(f, n)]
    BY <1>5, <2>3
  <2>. QED
    BY <2>4, Zenon DEF InsideIs, Lev, m
<1>7. InsideIs(CHOOSE g : InsideIs(g))
  BY <1>6, Zenon
<1>8. InsideIs(Inside)
  BY <1>7, Zenon DEF Inside, InsideIs
<1>9. \A n \in 0 .. m : Inside[n] = Level(n)
  BY <1>8, Zenon DEF InsideIs, Level, m
<1>10. Inside[0] = Outermost
  <2>1. 0 \in 0 .. m
    BY <1>1
  <2>2. Inside[0] = Level(0)
    BY <1>9, <2>1, Zenon
  <2>3. Level(0) = Outermost
    BY DEF Level, Outermost, Rules
  <2>. QED
    BY <2>2, <2>3, Zenon
<1>11. ASSUME NEW n \in 1 .. m PROVE Inside[n] = Deeper(Inside[n - 1])
  <2>1. n \in 0 .. m /\ n # 0
    BY <1>1
  <2>2. Inside[n] = Level(n)
    BY <1>9, <2>1, Zenon
  <2>3. Level(n) = Deeper(Inside[n - 1])
    BY <2>1 DEF Level, Deeper, Rules
  <2>. QED
    BY <2>2, <2>3, Zenon
<1>12. \A n \in 0 .. m : Inside[n] \in Inners
  <2>. DEFINE T == {n \in 0 .. m : Inside[n] \in Inners}
  <2>1. 0 \in T
    BY <1>1, <1>3, <1>10
  <2>2. ASSUME NEW n \in 1 .. m, n - 1 \in T PROVE n \in T
    <3>1. n \in 0 .. m
      BY <1>1
    <3>2. Inside[n] \in Inners
      BY <1>11, <2>2, DeeperIn
    <3>. QED
      BY <3>1, <3>2
  <2>. HIDE DEF T
  <2>3. \A n \in 0 .. m : n \in T
    BY <1>1, <2>1, <2>2, UpTo, Zenon
  <2>. QED
    BY <2>3 DEF T
<1>. QED
  BY <1>10, <1>11, <1>12 DEF m

LEMMA RightOutermost ==
    ASSUME tokens \in Seq(TokenType)
    PROVE  Right(Outermost)
<1>1. /\ Outermost \in Inners
      /\ \A p \in State : Outermost.list[p] = Fail(p) /\ Outermost.branches[p] = Fail(p)
  BY DeeperIn
<1>2. ASSUME NEW p, Ready(p)
      PROVE  /\ After(Len(p.heap), p, Outermost.list[p])
             /\ Failed(Outermost.list[p]) \/ Peek(Outermost.list[p]) \in Terminators
  <2>1. p \in State
    BY <1>2, FineFields DEF Ready
  <2>2. Ran(Len(p.heap), p, Fail(p)) /\ Failed(Fail(p))
    BY <1>2, <2>1, FailReady, FailFields DEF Failed
  <2>. QED
    BY <1>1, <2>1, <2>2 DEF Ran
<1>3. ASSUME NEW p, Fresh(p) PROVE Ran(p.res - 1, p, Outermost.branches[p])
  <2>. DEFINE n == p.res
              f == Fail(p)
  <2>1. Open(p, n, "if", p, 0) /\ p \in State
    BY <1>3 DEF Fresh, Open, Ready, Fine
  <2>2. Open(p, n, "if", f, 2)
    BY <2>1, OpenFail
  <2>3. Ran(n - 1, p, Result(n, f))
    BY <2>1, <2>2, OpenResult
  <2>4. Result(n, f) = f
    BY <2>1, FailFields DEF Result, Failed
  <2>. QED
    BY <1>1, <2>1, <2>3, <2>4
<1>. QED
  BY <1>1, <1>2, <1>3 DEF Right

LEMMA RightDeeper ==
    ASSUME tokens \in Seq(TokenType), NEW inner, Right(inner)
    PROVE  Right(Deeper(inner))
<1>. DEFINE d == Deeper(inner)
<1>1. inner \in Inners
  BY DEF Right
<1>2. /\ d \in Inners
      /\ \A p \in State : /\ d.list[p] = parse_compound_list(inner, p)
                          /\ d.branches[p] = parse_branches(inner, p)
  BY <1>1, DeeperIn
<1>. HIDE DEF d
<1>3. ASSUME NEW p, Ready(p)
      PROVE  /\ After(Len(p.heap), p, d.list[p])
             /\ Failed(d.list[p]) \/ Peek(d.list[p]) \in Terminators
  <2>1. d.list[p] = parse_compound_list(inner, p)
    BY <1>2, <1>3, FineFields DEF Ready
  <2>. QED
    BY <1>3, <2>1, CompoundAfter
<1>4. ASSUME NEW p, Fresh(p) PROVE Ran(p.res - 1, p, d.branches[p])
  <2>1. d.branches[p] = parse_branches(inner, p)
    BY <1>2, <1>4 DEF Fresh, Open, Ready, Fine
  <2>. QED
    BY <1>4, <2>1, BranchesRan
<1>5. Right(d)
  BY <1>2, <1>3, <1>4 DEF Right
<1>. QED
  BY <1>5 DEF d

LEMMA RightInner ==
    ASSUME tokens \in Seq(TokenType)
    PROVE  Right(Inner)
<1>. DEFINE m == Len(tokens)
            T == {n \in 0 .. m : Right(Inside[n])}
<1>1. m \in Nat
  OBVIOUS
<1>2. 0 \in T
  BY <1>1, InsideLevels, RightOutermost
<1>3. ASSUME NEW n \in 1 .. m, n - 1 \in T PROVE n \in T
  <2>1. n \in 0 .. m
    BY <1>1
  <2>2. Right(Inside[n])
    BY <1>3, InsideLevels, RightDeeper
  <2>. QED
    BY <2>1, <2>2
<1>. HIDE DEF T
<1>4. \A n \in 0 .. m : n \in T
  BY <1>1, <1>2, <1>3, UpTo, Zenon
<1>5. m \in T
  BY <1>1, <1>4
<1>. QED
  BY <1>5 DEF T, Inner

-----------------------------------------------------------------------------
(* A whole text. *)
ItemsTurn ==
    [q \in State |->
       IF Failed(q) \/ Peek(q) # ";" THEN q
       ELSE IF PeekTwo(q) \in {"eof", "nl"} THEN Operator(Pop(q), ";", <<q.res, Null>>)
       ELSE Join(q, ";", parse_and_or(Inner, Pop(q)))]

LEMMA ItemsTurns ==
    ASSUME tokens \in Seq(TokenType)
    PROVE  /\ ItemsTurn \in [State -> State]
           /\ \A q : Items(q) = Repeat(ItemsTurn, q)
<1>1. Inner \in Inners
  BY RightInner DEF Right
<1>2. ASSUME NEW q \in State
      PROVE  /\ Operator(Pop(q), ";", <<q.res, Null>>) \in State
             /\ Join(q, ";", parse_and_or(Inner, Pop(q))) \in State
  <2>. DEFINE type == ";"
              kids == <<q.res, Null>>
  <2>1. kids \in Seq(Nat) /\ type \in NodeType
    BY StateFields DEF Null, NodeType
  <2>. HIDE DEF kids, type
  <2>2. Pop(q) \in State
    BY PopFields
  <2>3. parse_and_or(Inner, Pop(q)) \in State
    BY <1>1, <2>2, AndOrState
  <2>4. /\ Operator(Pop(q), type, kids) \in State
        /\ Join(q, type, parse_and_or(Inner, Pop(q))) \in State
    BY <2>1, <2>2, <2>3, OperatorState, JoinState
  <2>. QED
    BY <2>4 DEF type, kids
<1>3. \A q : Items(q) = Repeat(ItemsTurn, q)
  BY Zenon DEF Items, ItemsTurn
<1>. QED
  BY <1>2, <1>3 DEF ItemsTurn

LEMMA ItemsRan ==
    ASSUME tokens \in Seq(TokenType), NEW b, NEW p0 \in State, NEW p, Ran(b, p0, p)
    PROVE  Ran(b, p0, Items(p))
<1>. DEFINE S == {q \in State : Ran(b, p0, q)}
<1>1. ItemsTurn \in [State -> State] /\ Items(p) = Repeat(ItemsTurn, p)
  BY ItemsTurns
<1>2. ASSUME NEW q \in S, ~Failed(q), Peek(q) = ";"
      PROVE  /\ Ran(b, p0, Operator(Pop(q), ";", <<q.res, Null>>))
             /\ Ran(b, p0, Join(q, ";", parse_and_or(Inner, Pop(q))))
  <2>. DEFINE type == ";"
              kids == <<q.res, Null>>
              o == Pop(q)
              r == parse_and_or(Inner, o)
  <2>1. type \in NodeType /\ type \in {"function", "block", ";", "!"} /\ Peek(q) # "eof"
    BY <1>2 DEF NodeType
  <2>2. /\ Ran(b, p0, q) /\ Ready(q) /\ q \in State /\ q.at \in Nat /\ q.res \in Nat /\ q.res # Null
    BY <1>2, RanFields DEF Failed
  <2>3. kids \in Seq(Nat) /\ 1 \in DOMAIN kids /\ kids[1] = q.res
    BY <2>2 DEF Null
  <2>4. Ready(o) /\ o.at >= q.at /\ o.heap = q.heap /\ o.res = q.res /\ o \in State
    BY <2>1, <2>2, PopLooked
  <2>5. Ran(b, p0, o)
    BY <2>2, <2>4, RanMoved
  <2>6. Given(b, o.heap, kids)
    BY <2>2, <2>4, <2>5, GivenOne DEF Ran, After, Returns
  <2>. HIDE DEF type, kids, o
  <2>7. HasChildren(Made(type, << >>, kids))
    BY <2>1, <2>2, <2>3, OneChild
  <2>8. p0.heap \in Seq(Node) /\ o.at >= p0.at /\ Grown(b, p0.heap, o.heap)
    BY <2>5, RanFields, StateFields
  <2>9. Ran(b, p0, Operator(o, type, kids))
    BY <2>1, <2>3, <2>4, <2>6, <2>7, <2>8, OperatorRan
  <2>10. Ran(Len(o.heap), o, r)
    BY <2>4, RightInner, AndOrRan
  <2>. HIDE DEF r
  <2>11. Ran(Len(q.heap), q, r)
    BY <2>2, <2>4, <2>10, RanStep
  <2>12. Ran(b, p0, Join(q, type, r))
    BY <1>2, <2>1, <2>2, <2>11, JoinRan
  <2>. QED
    BY <2>9, <2>12 DEF type, kids, o, r
<1>3. ASSUME NEW q \in S PROVE ItemsTurn[q] \in S
  <2>1. ItemsTurn[q] \in State
    BY <1>1
  <2>2. \/ ItemsTurn[q] = q
        \/ /\ ~Failed(q) /\ Peek(q) = ";"
           /\ \/ ItemsTurn[q] = Operator(Pop(q), ";", <<q.res, Null>>)
              \/ ItemsTurn[q] = Join(q, ";", parse_and_or(Inner, Pop(q)))
    BY Zenon DEF ItemsTurn
  <2>. QED
    BY <1>2, <2>1, <2>2
<1>4. p \in S /\ S \in SUBSET State
  BY RanFields
<1>. HIDE DEF S
<1>5. Repeat(ItemsTurn, p) \in S
  BY <1>1, <1>3, <1>4, RepeatKeeps
<1>. QED
  BY <1>1, <1>5 DEF S

LEMMA ListRan ==
    ASSUME tokens \in Seq(TokenType), NEW p, Ready(p)
    PROVE  Ran(Len(p.heap), p, parse_list(p))
<1>. DEFINE c == parse_and_or(Inner, p)
            k == Kept(c)
            i == Items(k)
            b == Len(p.heap)
<1>1. p \in State
  BY FineFields DEF Ready
<1>2. parse_list(p) = EndOfLine(i)
  BY DEF parse_list
<1>3. Ran(b, p, c)
  BY RightInner, AndOrRan
<1>. HIDE DEF c, b
<1>4. Ran(b, p, k)
  BY <1>3, KeptRan DEF Ran
<1>. HIDE DEF k
<1>5. Ran(b, p, i)
  BY <1>1, <1>4, ItemsRan
<1>. HIDE DEF i
<1>6. Ran(b, p, EndOfLine(i))
  BY <1>5, FailRan DEF EndOfLine
<1>. QED
  BY <1>2, <1>6 DEF b

LEMMA BeginReady ==
    ASSUME tokens \in Seq(TokenType)
    PROVE  Begin \in State /\ Ready(Begin) /\ Begin.res = Null /\ Begin.at = 1
<1>. DEFINE none == << >>
            first == <<Null>>
<1>1. /\ none \in Seq(Node) /\ none \in Seq([name : Nat, body : Nat]) /\ DOMAIN none = {}
      /\ first \in Seq(Nat) /\ DOMAIN first = {1} /\ first[1] = Null /\ Turns \in Nat /\ 1 <= Turns
  BY DEF Null, Turns
<1>2. Begin = [at |-> 1, heap |-> none, nodes |-> first, funcs |-> none, res |-> Null,
               accepted |-> FALSE]
  BY DEF Begin
<1>. HIDE DEF none, first
<1>3. /\ Begin \in State /\ Begin.at = 1 /\ Begin.heap = none /\ Begin.nodes = first
      /\ Begin.funcs = none /\ Begin.res = Null
  BY <1>1, <1>2 DEF State, Null
<1>4. Forest(none) /\ Bodies(none, none)
  BY <1>1 DEF Forest, Sound, Single, Has, Bodies
<1>5. Once(first) /\ Members(first) = DOMAIN none
  BY <1>1 DEF Once, Members
<1>. QED
  BY <1>1, <1>3, <1>4, <1>5 DEF Ready, Fine, Entered

AcceptAs(p, accepted) == [p EXCEPT !.accepted = accepted]

LEMMA AcceptFields ==
    ASSUME NEW p \in State, NEW accepted \in BOOLEAN
    PROVE  LET q == AcceptAs(p, accepted)
           IN  /\ q \in State /\ q.at = p.at /\ q.heap = p.heap /\ q.nodes = p.nodes
               /\ q.funcs = p.funcs /\ q.res = p.res
BY DEF State, AcceptAs

Tree(p) ==
    \/ p.res = Null
    \/ p.res \in DOMAIN p.heap /\ Root(p.heap, p.res) /\ HasChildren(p.heap[p.res])

LEMMA Parsed ==
    ASSUME tokens \in Seq(TokenType)
    PROVE  Ready(parse_input) /\ Tree(parse_input)
<1>. DEFINE p == SkipNewlines(Begin)
            q == parse_list(p)
<1>1. Ready(p) /\ p \in State /\ p.res = Null /\ p.at <= Turns
  BY BeginReady, SkipReady, FineFields DEF Ready
<1>2. parse_input = IF Peek(p) = "eof" THEN AcceptAs(p, TRUE) ELSE AcceptAs(q, ~Failed(q))
  BY DEF parse_input, Accept, AcceptAs
<1>. HIDE DEF p
<1>3. Ran(Len(p.heap), p, q)
  BY <1>1, ListRan
<1>. HIDE DEF q
<1>4. Ready(q) /\ q \in State /\ q.at <= Turns /\ Tree(q)
  BY <1>3, RanFields DEF Ran, After, Returns, Tree
<1>5. ASSUME NEW r \in State, Ready(r), r.at <= Turns, Tree(r), NEW a \in BOOLEAN
      PROVE  Ready(AcceptAs(r, a)) /\ Tree(AcceptAs(r, a))
  <2>. DEFINE s == AcceptAs(r, a)
  <2>1. /\ s \in State /\ s.at = r.at /\ s.heap = r.heap /\ s.nodes = r.nodes
        /\ s.funcs = r.funcs /\ s.res = r.res
    BY AcceptFields
  <2>. HIDE DEF s
  <2>2. Ready(s)
    BY <1>5, <2>1, StepOn
  <2>3. Tree(s)
    BY <1>5, <2>1 DEF Tree
  <2>. QED
    BY <2>2, <2>3 DEF s
<1>6. Tree(p) /\ Failed(q) \in BOOLEAN
  BY <1>1 DEF Tree, Failed
<1>. QED
  BY <1>1, <1>2, <1>4, <1>5, <1>6

(* What a text is, whatever the parser makes of it. *)
Typed == tokens \in Seq(TokenType) /\ start \in Starts

LEMMA InitTyped == Init => Typed
<1>. SUFFICES ASSUME Init
              PROVE  Typed
  OBVIOUS
<1>1. start \in Starts /\ tokens = start.text
  BY DEF Init
<1>2. start.text \in Seq(TokenType)
  BY <1>1, ParserConstants
<1>. QED
  BY <1>1, <1>2 DEF Typed

LEMMA NextTyped == Typed /\ [Next]_vars => Typed'
<1>. SUFFICES ASSUME Typed, [Next]_vars
              PROVE  Typed'
  OBVIOUS
<1>1. CASE NextToken
  <2>1. PICK t \in start.with : tokens' = Append(tokens, t)
    BY <1>1 DEF NextToken
  <2>2. t \in TokenType
    BY <2>1, ParserConstants DEF Typed
  <2>. HIDE DEF TokenType
  <2>3. Append(tokens, t) \in Seq(TokenType)
    BY <2>2 DEF Typed
  <2>. QED
    BY <1>1, <2>1, <2>3 DEF Typed, NextToken
<1>2. CASE Complete
  BY <1>2 DEF Typed, Complete, vars
<1>3. CASE UNCHANGED vars
  BY <1>3 DEF Typed, vars
<1>. QED
  BY <1>1, <1>2, <1>3 DEF Next

(* Every text that is typed is parsed into a tree of whole nodes. *)
LEMMA TypedParses == Typed => TypeOK
<1>. SUFFICES ASSUME Typed
              PROVE  TypeOK
  OBVIOUS
<1>. DEFINE p == parse_input
<1>1. tokens \in Seq(TokenType) /\ start \in Starts
  BY DEF Typed
<1>2. Ready(p) /\ Tree(p)
  BY <1>1, Parsed
<1>3. p = parse_input
  OBVIOUS
<1>. HIDE DEF p
<1>4. /\ p \in State /\ p.at \in Nat /\ p.at >= 1 /\ p.at <= Turns /\ Forest(p.heap)
      /\ Bodies(p.heap, p.funcs) /\ p.heap \in Seq(Node)
  BY <1>2, FineFields DEF Ready
<1>5. p.at \in 1 .. Len(tokens) + 1
  BY <1>1, <1>4 DEF Turns
<1>6. p.res \in {Null} \cup DOMAIN p.heap
  BY <1>2 DEF Tree
<1>7. \A k \in DOMAIN p.funcs : p.funcs[k].body \in DOMAIN p.heap
  BY <1>4 DEF Bodies
<1>8. \A n \in DOMAIN p.heap : \A k \in DOMAIN p.heap[n].kids :
        p.heap[n].kids[k] \in {Null} \cup DOMAIN p.heap
  BY <1>4 DEF Forest, Sound, Has
<1>9. ASSUME NEW n \in DOMAIN p.heap, Used(p, n) PROVE HasChildren(p.heap[n])
  <2>0. n # Null
    BY <1>4, Heap
  <2>1. CASE \E m \in DOMAIN p.heap : \E k \in DOMAIN p.heap[m].kids : p.heap[m].kids[k] = n
    BY <1>4, <2>0, <2>1 DEF Forest, Sound, Has
  <2>2. CASE \E k \in DOMAIN p.funcs : p.funcs[k].body = n
    BY <1>4, <2>2 DEF Bodies
  <2>3. CASE p.res = n
    BY <1>2, <2>0, <2>3 DEF Tree
  <2>. QED
    BY <1>9, <2>1, <2>2, <2>3 DEF Used
<1>10. /\ p \in State /\ p.at \in 1 .. Len(tokens) + 1
       /\ p.res \in {Null} \cup DOMAIN p.heap
       /\ \A k \in DOMAIN p.funcs : p.funcs[k].body \in DOMAIN p.heap
       /\ \A n \in DOMAIN p.heap : \A k \in DOMAIN p.heap[n].kids :
            p.heap[n].kids[k] \in {Null} \cup DOMAIN p.heap
       /\ \A n \in DOMAIN p.heap : Used(p, n) => HasChildren(p.heap[n])
  BY <1>4, <1>5, <1>6, <1>7, <1>8, <1>9
<1>. QED
  BY <1>1, <1>3, <1>10, Zenon DEF TypeOK

LEMMA TypedFrees == Typed => OwnedOnce
<1>. SUFFICES ASSUME Typed
              PROVE  OwnedOnce
  OBVIOUS
<1>. DEFINE p == parse_input
            Kid(n, k) == p.heap[n].kids[k]
<1>1. Ready(p) /\ Tree(p)
  BY Parsed DEF Typed
<1>2. p = parse_input
  OBVIOUS
<1>. HIDE DEF p
<1>3. Forest(p.heap) /\ Once(p.nodes) /\ Members(p.nodes) = DOMAIN p.heap /\ p.heap \in Seq(Node)
  BY <1>1, FineFields DEF Ready, Entered
<1>4. \A j, k \in DOMAIN p.nodes : p.nodes[j] = p.nodes[k] /\ p.nodes[j] # Null => j = k
  BY <1>3 DEF Once
<1>5. {p.nodes[k] : k \in DOMAIN p.nodes} \ {Null} = DOMAIN p.heap
  BY <1>3 DEF Members
<1>6. ASSUME NEW m \in DOMAIN p.heap, NEW j \in DOMAIN p.heap[m].kids, Kid(m, j) # Null
      PROVE  /\ Kid(m, j) # p.res
             /\ \A n \in DOMAIN p.heap : \A k \in DOMAIN p.heap[n].kids :
                  Kid(m, j) = Kid(n, k) => m = n /\ j = k
  <2>1. Has(p.heap, m, j, Kid(m, j))
    BY DEF Has
  <2>2. Kid(m, j) # p.res
    BY <1>1, <1>6, <2>1 DEF Tree, Root
  <2>3. ASSUME NEW n \in DOMAIN p.heap, NEW k \in DOMAIN p.heap[n].kids, Kid(m, j) = Kid(n, k)
        PROVE  m = n /\ j = k
    <3>1. Has(p.heap, n, k, Kid(m, j))
      BY <2>3 DEF Has
    <3>. QED
      BY <1>3, <1>6, <2>1, <3>1 DEF Forest, Single
  <2>. QED
    BY <2>2, <2>3
<1>7. /\ \A j, k \in DOMAIN p.nodes : p.nodes[j] = p.nodes[k] /\ p.nodes[j] # Null => j = k
      /\ {p.nodes[k] : k \in DOMAIN p.nodes} \ {Null} = DOMAIN p.heap
      /\ \A m \in DOMAIN p.heap : \A j \in DOMAIN p.heap[m].kids : Kid(m, j) # Null =>
           /\ Kid(m, j) # p.res
           /\ \A n \in DOMAIN p.heap : \A k \in DOMAIN p.heap[n].kids :
                Kid(m, j) = Kid(n, k) => m = n /\ j = k
  BY <1>4, <1>5, <1>6
<1>. QED
  BY <1>2, <1>7 DEF OwnedOnce

(* Whatever the text is, what the parser hands to the executor is a tree of nodes that
   have the children ast_exec follows, in every depth, and no rule reads behind EOF. *)
THEOREM TypeCorrect == Spec => []TypeOK
<1>1. Init => Typed
  BY InitTyped
<1>2. Typed /\ [Next]_vars => Typed'
  BY NextTyped
<1>3. Typed => TypeOK
  BY TypedParses
<1>. QED
  BY <1>1, <1>2, <1>3, PTL DEF Spec

(* Whatever the text is, every node the parser allocates is freed once in the end, on
   the error paths too, and has one parent at most. *)
THEOREM NodesOwnedOnce == Spec => []OwnedOnce
<1>1. Init => Typed
  BY InitTyped
<1>2. Typed /\ [Next]_vars => Typed'
  BY NextTyped
<1>3. Typed => OwnedOnce
  BY TypedFrees
<1>. QED
  BY <1>1, <1>2, <1>3, PTL DEF Spec
=============================================================================
