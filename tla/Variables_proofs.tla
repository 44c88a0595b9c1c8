-------------------------- MODULE Variables_proofs --------------------------
(* Proofs about Variables, for every set of names, values and directories and
   every number of cells: the list is sound, and it is the map of VarMap. *)
EXTENDS Variables, FiniteSetTheorems, WellFoundedInduction, TLAPS

-----------------------------------------------------------------------------
(* The shape of the list.  A cell is linked behind those that were allocated
   before it, so the order of the list is the order of the allocations: that is
   why the loops over next end. *)
Cell == [name : Name \cup {""}, value : Value, next : 0 .. MaxCells, prev : 0 .. MaxCells]

List == [cells : Seq(Cell), live : SUBSET Nat, head : Nat, tail : Nat, size : Nat,
         alive : BOOLEAN]

Linked(l) ==
    /\ l \in List
    /\ Len(l.cells) <= MaxCells
    /\ l.live \subseteq 1 .. Len(l.cells)
    /\ l.head \in l.live /\ l.cells[l.head].prev = NULL
    /\ l.tail \in l.live /\ l.cells[l.tail].next = NULL
    /\ \A c \in l.live : l.head <= c /\ c <= l.tail
    /\ \A c \in l.live \ {l.tail} : LET d == l.cells[c].next
                                    IN  /\ d \in l.live /\ d > c /\ l.cells[d].prev = c
                                        /\ \A e \in l.live : e > c => e >= d
    /\ \A c \in l.live \ {l.head} : LET d == l.cells[c].prev
                                    IN  d \in l.live /\ d < c /\ l.cells[d].next = c
    /\ \A c \in l.live : l.cells[c].name \in Name
    /\ \A c, d \in l.live : l.cells[c].name = l.cells[d].name => c = d
    /\ \A c \in 1 .. Len(l.cells) : c \notin l.live => l.cells[c] = Freed
    /\ l.size = Cardinality(l.live)

(* The map that a list stands for. *)
Names(l) == {l.cells[c].name : c \in l.live}
EnvOf(l) == [n \in Names(l) |-> ValueOf(l, n)]
First(l) == l.cells[l.head].name
Newest(l) == l.cells[l.tail].name

LEMMA NameFacts ==
    /\ "0" \in Name /\ "?" \in Name /\ "OLDPWD" \in Name /\ "PWD" \in Name
    /\ NULL = 0 /\ NULL \in 0 .. MaxCells /\ MaxCells \in Nat
BY VariablesAssumption DEF Name, NULL

(* A set of numbers has a greatest one: the intervals above its members are finite
   sets, and the smallest of them belongs to the greatest member. *)
LEMMA GreatestInSet ==
    ASSUME NEW m \in Nat, NEW S \in SUBSET (0 .. m), S # {}
    PROVE  \E x \in S : \A y \in S : y <= x
<1>. DEFINE T == {x .. m : x \in S}
<1>1. S \subseteq Nat
  OBVIOUS
<1>2. T \subseteq FiniteSubsetsOf(Nat) /\ T # {}
  <2>1. \A x \in S : x .. m \in SUBSET Nat /\ IsFiniteSet(x .. m)
    BY <1>1, FS_Interval
  <2>. QED
    BY <2>1 DEF FiniteSubsetsOf
<1>3. PICK I \in T : \A J \in T : <<J, I>> \notin StrictSubsetOrdering(Nat)
  BY <1>2, FS_StrictSubsetOrderingWellFounded, WFMin, Zenon
<1>4. PICK x \in S : I = x .. m
  OBVIOUS
<1>5. \A y \in S : y <= x
  <2>. SUFFICES ASSUME NEW y \in S, x < y
                PROVE  FALSE
    BY <1>1
  <2>1. y .. m \subseteq x .. m /\ x \in x .. m /\ x \notin y .. m
    BY <1>1
  <2>2. <<y .. m, x .. m>> \in StrictSubsetOrdering(Nat)
    BY <2>1, <1>1 DEF StrictSubsetOrdering
  <2>. QED
    BY <2>2, <1>3, <1>4
<1>. QED
  BY <1>5

(* Induction over the list, from its tail to its head: what holds of the tail, and of
   a cell whose next cell it holds of, holds of every cell. *)
LEMMA FromTheTail ==
    ASSUME NEW l, Linked(l), NEW Good \in SUBSET l.live, l.tail \in Good,
           \A c \in l.live \ {l.tail} : l.cells[c].next \in Good => c \in Good
    PROVE  Good = l.live
<1>. SUFFICES ASSUME l.live \ Good # {}
              PROVE  FALSE
  OBVIOUS
<1>1. Len(l.cells) \in Nat /\ l.live \ Good \in SUBSET (0 .. Len(l.cells))
  BY DEF Linked, List
<1>2. PICK c \in l.live \ Good : \A d \in l.live \ Good : d <= c
  BY <1>1, GreatestInSet
<1>3. c \in l.live \ {l.tail} /\ l.cells[c].next \in l.live /\ l.cells[c].next > c
  BY <1>2 DEF Linked
<1>4. l.cells[c].next \in Nat /\ c \in Nat
  BY <1>3, <1>1
<1>. QED
  BY <1>2, <1>3, <1>4

LEMMA FreedIs ==
    /\ Freed \in Cell
    /\ Freed.name = "" /\ Freed.value = "" /\ Freed.next = NULL /\ Freed.prev = NULL
BY NameFacts DEF Freed, Cell, Value

LEMMA CellsAre ==
    ASSUME NEW l, Linked(l)
    PROVE  /\ l \in List /\ Len(l.cells) \in Nat /\ DOMAIN l.cells = 1 .. Len(l.cells)
           /\ \A c \in 1 .. Len(l.cells) :
                /\ c \in Nat /\ c # NULL /\ l.cells[c] \in Cell
                /\ c \notin l.live => l.cells[c] = Freed
           /\ \A c \in l.live :
                /\ c \in 1 .. Len(l.cells) /\ c \in Nat /\ c # NULL /\ l.cells[c] \in Cell
                /\ l.cells[c].name \in Name
                /\ l.cells[c].next = NULL <=> c = l.tail
                /\ l.cells[c].prev = NULL <=> c = l.head
<1>1. l \in List /\ Len(l.cells) \in Nat /\ DOMAIN l.cells = 1 .. Len(l.cells)
  BY DEF Linked, List
<1>2. \A c \in 1 .. Len(l.cells) : l.cells[c] \in Cell
  BY DEF Linked, List
<1>. QED
  BY <1>1, <1>2, NameFacts DEF Linked

-----------------------------------------------------------------------------
(* get_variable: the loop finds the cell of that name, if there is one.  The value of
   the recursive function at every cell, and that there is such a function. *)
Named(l, n) == CHOOSE d \in l.live : l.cells[d].name = n
Ahead(l, n, c) == \E d \in l.live : d >= c /\ l.cells[d].name = n
Walk(l, n) == [c \in 0 .. Len(l.cells) |->
    IF c = NULL THEN NULL
    ELSE IF c \in l.live THEN IF Ahead(l, n, c) THEN Named(l, n) ELSE NULL
         ELSE IF n = "" THEN c ELSE NULL]
WalkEq(f, l, n) == f = [c \in 0 .. Len(l.cells) |->
    IF c = NULL THEN NULL ELSE IF l.cells[c].name = n THEN c ELSE f[l.cells[c].next]]

LEMMA AheadOf ==
    ASSUME NEW l, Linked(l), NEW n, NEW c \in l.live
    PROVE  Ahead(l, n, c) <=> \/ l.cells[c].name = n
                              \/ c # l.tail /\ Ahead(l, n, l.cells[c].next)
<1>. USE CellsAre
<1>1. CASE c = l.tail
  BY <1>1 DEF Linked, Ahead
<1>2. CASE c # l.tail
  <2>1. /\ l.cells[c].next \in l.live /\ l.cells[c].next > c
        /\ \A e \in l.live : e > c => e >= l.cells[c].next
    BY <1>2 DEF Linked
  <2>2. \A e \in l.live : e >= c <=> (e = c \/ e >= l.cells[c].next)
    BY <2>1
  <2>. QED
    BY <1>2, <2>2 DEF Ahead
<1>. QED
  BY <1>1, <1>2

LEMMA WalkWalks ==
    ASSUME NEW l, Linked(l), NEW n
    PROVE  WalkEq(Walk(l, n), l, n)
<1>. DEFINE W == Walk(l, n)
<1>a. Len(l.cells) \in Nat /\ NULL \in 0 .. Len(l.cells) /\ l.live \subseteq 0 .. Len(l.cells)
  BY CellsAre, NameFacts
<1>b. \A c \in 0 .. Len(l.cells) :
        W[c] = IF c = NULL THEN NULL
               ELSE IF c \in l.live THEN IF Ahead(l, n, c) THEN Named(l, n) ELSE NULL
                    ELSE IF n = "" THEN c ELSE NULL
  BY DEF Walk
<1>c. W = [c \in 0 .. Len(l.cells) |-> W[c]]
  BY DEF Walk
<1>. HIDE DEF W
<1>1. ASSUME NEW c \in 0 .. Len(l.cells)
      PROVE  W[c] = IF c = NULL THEN NULL
                    ELSE IF l.cells[c].name = n THEN c ELSE W[l.cells[c].next]
  <2>1. CASE c = NULL
    BY <2>1, <1>a, <1>b
  <2>2. CASE c \in l.live /\ l.cells[c].name = n
    <3>1. Named(l, n) = c
      BY <2>2 DEF Named, Linked
    <3>. QED
      BY <2>2, <3>1, <1>b, AheadOf, CellsAre
  <2>3. CASE c \in l.live /\ l.cells[c].name # n /\ c = l.tail
    <3>1. ~Ahead(l, n, c)
      BY <2>3, AheadOf
    <3>2. W[c] = NULL /\ l.cells[c].next = NULL /\ c # NULL /\ W[NULL] = NULL
      BY <2>3, <3>1, <1>a, <1>b, CellsAre
    <3>. QED
      BY <2>3, <3>2
  <2>4. CASE c \in l.live /\ l.cells[c].name # n /\ c # l.tail
    <3>1. l.cells[c].next \in l.live
      BY <2>4 DEF Linked
    <3>2. Ahead(l, n, c) <=> Ahead(l, n, l.cells[c].next)
      BY <2>4, AheadOf
    <3>3. W[l.cells[c].next] = IF Ahead(l, n, c) THEN Named(l, n) ELSE NULL
      BY <3>1, <3>2, CellsAre, <1>a, <1>b
    <3>4. W[c] = IF Ahead(l, n, c) THEN Named(l, n) ELSE NULL
      BY <2>4, CellsAre, <1>a, <1>b
    <3>. QED
      BY <2>4, <3>3, <3>4, CellsAre
  <2>5. CASE c \notin l.live /\ c # NULL
    <3>1. l.cells[c] = Freed
      BY <2>5, CellsAre, NameFacts
    <3>2. W[NULL] = NULL
      BY <1>a, <1>b
    <3>3. l.cells[c].name = "" /\ l.cells[c].next = NULL
      BY <3>1, FreedIs
    <3>. QED
      BY <2>5, <3>2, <3>3, <1>b
  <2>. QED
    BY <2>1, <2>2, <2>3, <2>4, <2>5
<1>3. W = [c \in 0 .. Len(l.cells) |->
             IF c = NULL THEN NULL
             ELSE IF l.cells[c].name = n THEN c ELSE W[l.cells[c].next]]
  BY <1>1, <1>c
<1>. QED
  BY <1>3 DEF WalkEq, W

LEMMA LoopOfGet ==
    ASSUME NEW l, Linked(l), NEW n
    PROVE  \E f : WalkEq(f, l, n) /\ get_variable(l, n) = f[l.head]
<1>1. \E f : WalkEq(f, l, n)
  BY WalkWalks
<1>2. WalkEq(CHOOSE f : WalkEq(f, l, n), l, n)
  BY <1>1, Zenon
<1>3. get_variable(l, n) = (CHOOSE f : WalkEq(f, l, n))[l.head]
  BY Zenon DEF get_variable, WalkEq
<1>. QED
  BY <1>2, <1>3, Zenon

LEMMA Found ==
    ASSUME NEW l, Linked(l), NEW n
    PROVE  /\ n \in Names(l) => /\ get_variable(l, n) \in l.live
                                /\ l.cells[get_variable(l, n)].name = n
           /\ n \notin Names(l) => get_variable(l, n) = NULL
           /\ Has(l, n) <=> n \in Names(l)
<1>1. PICK f : WalkEq(f, l, n) /\ get_variable(l, n) = f[l.head]
  BY LoopOfGet
<1>. DEFINE Right(c) == IF Ahead(l, n, c) THEN f[c] \in l.live /\ l.cells[f[c]].name = n
                        ELSE f[c] = NULL
            Good == {c \in l.live : Right(c)}
<1>2. \A c \in l.live : f[c] = IF l.cells[c].name = n THEN c ELSE f[l.cells[c].next]
  BY <1>1, CellsAre DEF WalkEq
<1>3. f[NULL] = NULL
  BY <1>1, CellsAre, NameFacts DEF WalkEq
<1>4. l.tail \in Good
  <2>1. l.tail \in l.live /\ l.cells[l.tail].next = NULL
    BY DEF Linked
  <2>2. Ahead(l, n, l.tail) <=> l.cells[l.tail].name = n
    BY <2>1, AheadOf
  <2>. QED
    BY <2>1, <2>2, <1>2, <1>3
<1>5. ASSUME NEW c \in l.live \ {l.tail}, l.cells[c].next \in Good
      PROVE  c \in Good
  <2>1. Ahead(l, n, c) <=> (l.cells[c].name = n \/ Ahead(l, n, l.cells[c].next))
    BY AheadOf
  <2>. QED
    BY <2>1, <1>2, <1>5
<1>6. Good = l.live
  <2>. HIDE DEF Right
  <2>1. Good \in SUBSET l.live
    OBVIOUS
  <2>. HIDE DEF Good
  <2>. QED
    BY <2>1, <1>4, <1>5, FromTheTail
<1>7. l.head \in l.live /\ \A d \in l.live : d >= l.head
  BY CellsAre DEF Linked
<1>8. Right(l.head) /\ (Ahead(l, n, l.head) <=> n \in Names(l))
  BY <1>6, <1>7 DEF Ahead, Names
<1>. QED
  BY <1>1, <1>8, CellsAre DEF Has

-----------------------------------------------------------------------------
(* The cells that the loop over next reaches are those that are allocated. *)
Trail(l) == [c \in 0 .. Len(l.cells) |->
    IF c = NULL THEN {} ELSE IF c \in l.live THEN {d \in l.live : d >= c} ELSE {c}]
TrailEq(f, l) == f = [c \in 0 .. Len(l.cells) |->
    IF c = NULL THEN {} ELSE {c} \cup f[l.cells[c].next]]

LEMMA TrailTrails ==
    ASSUME NEW l, Linked(l)
    PROVE  TrailEq(Trail(l), l)
<1>. DEFINE W == Trail(l)
<1>a. Len(l.cells) \in Nat /\ NULL \in 0 .. Len(l.cells) /\ l.live \subseteq 0 .. Len(l.cells)
  BY CellsAre, NameFacts
<1>b. \A c \in 0 .. Len(l.cells) :
        W[c] = IF c = NULL THEN {} ELSE IF c \in l.live THEN {d \in l.live : d >= c} ELSE {c}
  BY DEF Trail
<1>c. W = [c \in 0 .. Len(l.cells) |-> W[c]]
  BY DEF Trail
<1>. HIDE DEF W
<1>1. ASSUME NEW c \in 0 .. Len(l.cells)
      PROVE  W[c] = IF c = NULL THEN {} ELSE {c} \cup W[l.cells[c].next]
  <2>0. W[NULL] = {}
    BY <1>a, <1>b
  <2>1. CASE c = NULL
    BY <2>1, <1>a, <1>b
  <2>2. CASE c \in l.live /\ c = l.tail
    <3>1. l.cells[c].next = NULL /\ c # NULL /\ c \in Nat /\ \A d \in l.live : d \in Nat /\ d <= c
      BY <2>2, CellsAre DEF Linked
    <3>2. W[c] = {d \in l.live : d >= c}
      BY <2>2, <3>1, <1>b
    <3>. QED
      BY <2>0, <2>2, <3>1, <3>2
  <2>3. CASE c \in l.live /\ c # l.tail
    <3>. DEFINE x == l.cells[c].next
    <3>1. x \in l.live /\ x > c /\ \A e \in l.live : e > c => e >= x
      BY <2>3 DEF Linked
    <3>2. W[c] = {d \in l.live : d >= c} /\ W[x] = {d \in l.live : d >= x} /\ c # NULL
      BY <2>3, <3>1, CellsAre, <1>a, <1>b
    <3>3. \A d \in l.live : d >= c <=> (d = c \/ d >= x)
      BY <2>3, <3>1, CellsAre
    <3>. QED
      BY <2>3, <3>2, <3>3
  <2>4. CASE c \notin l.live /\ c # NULL
    <3>1. l.cells[c] = Freed
      BY <2>4, CellsAre, NameFacts
    <3>2. l.cells[c].next = NULL
      BY <3>1, FreedIs
    <3>. QED
      BY <2>4, <3>2, <2>0, <1>b
  <2>. QED
    BY <2>1, <2>2, <2>3, <2>4
<1>3. W = [c \in 0 .. Len(l.cells) |-> IF c = NULL THEN {} ELSE {c} \cup W[l.cells[c].next]]
  BY <1>1, <1>c
<1>. QED
  BY <1>3 DEF TrailEq, W

LEMMA AllReached ==
    ASSUME NEW l, Linked(l)
    PROVE  Reached(l) = l.live
<1>1. PICK f : TrailEq(f, l) /\ Reached(l) = f[l.head]
  <2>1. \E f : TrailEq(f, l)
    BY TrailTrails
  <2>2. TrailEq(CHOOSE f : TrailEq(f, l), l)
    BY <2>1, Zenon
  <2>3. Reached(l) = (CHOOSE f : TrailEq(f, l))[l.head]
    BY Zenon DEF Reached, TrailEq
  <2>. QED
    BY <2>2, <2>3, Zenon
<1>. DEFINE Right(c) == f[c] = {d \in l.live : d >= c}
            Good == {c \in l.live : Right(c)}
<1>2. \A c \in l.live : f[c] = {c} \cup f[l.cells[c].next]
  <2>1. \A c \in l.live : c \in 0 .. Len(l.cells) /\ c # NULL
    BY CellsAre
  <2>. QED
    BY <1>1, <2>1, Zenon DEF TrailEq
<1>3. f[NULL] = {}
  <2>1. NULL \in 0 .. Len(l.cells)
    BY CellsAre, NameFacts
  <2>. QED
    BY <1>1, <2>1, Zenon DEF TrailEq
<1>4. l.tail \in Good
  <2>1. l.tail \in l.live /\ l.cells[l.tail].next = NULL /\ \A d \in l.live : d <= l.tail
    BY DEF Linked
  <2>. QED
    BY <2>1, <1>2, <1>3, CellsAre
<1>5. ASSUME NEW c \in l.live \ {l.tail}, l.cells[c].next \in Good
      PROVE  c \in Good
  <2>. DEFINE x == l.cells[c].next
  <2>1. x \in l.live /\ x > c /\ \A e \in l.live : e > c => e >= x
    BY DEF Linked
  <2>2. \A d \in l.live : d >= c <=> (d = c \/ d >= x)
    BY <2>1, CellsAre
  <2>. QED
    BY <2>2, <1>2, <1>5
<1>6. Good = l.live
  <2>. HIDE DEF Right
  <2>1. Good \in SUBSET l.live
    OBVIOUS
  <2>. HIDE DEF Good
  <2>. QED
    BY <2>1, <1>4, <1>5, FromTheTail
<1>7. l.head \in l.live /\ \A d \in l.live : d >= l.head
  BY CellsAre DEF Linked
<1>. QED
  BY <1>1, <1>6, <1>7

-----------------------------------------------------------------------------
(* What a list says of a name is what the cell of that name says. *)
LEMMA EnvAt ==
    ASSUME NEW l, Linked(l)
    PROVE  /\ DOMAIN EnvOf(l) = Names(l) /\ Names(l) \subseteq Name
           /\ \A c \in l.live : /\ l.cells[c].name \in Names(l)
                                /\ get_variable(l, l.cells[c].name) = c
                                /\ EnvOf(l)[l.cells[c].name] = l.cells[c].value
           /\ \A n \in Names(l) : EnvOf(l)[n] = ValueOf(l, n) /\ EnvOf(l)[n] \in Value
<1>1. DOMAIN EnvOf(l) = Names(l) /\ Names(l) \subseteq Name
  BY CellsAre DEF EnvOf, Names
<1>2. \A n \in Names(l) : EnvOf(l)[n] = ValueOf(l, n)
  BY DEF EnvOf
<1>3. ASSUME NEW c \in l.live
      PROVE  /\ l.cells[c].name \in Names(l)
             /\ get_variable(l, l.cells[c].name) = c
             /\ EnvOf(l)[l.cells[c].name] = l.cells[c].value
  <2>1. l.cells[c].name \in Names(l)
    BY DEF Names
  <2>2. get_variable(l, l.cells[c].name) = c
    <3>1. \A d \in l.live : l.cells[d].name = l.cells[c].name => d = c
      BY DEF Linked
    <3>. QED
      BY <2>1, <3>1, Found
  <2>. QED
    BY <2>1, <2>2, <1>2 DEF ValueOf
<1>4. ASSUME NEW n \in Names(l)
      PROVE  EnvOf(l)[n] \in Value
  <2>1. PICK c \in l.live : n = l.cells[c].name
    BY DEF Names
  <2>2. l.cells[c] \in Cell
    BY CellsAre
  <2>. QED
    BY <2>1, <2>2, <1>3 DEF Cell
<1>. QED
  BY <1>1, <1>2, <1>3, <1>4

LEMMA LiveIsFinite ==
    ASSUME NEW l, Linked(l)
    PROVE  /\ IsFiniteSet(l.live) /\ Cardinality(l.live) \in Nat
           /\ Cardinality(l.live) <= Len(l.cells)
<1>1. Len(l.cells) \in Nat /\ l.live \in SUBSET (1 .. Len(l.cells))
  BY CellsAre DEF Linked
<1>2. IsFiniteSet(1 .. Len(l.cells)) /\ Cardinality(1 .. Len(l.cells)) = Len(l.cells)
  BY <1>1, FS_Interval
<1>3. IsFiniteSet(l.live) /\ Cardinality(l.live) <= Len(l.cells)
  BY <1>1, <1>2, FS_Subset
<1>. QED
  BY <1>3, FS_CardinalityType

-----------------------------------------------------------------------------
(* add_variable: the shell stops at IFS; any other name gets a cell behind the last one. *)
LEMMA IfsStops ==
    ASSUME NEW l, NEW v
    PROVE  add_variable(l, "IFS", v) = [l EXCEPT !.alive = FALSE]
BY SMT DEF add_variable

LEMMA Added ==
    ASSUME NEW l, Linked(l), Len(l.cells) < MaxCells,
           NEW n \in Name, n # "IFS", n \notin Names(l), NEW v \in Value
    PROVE  LET t == add_variable(l, n, v)
           IN  /\ Linked(t) /\ t.alive = l.alive /\ Len(t.cells) = Len(l.cells) + 1
               /\ Names(t) = Names(l) \cup {n} /\ First(t) = First(l) /\ Newest(t) = n
               /\ EnvOf(t) = Map!Put(EnvOf(l), n, v)
<1>. DEFINE c == Len(l.cells) + 1
            item == [name |-> n, value |-> v, next |-> NULL, prev |-> l.tail]
            k == [l.cells EXCEPT ![l.tail].next = c]
            t == add_variable(l, n, v)
<1>1. /\ l.tail \in l.live /\ l.head \in l.live /\ l.tail # NULL /\ l.head # NULL
      /\ l.tail \in 1 .. Len(l.cells) /\ Len(l.cells) \in Nat
      /\ c \in Nat /\ c \in 0 .. MaxCells /\ l.tail \in 0 .. MaxCells
      /\ c \notin 1 .. Len(l.cells) /\ c \notin l.live
  BY CellsAre, NameFacts DEF Linked
<1>2. /\ l.cells \in Seq(Cell) /\ l.live \in SUBSET Nat /\ l.size \in Nat /\ l.alive \in BOOLEAN
      /\ l = [cells |-> l.cells, live |-> l.live, head |-> l.head, tail |-> l.tail,
              size |-> l.size, alive |-> l.alive]
  BY CellsAre DEF List
<1>3. t = [l EXCEPT !.cells = Append(k, item), !.live = @ \cup {c}, !.tail = c,
                    !.head = IF @ = NULL THEN c ELSE @, !.size = @ + 1]
  BY <1>1 DEF add_variable
<1>4. /\ t.cells = Append(k, item) /\ t.live = l.live \cup {c} /\ t.tail = c
      /\ t.head = l.head /\ t.size = l.size + 1 /\ t.alive = l.alive
  BY <1>1, <1>2, <1>3
<1>5. t = [cells |-> t.cells, live |-> t.live, head |-> t.head, tail |-> t.tail,
           size |-> t.size, alive |-> t.alive]
  BY <1>2, <1>3
<1>6. item \in Cell /\ item.name = n /\ item.value = v /\ item.next = NULL /\ item.prev = l.tail
  BY <1>1, NameFacts DEF Cell
<1>7. /\ k \in Seq(Cell) /\ Len(k) = Len(l.cells)
      /\ \A d \in 1 .. Len(l.cells) : d # l.tail => k[d] = l.cells[d]
      /\ k[l.tail] = [l.cells[l.tail] EXCEPT !.next = c]
  <2>1. [l.cells[l.tail] EXCEPT !.next = c] \in Cell
    <3>1. l.cells[l.tail] \in Cell
      BY <1>1, CellsAre
    <3>. QED
      BY <1>1, <3>1 DEF Cell
  <2>. QED
    BY <1>1, <1>2, <2>1
<1>. HIDE DEF k
<1>8. /\ k[l.tail].name = l.cells[l.tail].name /\ k[l.tail].value = l.cells[l.tail].value
      /\ k[l.tail].prev = l.cells[l.tail].prev /\ k[l.tail].next = c
  <2>1. l.cells[l.tail] \in Cell
    BY <1>1, CellsAre
  <2>. QED
    BY <1>1, <1>7, <2>1 DEF Cell
<1>. HIDE DEF t, item
<1>9. /\ t.cells \in Seq(Cell) /\ Len(t.cells) = Len(l.cells) + 1
      /\ \A d \in 1 .. Len(l.cells) : t.cells[d] = k[d]
      /\ t.cells[c] = item
  BY <1>1, <1>4, <1>6, <1>7
<1>. DEFINE g == t.cells
<1>10. /\ \A d \in l.live : /\ g[d].name = l.cells[d].name /\ g[d].value = l.cells[d].value
                            /\ g[d].prev = l.cells[d].prev
                            /\ g[d].next = IF d = l.tail THEN c ELSE l.cells[d].next
       /\ g[c].name = n /\ g[c].value = v /\ g[c].next = NULL /\ g[c].prev = l.tail
       /\ \A d \in 1 .. Len(l.cells) : d \notin l.live => g[d] = Freed
  <2>1. ASSUME NEW d \in l.live
        PROVE  /\ g[d].name = l.cells[d].name /\ g[d].value = l.cells[d].value
               /\ g[d].prev = l.cells[d].prev
               /\ g[d].next = IF d = l.tail THEN c ELSE l.cells[d].next
    <3>1. d \in 1 .. Len(l.cells) /\ g[d] = k[d]
      BY <1>9, CellsAre
    <3>. QED
      BY <3>1, <1>7, <1>8
  <2>2. g[c].name = n /\ g[c].value = v /\ g[c].next = NULL /\ g[c].prev = l.tail
    BY <1>6, <1>9
  <2>3. \A d \in 1 .. Len(l.cells) : d \notin l.live => g[d] = Freed
    BY <1>1, <1>7, <1>9, CellsAre
  <2>. QED
    BY <2>1, <2>2, <2>3
<1>11. t \in List
  <2>1. /\ t.cells \in Seq(Cell) /\ t.live \in SUBSET Nat /\ t.head \in Nat /\ t.tail \in Nat
        /\ t.size \in Nat /\ t.alive \in BOOLEAN
    BY <1>1, <1>2, <1>4, <1>9, CellsAre
  <2>. QED
    BY <2>1, <1>5 DEF List
<1>. HIDE DEF g, c
<1>12. \A d \in l.live : d \in Nat /\ d < c /\ l.head <= d /\ d <= l.tail
  BY <1>1, CellsAre DEF Linked, c
<1>13. Linked(t)
  <2>1. Len(t.cells) <= MaxCells /\ t.live \subseteq 1 .. Len(t.cells)
    BY <1>1, <1>4, <1>9 DEF Linked, c
  <2>2. /\ t.head \in t.live /\ g[t.head].prev = NULL
        /\ t.tail \in t.live /\ g[t.tail].next = NULL
    BY <1>1, <1>4, <1>10 DEF Linked
  <2>3. \A d \in t.live : t.head <= d /\ d <= t.tail
    BY <1>1, <1>4, <1>12
  <2>4. ASSUME NEW d \in t.live \ {t.tail}
        PROVE  /\ g[d].next \in t.live /\ g[d].next > d /\ g[g[d].next].prev = d
               /\ \A e \in t.live : e > d => e >= g[d].next
    <3>1. d \in l.live
      BY <1>4
    <3>2. CASE d = l.tail
      BY <3>1, <3>2, <1>1, <1>4, <1>10, <1>12
    <3>3. CASE d # l.tail
      <4>1. /\ l.cells[d].next \in l.live /\ l.cells[d].next > d
            /\ l.cells[l.cells[d].next].prev = d
            /\ \A e \in l.live : e > d => e >= l.cells[d].next
        BY <3>1, <3>3 DEF Linked
      <4>. QED
        BY <3>1, <3>3, <4>1, <1>1, <1>4, <1>10, <1>12
    <3>. QED
      BY <3>2, <3>3
  <2>5. ASSUME NEW d \in t.live \ {t.head}
        PROVE  g[d].prev \in t.live /\ g[d].prev < d /\ g[g[d].prev].next = d
    <3>1. CASE d = c
      BY <3>1, <1>1, <1>4, <1>10, <1>12
    <3>2. CASE d # c
      <4>1. d \in l.live /\ l.cells[d].prev \in l.live /\ l.cells[d].prev < d
            /\ l.cells[l.cells[d].prev].next = d
        BY <3>2, <1>4 DEF Linked
      <4>2. l.cells[d].prev # l.tail
        BY <4>1, <1>12, <1>1
      <4>. QED
        BY <4>1, <4>2, <1>4, <1>10
    <3>. QED
      BY <3>1, <3>2
  <2>6. \A d \in t.live : g[d].name \in Name
    BY <1>4, <1>10 DEF Linked
  <2>7. \A d, e \in t.live : g[d].name = g[e].name => d = e
    BY <1>4, <1>10 DEF Linked, Names
  <2>8. \A d \in 1 .. Len(t.cells) : d \notin t.live => g[d] = Freed
    BY <1>1, <1>4, <1>9, <1>10 DEF c
  <2>9. t.size = Cardinality(t.live)
    <3>1. IsFiniteSet(l.live) /\ l.size = Cardinality(l.live)
      BY LiveIsFinite DEF Linked
    <3>2. Cardinality(l.live \cup {c}) = Cardinality(l.live) + 1
      BY <3>1, <1>1, FS_AddElement DEF c
    <3>. QED
      BY <3>1, <3>2, <1>4
  <2>. QED
    BY <1>11, <2>1, <2>2, <2>3, <2>4, <2>5, <2>6, <2>7, <2>8, <2>9 DEF Linked, g
<1>a. /\ t.live = l.live \cup {c} /\ t.cells[c].name = n /\ t.cells[c].value = v
      /\ \A d \in l.live : /\ t.cells[d].name = l.cells[d].name
                           /\ t.cells[d].value = l.cells[d].value
  BY <1>4, <1>10 DEF g
<1>14. Names(t) = Names(l) \cup {n}
  <2>1. \A m \in Names(t) : m \in Names(l) \cup {n}
    BY <1>a DEF Names
  <2>2. \A m \in Names(l) \cup {n} : m \in Names(t)
    BY <1>a DEF Names
  <2>. QED
    BY <2>1, <2>2
<1>15. EnvOf(t) = Map!Put(EnvOf(l), n, v)
  <2>1. DOMAIN EnvOf(t) = DOMAIN EnvOf(l) \cup {n} /\ DOMAIN EnvOf(l) = Names(l)
    BY <1>13, <1>14, EnvAt
  <2>2. EnvOf(t)[n] = v
    BY <1>a, <1>13, EnvAt
  <2>3. \A m \in Names(l) : EnvOf(t)[m] = EnvOf(l)[m]
    <3>. SUFFICES ASSUME NEW d \in l.live
                  PROVE  EnvOf(t)[l.cells[d].name] = EnvOf(l)[l.cells[d].name]
      BY DEF Names
    <3>. QED
      BY <1>a, <1>13, EnvAt
  <2>4. EnvOf(t) = [m \in DOMAIN EnvOf(t) |-> EnvOf(t)[m]]
    BY DEF EnvOf
  <2>. QED
    BY <2>1, <2>2, <2>3, <2>4 DEF Map!Put
<1>16. First(t) = First(l) /\ Newest(t) = n
  BY <1>1, <1>4, <1>10 DEF First, Newest, g
<1>. QED
  BY <1>4, <1>9, <1>13, <1>14, <1>15, <1>16 DEF t

(* update_variable: another value in the cell of that name. *)
LEMMA Updated ==
    ASSUME NEW l, Linked(l), NEW n \in Names(l), NEW v \in Value
    PROVE  LET t == [l EXCEPT !.cells[get_variable(l, n)].value = v]
           IN  /\ Linked(t) /\ t.alive = l.alive /\ Len(t.cells) = Len(l.cells)
               /\ Names(t) = Names(l) /\ First(t) = First(l) /\ Newest(t) = Newest(l)
               /\ EnvOf(t) = Map!Put(EnvOf(l), n, v)
<1>. DEFINE c == get_variable(l, n)
            k == [l.cells EXCEPT ![c].value = v]
            t == [l EXCEPT !.cells[c].value = v]
<1>1. c \in l.live /\ l.cells[c].name = n /\ c \in 1 .. Len(l.cells)
  BY Found, CellsAre
<1>. HIDE DEF c
<1>2. /\ l.cells \in Seq(Cell) /\ l.live \in SUBSET Nat
      /\ l = [cells |-> l.cells, live |-> l.live, head |-> l.head, tail |-> l.tail,
              size |-> l.size, alive |-> l.alive]
      /\ l.head \in Nat /\ l.tail \in Nat /\ l.size \in Nat /\ l.alive \in BOOLEAN
  BY CellsAre DEF List
<1>3. /\ t.cells = k /\ t.live = l.live /\ t.tail = l.tail
      /\ t.head = l.head /\ t.size = l.size /\ t.alive = l.alive
  <2>1. l \in List
    BY CellsAre
  <2>2. t.cells = k
    BY <2>1 DEF List
  <2>. QED
    BY <2>1, <2>2 DEF List
<1>4. t = [l EXCEPT !.cells = k]
  BY CellsAre DEF List
<1>5. /\ k \in Seq(Cell) /\ Len(k) = Len(l.cells)
      /\ \A d \in 1 .. Len(l.cells) : d # c => k[d] = l.cells[d]
      /\ k[c] = [l.cells[c] EXCEPT !.value = v]
  <2>1. [l.cells[c] EXCEPT !.value = v] \in Cell
    <3>1. l.cells[c] \in Cell
      BY <1>1, CellsAre
    <3>. QED
      BY <3>1 DEF Cell
  <2>. QED
    BY <1>1, <1>2, <2>1
<1>. HIDE DEF t, k
<1>6. /\ k[c].name = n /\ k[c].value = v
      /\ k[c].prev = l.cells[c].prev /\ k[c].next = l.cells[c].next
  <2>1. l.cells[c] \in Cell
    BY <1>1, CellsAre
  <2>. QED
    BY <1>1, <1>5, <2>1 DEF Cell
<1>7. /\ \A d \in l.live : /\ k[d].name = l.cells[d].name
                           /\ k[d].prev = l.cells[d].prev /\ k[d].next = l.cells[d].next
                           /\ d # c => k[d].value = l.cells[d].value
      /\ \A d \in 1 .. Len(l.cells) : d \notin l.live => k[d] = Freed
  <2>1. \A d \in l.live : d # c => k[d] = l.cells[d]
    BY <1>5, CellsAre
  <2>2. \A d \in 1 .. Len(l.cells) : d \notin l.live => d # c /\ l.cells[d] = Freed
    BY <1>1, CellsAre
  <2>. QED
    BY <1>1, <1>5, <1>6, <2>1, <2>2
<1>8. t \in List
  <2>1. l \in List
    BY CellsAre
  <2>. QED
    BY <2>1, <1>4, <1>5 DEF List
<1>9. Linked(t)
  <2>1. Len(k) <= MaxCells /\ l.live \subseteq 1 .. Len(k)
    BY <1>5 DEF Linked
  <2>2. /\ l.head \in l.live /\ k[l.head].prev = NULL
        /\ l.tail \in l.live /\ k[l.tail].next = NULL
    BY <1>7 DEF Linked
  <2>3. \A d \in l.live : l.head <= d /\ d <= l.tail
    BY DEF Linked
  <2>4. ASSUME NEW d \in l.live \ {l.tail}
        PROVE  /\ k[d].next \in l.live /\ k[d].next > d /\ k[k[d].next].prev = d
               /\ \A e \in l.live : e > d => e >= k[d].next
    <3>1. /\ l.cells[d].next \in l.live /\ l.cells[d].next > d
          /\ l.cells[l.cells[d].next].prev = d
          /\ \A e \in l.live : e > d => e >= l.cells[d].next
      BY DEF Linked
    <3>. QED
      BY <1>7, <3>1
  <2>5. ASSUME NEW d \in l.live \ {l.head}
        PROVE  k[d].prev \in l.live /\ k[d].prev < d /\ k[k[d].prev].next = d
    <3>1. /\ l.cells[d].prev \in l.live /\ l.cells[d].prev < d
          /\ l.cells[l.cells[d].prev].next = d
      BY DEF Linked
    <3>. QED
      BY <1>7, <3>1
  <2>6. \A d \in l.live : k[d].name \in Name
    BY <1>7 DEF Linked
  <2>7. \A d, e \in l.live : k[d].name = k[e].name => d = e
    BY <1>7 DEF Linked
  <2>8. \A d \in 1 .. Len(k) : d \notin l.live => k[d] = Freed
    BY <1>5, <1>7
  <2>9. l.size = Cardinality(l.live)
    BY DEF Linked
  <2>. QED
    BY <1>3, <1>8, <2>1, <2>2, <2>3, <2>4, <2>5, <2>6, <2>7, <2>8, <2>9 DEF Linked
<1>10. Names(t) = Names(l)
  BY <1>3, <1>7 DEF Names
<1>11. EnvOf(t) = Map!Put(EnvOf(l), n, v)
  <2>1. DOMAIN EnvOf(t) = DOMAIN EnvOf(l) \cup {n} /\ DOMAIN EnvOf(l) = Names(l)
    BY <1>9, <1>10, EnvAt
  <2>2. EnvOf(t)[n] = v
    BY <1>1, <1>3, <1>6, <1>9, EnvAt
  <2>3. \A m \in Names(l) : m # n => EnvOf(t)[m] = EnvOf(l)[m]
    <3>. SUFFICES ASSUME NEW d \in l.live, l.cells[d].name # n
                  PROVE  EnvOf(t)[l.cells[d].name] = EnvOf(l)[l.cells[d].name]
      BY DEF Names
    <3>. QED
      BY <1>1, <1>3, <1>7, <1>9, EnvAt
  <2>4. EnvOf(t) = [m \in DOMAIN EnvOf(t) |-> EnvOf(t)[m]]
    BY DEF EnvOf
  <2>. QED
    BY <2>1, <2>2, <2>3, <2>4 DEF Map!Put
<1>12. First(t) = First(l) /\ Newest(t) = Newest(l)
  <2>1. l.head \in l.live /\ l.tail \in l.live
    BY DEF Linked
  <2>. QED
    BY <2>1, <1>3, <1>7 DEF First, Newest
<1>. QED
  BY <1>3, <1>5, <1>9, <1>10, <1>11, <1>12 DEF t, c

(* SetVariable: the map with that name and that value, whether it was there or not. *)
LEMMA SetPuts ==
    ASSUME NEW l, Linked(l), NEW n \in Name, NEW v \in Value,
           n \in Names(l) \/ (n # "IFS" /\ Len(l.cells) < MaxCells)
    PROVE  LET t == SetVariable(l, n, v)
           IN  /\ Linked(t) /\ t.alive = l.alive /\ Names(t) = Names(l) \cup {n}
               /\ EnvOf(t) = Map!Put(EnvOf(l), n, v)
               /\ Len(t.cells) = IF n \in Names(l) THEN Len(l.cells) ELSE Len(l.cells) + 1
               /\ First(t) = First(l)
               /\ Newest(t) = IF n \in Names(l) THEN Newest(l) ELSE n
<1>1. CASE n \in Names(l)
  <2>1. SetVariable(l, n, v) = [l EXCEPT !.cells[get_variable(l, n)].value = v]
    BY <1>1, Found DEF SetVariable
  <2>. QED
    BY <1>1, <2>1, Updated
<1>2. CASE n \notin Names(l)
  <2>1. SetVariable(l, n, v) = add_variable(l, n, v)
    BY <1>2, Found DEF SetVariable
  <2>. QED
    BY <1>2, <2>1, Added
<1>. QED
  BY <1>1, <1>2

-----------------------------------------------------------------------------
(* What the removal of a set of names leaves of a list: a list without them, or, when the
   first or the newest is among them, one that says that the shell has stopped. *)
Remains(t, l, S) ==
    /\ Linked(t) /\ Len(t.cells) = Len(l.cells)
    /\ First(t) = First(l) /\ Newest(t) = Newest(l)
    /\ t.alive <=> l.alive /\ First(l) \notin S /\ Newest(l) \notin S
    /\ t.alive => /\ Names(t) = Names(l) \ S
                  /\ \A m \in Names(t) : EnvOf(t)[m] = EnvOf(l)[m]

LEMMA Killed ==
    ASSUME NEW l, Linked(l)
    PROVE  LET t == [l EXCEPT !.alive = FALSE]
           IN  /\ Linked(t) /\ Len(t.cells) = Len(l.cells) /\ t.alive = FALSE
               /\ First(t) = First(l) /\ Newest(t) = Newest(l)
<1>. DEFINE t == [l EXCEPT !.alive = FALSE]
<1>1. /\ t.cells = l.cells /\ t.live = l.live /\ t.head = l.head /\ t.tail = l.tail
      /\ t.size = l.size /\ t.alive = FALSE /\ t \in List
  <2>1. l \in List
    BY CellsAre
  <2>2. t \in List
    BY <2>1 DEF List
  <2>. QED
    BY <2>1, <2>2 DEF List
<1>. HIDE DEF t
<1>2. Linked(t)
  BY <1>1 DEF Linked
<1>. QED
  BY <1>1, <1>2 DEF First, Newest, t

(* remove_variable: the neighbours of the cell are linked to each other, or the shell
   stops at the cell that has none on one side. *)
LEMMA Removed ==
    ASSUME NEW l, Linked(l), l.alive, NEW n
    PROVE  Remains(remove_variable(l, n), l, {n})
<1>. DEFINE c == get_variable(l, n)
            p == l.cells[c].prev
            x == l.cells[c].next
            t == remove_variable(l, n)
<1>0. First(l) \in Names(l) /\ Newest(l) \in Names(l)
  BY DEF Linked, First, Newest, Names
<1>1. CASE n \notin Names(l)
  <2>1. t = l
    BY <1>1, Found DEF remove_variable
  <2>2. Names(l) = Names(l) \ {n} /\ First(l) \notin {n} /\ Newest(l) \notin {n}
    BY <1>0, <1>1
  <2>. QED
    BY <2>1, <2>2 DEF Remains
<1>a. n \in Names(l) => /\ c \in l.live /\ c # NULL /\ l.cells[c].name = n
                        /\ p = NULL <=> First(l) = n
                        /\ x = NULL <=> Newest(l) = n
  <2>. SUFFICES ASSUME n \in Names(l)
                PROVE  /\ c \in l.live /\ c # NULL /\ l.cells[c].name = n
                       /\ p = NULL <=> First(l) = n
                       /\ x = NULL <=> Newest(l) = n
    OBVIOUS
  <2>1. c \in l.live /\ c # NULL /\ l.cells[c].name = n
    BY Found, CellsAre
  <2>2. (p = NULL <=> c = l.head) /\ (x = NULL <=> c = l.tail)
    BY <2>1, CellsAre
  <2>3. /\ l.head \in l.live /\ l.tail \in l.live
        /\ \A d \in l.live : l.cells[d].name = l.cells[c].name => d = c
    BY <2>1 DEF Linked
  <2>. HIDE DEF c
  <2>. QED
    BY <2>1, <2>2, <2>3 DEF First, Newest
<1>2. CASE n \in Names(l) /\ (p = NULL \/ x = NULL)
  <2>1. c # NULL /\ (First(l) = n \/ Newest(l) = n)
    BY <1>2, <1>a
  <2>2. t = [l EXCEPT !.alive = FALSE]
    BY <1>2, <2>1 DEF remove_variable
  <2>3. /\ Linked(t) /\ Len(t.cells) = Len(l.cells) /\ t.alive = FALSE
        /\ First(t) = First(l) /\ Newest(t) = Newest(l)
    BY <2>2, Killed
  <2>. HIDE DEF t
  <2>4. Remains(t, l, {n})
    BY <2>1, <2>3 DEF Remains
  <2>. QED
    BY <2>4 DEF t
<1>3. CASE n \in Names(l) /\ p # NULL /\ x # NULL
  <2>. DEFINE k1 == [l.cells EXCEPT ![p].next = x]
              k2 == [k1 EXCEPT ![x].prev = p]
              k == [k2 EXCEPT ![c] = Freed]
  <2>1. c \in l.live /\ c # NULL /\ l.cells[c].name = n /\ c # l.head /\ c # l.tail
    BY <1>3, Found, CellsAre
  <2>2. t = [l EXCEPT !.cells[p].next = x, !.cells[x].prev = p,
                      !.cells[c] = Freed, !.live = @ \ {c}, !.size = @ - 1]
    BY <1>3, <2>1 DEF remove_variable
  <2>. HIDE DEF c
  <2>3. /\ p \in l.live /\ p < c /\ l.cells[p].next = c
        /\ x \in l.live /\ x > c /\ l.cells[x].prev = c
        /\ \A e \in l.live : e > c => e >= x
    BY <2>1 DEF Linked
  <2>. HIDE DEF p, x
  <2>4. /\ l.cells \in Seq(Cell) /\ l.live \in SUBSET Nat
        /\ l = [cells |-> l.cells, live |-> l.live, head |-> l.head, tail |-> l.tail,
                size |-> l.size, alive |-> l.alive]
        /\ l.head \in Nat /\ l.tail \in Nat /\ l.size \in Nat /\ l.alive \in BOOLEAN
    BY CellsAre DEF List
  <2>5. /\ t.cells = k /\ t.live = l.live \ {c} /\ t.tail = l.tail
        /\ t.head = l.head /\ t.size = l.size - 1 /\ t.alive = l.alive
        /\ t = [cells |-> t.cells, live |-> t.live, head |-> t.head, tail |-> t.tail,
                size |-> t.size, alive |-> t.alive]
    BY <2>2, <2>4
  <2>. HIDE DEF t
  <2>6. /\ p \in 1 .. Len(l.cells) /\ x \in 1 .. Len(l.cells) /\ c \in 1 .. Len(l.cells)
        /\ p \in 0 .. MaxCells /\ x \in 0 .. MaxCells /\ Len(l.cells) \in Nat
        /\ p # x /\ p # c /\ x # c
        /\ l.cells[p] \in Cell /\ l.cells[x] \in Cell
    <3>1. /\ p \in 1 .. Len(l.cells) /\ x \in 1 .. Len(l.cells) /\ c \in 1 .. Len(l.cells)
          /\ Len(l.cells) \in Nat /\ l.cells[p] \in Cell /\ l.cells[x] \in Cell
      BY <2>1, <2>3, CellsAre
    <3>2. Len(l.cells) <= MaxCells
      BY DEF Linked
    <3>. QED
      BY <2>3, <3>1, <3>2, NameFacts
  <2>7. /\ k1 \in Seq(Cell) /\ Len(k1) = Len(l.cells)
        /\ \A d \in 1 .. Len(l.cells) : d # p => k1[d] = l.cells[d]
        /\ k1[p] = [l.cells[p] EXCEPT !.next = x]
    <3>1. [l.cells[p] EXCEPT !.next = x] \in Cell
      BY <2>6 DEF Cell
    <3>. QED
      BY <2>4, <2>6, <3>1
  <2>. HIDE DEF k1
  <2>8. /\ k2 \in Seq(Cell) /\ Len(k2) = Len(l.cells)
        /\ \A d \in 1 .. Len(l.cells) : d # x => k2[d] = k1[d]
        /\ k2[x] = [k1[x] EXCEPT !.prev = p]
    <3>1. [k1[x] EXCEPT !.prev = p] \in Cell
      BY <2>6, <2>7 DEF Cell
    <3>. QED
      BY <2>6, <2>7, <3>1
  <2>. HIDE DEF k2
  <2>9. /\ k \in Seq(Cell) /\ Len(k) = Len(l.cells)
        /\ \A d \in 1 .. Len(l.cells) : d # c => k[d] = k2[d]
        /\ k[c] = Freed
    <3>1. Freed \in Cell
      BY FreedIs
    <3>. QED
      BY <2>6, <2>8, <3>1
  <2>. HIDE DEF k
  <2>10. /\ k[p] = [l.cells[p] EXCEPT !.next = x] /\ k[x] = [l.cells[x] EXCEPT !.prev = p]
         /\ \A d \in 1 .. Len(l.cells) : d \notin {p, x, c} => k[d] = l.cells[d]
    BY <2>6, <2>7, <2>8, <2>9
  <2>11. /\ \A d \in l.live \ {c} : /\ k[d].name = l.cells[d].name
                                    /\ k[d].value = l.cells[d].value
                                    /\ k[d].next = IF d = p THEN x ELSE l.cells[d].next
                                    /\ k[d].prev = IF d = x THEN p ELSE l.cells[d].prev
         /\ \A d \in 1 .. Len(l.cells) : d \notin l.live \ {c} => k[d] = Freed
    <3>1. /\ k[p].name = l.cells[p].name /\ k[p].value = l.cells[p].value
          /\ k[p].next = x /\ k[p].prev = l.cells[p].prev
      <4>1. k[p] = [l.cells[p] EXCEPT !.next = x] /\ l.cells[p] \in Cell
        BY <2>6, <2>10
      <4>. QED
        BY <4>1 DEF Cell
    <3>2. /\ k[x].name = l.cells[x].name /\ k[x].value = l.cells[x].value
          /\ k[x].next = l.cells[x].next /\ k[x].prev = p
      <4>1. k[x] = [l.cells[x] EXCEPT !.prev = p] /\ l.cells[x] \in Cell
        BY <2>6, <2>10
      <4>. QED
        BY <4>1 DEF Cell
    <3>3. ASSUME NEW d \in l.live \ {c}
          PROVE  /\ k[d].name = l.cells[d].name
                 /\ k[d].value = l.cells[d].value
                 /\ k[d].next = IF d = p THEN x ELSE l.cells[d].next
                 /\ k[d].prev = IF d = x THEN p ELSE l.cells[d].prev
      <4>1. CASE d \in {p, x}
        BY <4>1, <3>1, <3>2, <2>6
      <4>2. CASE d \notin {p, x}
        BY <4>2, <2>10, CellsAre
      <4>. QED
        BY <4>1, <4>2
    <3>4. ASSUME NEW d \in 1 .. Len(l.cells), d \notin l.live \ {c}
          PROVE  k[d] = Freed
      BY <3>4, <2>3, <2>9, <2>10, CellsAre
    <3>. QED
      BY <3>3, <3>4
  <2>12. t \in List
    <3>1. l.size - 1 \in Nat
      <4>1. IsFiniteSet(l.live) /\ l.size = Cardinality(l.live)
        BY LiveIsFinite DEF Linked
      <4>2. l.size - 1 = Cardinality(l.live \ {c}) /\ IsFiniteSet(l.live \ {c})
        BY <4>1, <2>1, FS_RemoveElement
      <4>. QED
        BY <4>2, FS_CardinalityType
    <3>. QED
      BY <3>1, <2>4, <2>5, <2>9 DEF List
  <2>. DEFINE L == l.live \ {c}
  <2>13. Linked(t)
    <3>1. Len(k) <= MaxCells /\ L \subseteq 1 .. Len(k)
      BY <2>9 DEF Linked
    <3>2. /\ l.head \in L /\ k[l.head].prev = NULL
          /\ l.tail \in L /\ k[l.tail].next = NULL
      <4>1. l.head \in L /\ l.tail \in L
        BY <2>1 DEF Linked
      <4>2. l.head # x /\ l.tail # p
        BY <2>3, <2>6, CellsAre, NameFacts
      <4>. QED
        BY <4>1, <4>2, <2>11 DEF Linked
    <3>3. \A d \in L : l.head <= d /\ d <= l.tail
      BY DEF Linked
    <3>4. ASSUME NEW d \in L \ {l.tail}
          PROVE  /\ k[d].next \in L /\ k[d].next > d /\ k[k[d].next].prev = d
                 /\ \A e \in L : e > d => e >= k[d].next
      <4>1. /\ l.cells[d].next \in l.live /\ l.cells[d].next > d
            /\ l.cells[l.cells[d].next].prev = d
            /\ \A e \in l.live : e > d => e >= l.cells[d].next
        BY DEF Linked
      <4>2. CASE d = p
        BY <4>1, <4>2, <2>3, <2>6, <2>11, CellsAre
      <4>3. CASE d # p
        <5>1. l.cells[d].next # c
          <6>. SUFFICES ASSUME l.cells[d].next = c
                        PROVE  d = p
            BY <4>3
          <6>. QED
            BY <4>1 DEF p
        <5>2. l.cells[d].next # x
          BY <4>1, <2>3
        <5>. QED
          BY <4>1, <4>3, <5>1, <5>2, <2>11
      <4>. QED
        BY <4>2, <4>3
    <3>5. ASSUME NEW d \in L \ {l.head}
          PROVE  k[d].prev \in L /\ k[d].prev < d /\ k[k[d].prev].next = d
      <4>1. /\ l.cells[d].prev \in l.live /\ l.cells[d].prev < d
            /\ l.cells[l.cells[d].prev].next = d
        BY DEF Linked
      <4>2. CASE d = x
        BY <4>1, <4>2, <2>3, <2>6, <2>11, CellsAre
      <4>3. CASE d # x
        <5>1. l.cells[d].prev # c /\ l.cells[d].prev # p
          BY <4>1, <4>3, <2>3 DEF x
        <5>. QED
          BY <4>1, <4>3, <5>1, <2>11
      <4>. QED
        BY <4>2, <4>3
    <3>6. \A d \in L : k[d].name \in Name
      BY <2>11 DEF Linked
    <3>7. \A d, e \in L : k[d].name = k[e].name => d = e
      BY <2>11 DEF Linked
    <3>8. \A d \in 1 .. Len(k) : d \notin L => k[d] = Freed
      BY <2>9, <2>11
    <3>9. l.size - 1 = Cardinality(L)
      <4>1. IsFiniteSet(l.live) /\ l.size = Cardinality(l.live)
        BY LiveIsFinite DEF Linked
      <4>. QED
        BY <4>1, <2>1, FS_RemoveElement
    <3>. QED
      BY <2>5, <2>12, <3>1, <3>2, <3>3, <3>4, <3>5, <3>6, <3>7, <3>8, <3>9 DEF Linked
  <2>14. Names(t) = Names(l) \ {n}
    <3>1. \A d \in l.live : l.cells[d].name = n => d = c
      BY <2>1 DEF Linked
    <3>2. \A m \in Names(t) : m \in Names(l) \ {n}
      BY <3>1, <2>5, <2>11 DEF Names
    <3>3. \A m \in Names(l) \ {n} : m \in Names(t)
      BY <2>1, <2>5, <2>11 DEF Names
    <3>. QED
      BY <3>2, <3>3
  <2>15. ASSUME NEW m \in Names(t)
         PROVE  EnvOf(t)[m] = EnvOf(l)[m]
    <3>1. PICK d \in L : m = l.cells[d].name /\ m = k[d].name /\ k[d].value = l.cells[d].value
      BY <2>5, <2>11 DEF Names
    <3>. QED
      <4>1. d \in t.live /\ t.cells[d].name = m /\ t.cells[d].value = l.cells[d].value
        BY <3>1, <2>5
      <4>2. EnvOf(t)[m] = t.cells[d].value
        BY <4>1, <2>13, EnvAt
      <4>3. EnvOf(l)[m] = l.cells[d].value
        <5>1. EnvOf(l)[l.cells[d].name] = l.cells[d].value
          BY EnvAt
        <5>. QED
          BY <3>1, <5>1
      <4>. QED
        BY <4>1, <4>2, <4>3
  <2>16. First(t) = First(l) /\ Newest(t) = Newest(l)
    <3>1. l.head \in L /\ l.tail \in L
      BY <2>1 DEF Linked
    <3>. QED
      BY <3>1, <2>5, <2>11 DEF First, Newest
  <2>17. First(l) \notin {n} /\ Newest(l) \notin {n}
    BY <1>3, <1>a
  <2>. HIDE DEF L
  <2>. QED
    BY <2>5, <2>9, <2>13, <2>14, <2>15, <2>16, <2>17 DEF Remains, t
<1>. QED
  BY <1>1, <1>2, <1>3

(* my_unset: a step of its loop, and the loop over the arguments of the model. *)
Step(l, n) == IF l.alive THEN remove_variable(l, n) ELSE l
LoopEq(f, l, args) == f = [k \in 0 .. Len(args) |->
    IF k = 0 THEN l
    ELSE IF f[k - 1].alive THEN remove_variable(f[k - 1], args[k]) ELSE f[k - 1]]

LEMMA StepRemains ==
    ASSUME NEW l, Linked(l), NEW S, NEW t, Remains(t, l, S), NEW n
    PROVE  Remains(Step(t, n), l, S \cup {n})
<1>1. CASE ~t.alive
  <2>1. Step(t, n) = t
    BY <1>1 DEF Step
  <2>. QED
    BY <1>1, <2>1 DEF Remains
<1>2. CASE t.alive
  <2>. DEFINE u == remove_variable(t, n)
  <2>1. Step(t, n) = u
    BY <1>2 DEF Step
  <2>2. Linked(t)
    BY DEF Remains
  <2>3. Remains(u, t, {n})
    BY <1>2, <2>2, Removed
  <2>. HIDE DEF u
  <2>4. Names(t) = Names(l) \ S /\ (u.alive => Names(u) = Names(t) \ {n})
    BY <1>2, <2>3 DEF Remains
  <2>5. u.alive => Names(u) = Names(l) \ (S \cup {n})
    BY <2>4
  <2>6. u.alive => \A m \in Names(u) : EnvOf(u)[m] = EnvOf(l)[m]
    BY <1>2, <2>3, <2>4 DEF Remains
  <2>. QED
    BY <1>2, <2>1, <2>3, <2>5, <2>6 DEF Remains
<1>. QED
  BY <1>1, <1>2

Words(args) == {args[i] : i \in DOMAIN args}

LEMMA AllRemoved ==
    ASSUME NEW l, Linked(l), l.alive, NEW T, NEW args \in Seq(T), Len(args) \in 1 .. 2
    PROVE  Remains(RemoveAll(l, args), l, Words(args))
<1>. DEFINE one == Step(l, args[1])
            two == Step(one, args[2])
            W == [k \in 0 .. Len(args) |-> IF k = 0 THEN l ELSE IF k = 1 THEN one ELSE two]
<1>1. Len(args) \in Nat /\ Len(args) \in {1, 2}
  OBVIOUS
<1>2. \E f : LoopEq(f, l, args)
  <2>1. \A k \in 0 .. Len(args) : W[k] = IF k = 0 THEN l ELSE IF k = 1 THEN one ELSE two
    OBVIOUS
  <2>2. W = [k \in 0 .. Len(args) |-> W[k]]
    OBVIOUS
  <2>. HIDE DEF W
  <2>3. ASSUME NEW k \in 0 .. Len(args)
        PROVE  W[k] = IF k = 0 THEN l
                      ELSE IF W[k - 1].alive THEN remove_variable(W[k - 1], args[k])
                      ELSE W[k - 1]
    <3>1. CASE k = 0
      BY <3>1, <2>1
    <3>2. CASE k = 1
      <4>1. W[k] = one /\ W[k - 1] = l
        BY <3>2, <2>1, <1>1
      <4>. QED
        BY <3>2, <4>1 DEF Step
    <3>3. CASE k = 2
      <4>1. W[k] = two /\ W[k - 1] = one
        BY <3>3, <2>1, <1>1
      <4>. HIDE DEF one
      <4>. QED
        BY <3>3, <4>1 DEF Step
    <3>4. k = 0 \/ k = 1 \/ k = 2
      <4>1. \A m \in {1, 2} : \A j \in 0 .. m : j = 0 \/ j = 1 \/ j = 2
        OBVIOUS
      <4>. QED
        BY <4>1, <1>1, Zenon
    <3>. QED
      BY <3>1, <3>2, <3>3, <3>4
  <2>4. LoopEq(W, l, args)
    BY <2>2, <2>3, Zenon DEF LoopEq
  <2>. QED
    BY <2>4, Zenon
<1>3. PICK f : LoopEq(f, l, args) /\ RemoveAll(l, args) = f[Len(args)]
  <2>1. LoopEq(CHOOSE f : LoopEq(f, l, args), l, args)
    BY <1>2, Zenon
  <2>2. RemoveAll(l, args) = (CHOOSE f : LoopEq(f, l, args))[Len(args)]
    BY Zenon DEF RemoveAll, LoopEq
  <2>. QED
    BY <2>1, <2>2, Zenon
<1>4. \A k \in 0 .. Len(args) : f[k] = IF k = 0 THEN l ELSE Step(f[k - 1], args[k])
  BY <1>3, Zenon DEF LoopEq, Step
<1>5. f[0] = l /\ f[1] = Step(f[0], args[1]) /\ (Len(args) = 2 => f[2] = Step(f[1], args[2]))
  BY <1>1, <1>4
<1>6. Remains(f[0], l, {})
  BY <1>5 DEF Remains
<1>7. Remains(f[1], l, {args[1]})
  <2>1. Remains(Step(f[0], args[1]), l, {} \cup {args[1]})
    BY <1>6, StepRemains
  <2>2. {} \cup {args[1]} = {args[1]}
    OBVIOUS
  <2>. QED
    BY <1>5, <2>1, <2>2
<1>8. Len(args) = 2 => Remains(f[2], l, {args[1]} \cup {args[2]})
  BY <1>5, <1>7, StepRemains
<1>9. Words(args) = IF Len(args) = 2 THEN {args[1]} \cup {args[2]} ELSE {args[1]}
  <2>1. DOMAIN args = IF Len(args) = 2 THEN {1, 2} ELSE {1}
    BY <1>1
  <2>. QED
    BY <2>1 DEF Words
<1>. QED
  BY <1>1, <1>3, <1>7, <1>8, <1>9

-----------------------------------------------------------------------------
(* init_variables_list: one cell, and three more behind it. *)
LEMMA FirstCell ==
    LET z == add_variable(EmptyList, "0", "42sh")
    IN  /\ Linked(z) /\ z.alive = TRUE /\ Len(z.cells) = 1 /\ Names(z) = {"0"}
        /\ First(z) = "0"
        /\ EnvOf(z) = Map!Put(Map!NoVariables, "0", "42sh")
<1>. DEFINE z == add_variable(EmptyList, "0", "42sh")
            item == [name |-> "0", value |-> "42sh", next |-> NULL, prev |-> NULL]
<1>1. /\ EmptyList.cells = << >> /\ EmptyList.live = {} /\ EmptyList.head = NULL
      /\ EmptyList.tail = NULL /\ EmptyList.size = 0 /\ EmptyList.alive = TRUE
      /\ EmptyList \in List
  BY NameFacts DEF EmptyList, List
<1>2. z = [EmptyList EXCEPT !.cells = Append(<< >>, item), !.live = @ \cup {1}, !.tail = 1,
                            !.head = IF @ = NULL THEN 1 ELSE @, !.size = @ + 1]
  BY <1>1 DEF add_variable
<1>3. item \in Cell /\ item.name = "0" /\ item.value = "42sh"
      /\ item.next = NULL /\ item.prev = NULL
  BY NameFacts DEF Cell, Value
<1>. HIDE DEF item
<1>4. /\ z.cells = <<item>> /\ z.live = {1} /\ z.head = 1 /\ z.tail = 1 /\ z.size = 1
      /\ z.alive = TRUE /\ z \in List
  <2>1. Append(<< >>, item) = <<item>> /\ <<item>> \in Seq(Cell)
    BY <1>3
  <2>2. z = [EmptyList EXCEPT !.cells = <<item>>, !.live = {1}, !.tail = 1, !.head = 1,
                              !.size = 1]
    BY <1>1, <1>2, <2>1
  <2>. HIDE DEF z
  <2>3. z = [cells |-> <<item>>, live |-> {1}, head |-> 1, tail |-> 1, size |-> 1,
             alive |-> TRUE]
    BY <1>1, <2>2 DEF EmptyList
  <2>. QED
    BY <2>1, <2>3 DEF List
<1>. HIDE DEF z
<1>5. Len(z.cells) = 1 /\ z.cells[1] = item
  BY <1>4
<1>6. Linked(z)
  <2>1. z.size = Cardinality(z.live)
    BY <1>4, FS_Singleton
  <2>. QED
    BY <1>3, <1>4, <1>5, <2>1, NameFacts, VariablesAssumption DEF Linked
<1>7. Names(z) = {"0"}
  BY <1>3, <1>4, <1>5 DEF Names
<1>8. EnvOf(z) = Map!Put(Map!NoVariables, "0", "42sh")
  <2>1. DOMAIN EnvOf(z) = {"0"} /\ EnvOf(z)["0"] = "42sh"
    <3>1. 1 \in z.live /\ z.cells[1].name = "0" /\ z.cells[1].value = "42sh"
      BY <1>3, <1>4, <1>5
    <3>. QED
      BY <3>1, <1>6, <1>7, EnvAt
  <2>2. EnvOf(z) = [m \in DOMAIN EnvOf(z) |-> EnvOf(z)[m]]
    BY DEF EnvOf
  <2>. QED
    BY <2>1, <2>2 DEF Map!Put, Map!NoVariables
<1>9. First(z) = "0"
  BY <1>3, <1>4, <1>5 DEF First
<1>. QED
  BY <1>4, <1>5, <1>6, <1>7, <1>8, <1>9 DEF z

LEMMA FourCells ==
    ASSUME NEW u \in Value, NEW v \in Value, NEW w \in Value
    PROVE  LET a == add_variable(EmptyList, "0", "42sh")
               b == add_variable(a, "?", u)
               c == add_variable(b, "OLDPWD", v)
               d == add_variable(c, "PWD", w)
           IN  /\ Linked(d) /\ d.alive = TRUE /\ First(d) = "0" /\ Newest(d) = "PWD"
               /\ EnvOf(d) = Map!Put(Map!Put(Map!Put(Map!Put(Map!NoVariables,
                                 "0", "42sh"), "?", u), "OLDPWD", v), "PWD", w)
               /\ EnvOf(d)["PWD"] = w
<1>. DEFINE a == add_variable(EmptyList, "0", "42sh")
            b == add_variable(a, "?", u)
            c == add_variable(b, "OLDPWD", v)
            d == add_variable(c, "PWD", w)
<1>1. /\ Linked(a) /\ a.alive = TRUE /\ Len(a.cells) = 1 /\ Names(a) = {"0"} /\ First(a) = "0"
      /\ EnvOf(a) = Map!Put(Map!NoVariables, "0", "42sh")
  BY FirstCell
<1>. HIDE DEF a
<1>2. /\ Linked(b) /\ b.alive = TRUE /\ Len(b.cells) = 2 /\ Names(b) = {"0"} \cup {"?"}
      /\ First(b) = "0"
      /\ EnvOf(b) = Map!Put(EnvOf(a), "?", u)
  <2>0. "?" \in Name
    BY NameFacts
  <2>1. "?" \notin Names(a) /\ "?" # "IFS" /\ Len(a.cells) < MaxCells
    BY <1>1, VariablesAssumption
  <2>2. /\ Linked(b) /\ b.alive = a.alive /\ Len(b.cells) = Len(a.cells) + 1
        /\ Names(b) = Names(a) \cup {"?"} /\ First(b) = First(a)
        /\ EnvOf(b) = Map!Put(EnvOf(a), "?", u)
    BY <1>1, <2>0, <2>1, Added, Zenon
  <2>. QED
    BY <1>1, <2>2
<1>. HIDE DEF b
<1>3. /\ Linked(c) /\ c.alive = TRUE /\ Len(c.cells) = 3 /\ First(c) = "0"
      /\ Names(c) = ({"0"} \cup {"?"}) \cup {"OLDPWD"}
      /\ EnvOf(c) = Map!Put(EnvOf(b), "OLDPWD", v)
  <2>a. Linked(b)
    BY <1>2
  <2>0. "OLDPWD" \in Name
    BY NameFacts
  <2>1. "OLDPWD" \notin Names(b) /\ "OLDPWD" # "IFS" /\ Len(b.cells) < MaxCells
    BY <1>2, VariablesAssumption
  <2>2. /\ Linked(c) /\ c.alive = b.alive /\ Len(c.cells) = Len(b.cells) + 1
        /\ Names(c) = Names(b) \cup {"OLDPWD"} /\ First(c) = First(b)
        /\ EnvOf(c) = Map!Put(EnvOf(b), "OLDPWD", v)
    BY <2>a, <2>0, <2>1, Added, Zenon
  <2>. QED
    BY <1>2, <2>2
<1>. HIDE DEF c
<1>4. /\ Linked(d) /\ d.alive = TRUE /\ EnvOf(d) = Map!Put(EnvOf(c), "PWD", w)
      /\ First(d) = "0" /\ Newest(d) = "PWD"
  <2>a. Linked(c)
    BY <1>3
  <2>0. "PWD" \in Name
    BY NameFacts
  <2>1. "PWD" \notin Names(c) /\ "PWD" # "IFS" /\ Len(c.cells) < MaxCells
    BY <1>3, VariablesAssumption
  <2>2. /\ Linked(d) /\ d.alive = c.alive /\ Len(d.cells) = Len(c.cells) + 1
        /\ Names(d) = Names(c) \cup {"PWD"} /\ First(d) = First(c) /\ Newest(d) = "PWD"
        /\ EnvOf(d) = Map!Put(EnvOf(c), "PWD", w)
    BY <2>a, <2>0, <2>1, Added, Zenon
  <2>. QED
    BY <1>3, <2>2
<1>. HIDE DEF d
<1>5. EnvOf(d)["PWD"] = w
  BY <1>4 DEF Map!Put
<1>. QED
  BY <1>1, <1>2, <1>3, <1>4, <1>5, Zenon DEF a, b, c, d

LEMMA FirstList ==
    ASSUME NEW dir \in Dir
    PROVE  LET l == init_variables_list(dir)
           IN  /\ Linked(l) /\ l.alive = TRUE /\ First(l) = "0" /\ Newest(l) = "PWD"
               /\ EnvOf(l) = Map!Put(Map!Put(Map!Put(Map!Put(Map!NoVariables,
                                 "0", "42sh"), "?", "0"), "OLDPWD", ""), "PWD", dir)
               /\ EnvOf(l)["PWD"] = dir
<1>1. "0" \in Value /\ "" \in Value /\ dir \in Value
  BY DEF Value, Status
<1>. DEFINE FromZero(u, v, w) ==
              add_variable(add_variable(add_variable(add_variable(EmptyList, "0", "42sh"),
                  "?", u), "OLDPWD", v), "PWD", w)
            Right(l, u, v, w) ==
              /\ Linked(l) /\ l.alive = TRUE /\ First(l) = "0" /\ Newest(l) = "PWD"
              /\ EnvOf(l) = Map!Put(Map!Put(Map!Put(Map!Put(Map!NoVariables,
                               "0", "42sh"), "?", u), "OLDPWD", v), "PWD", w)
              /\ EnvOf(l)["PWD"] = w
<1>2. init_variables_list(dir) = FromZero("0", "", dir)
  BY DEF init_variables_list
<1>3. \A u, v, w \in Value : Right(FromZero(u, v, w), u, v, w)
  BY FourCells, Zenon
<1>. HIDE DEF FromZero, Right
<1>4. Right(FromZero("0", "", dir), "0", "", dir)
  BY <1>1, <1>3, Zenon
<1>. QED
  BY <1>2, <1>4, Zenon DEF Right
-----------------------------------------------------------------------------
(* The inductive invariant.  The first variable is "0" as long as the shell runs, since
   the removal of the first cell stops it, and a list that would stop it is never kept. *)
PwdKept(l, d) == "PWD" \notin UserName /\ "PWD" \in Names(l) => EnvOf(l)["PWD"] = d
Commands == [op : {"none", "assign", "unset", "cd", "echo"}, args : Seq(Word)]

IInv ==
    /\ Linked(list) /\ list.alive = TRUE /\ First(list) = "0"
    /\ PwdKept(list, cwd)
    /\ cwd \in Dir /\ seen \in Value /\ rc \in {"none"} \cup Status /\ alive \in BOOLEAN
    /\ environ \in Environs
    /\ cmd \in Commands

LEMMA ValueFacts ==
    /\ Status \subseteq Value /\ Dir \subseteq Value /\ UserValue \subseteq Value
    /\ "" \in Value /\ Value \subseteq Word /\ Name \subseteq Word /\ "-" \in Word
    /\ {"0", "1", "127", "-1"} \subseteq Status
BY DEF Value, Status, Word

LEMMA WordFacts ==
    /\ \A x \in Name \cup Value \cup Dir \cup UserValue : x \in Word
    /\ \A x \in Assignable : x \in Name /\ x \in Word
    /\ "-" \in Word /\ "-v" \in Word /\ "-f" \in Word
    /\ << >> \in Seq(Word) /\ \A x \in Word : <<x>> \in Seq(Word)
    /\ \A x, y \in Word : <<x, y>> \in Seq(Word)
<1>1. \A x \in Name \cup Value \cup Dir \cup UserValue : x \in Word
  BY DEF Word, Value
<1>2. \A x \in Assignable : x \in Name /\ x \in Word
  BY DEF Word, Assignable, Name
<1>3. "-" \in Word /\ "-v" \in Word /\ "-f" \in Word
  BY DEF Word
<1>4. << >> \in Seq(Word) /\ \A x \in Word : <<x>> \in Seq(Word)
  OBVIOUS
<1>5. \A x, y \in Word : <<x, y>> \in Seq(Word)
  OBVIOUS
<1>. QED
  BY <1>1, <1>2, <1>3, <1>4, <1>5

LEMMA ArgsAre ==
    ASSUME NEW args \in Args
    PROVE  args \in Seq(Word) /\ (args = << >> \/ Len(args) \in 1 .. 2)
<1>1. CASE args = << >>
  BY <1>1, WordFacts
<1>2. ASSUME NEW x \in Name, args = <<x>>
      PROVE  args \in Seq(Word) /\ Len(args) \in 1 .. 2
  BY <1>2, WordFacts
<1>3. ASSUME NEW x \in {"-v", "-f", "0"} \cup UserName, NEW y \in Name, args = <<x, y>>
      PROVE  args \in Seq(Word) /\ Len(args) \in 1 .. 2
  <2>1. x \in Word /\ y \in Word
    BY WordFacts DEF Name
  <2>. QED
    BY <1>3, <2>1, WordFacts
<1>4. \/ args = << >>
      \/ \E x \in Name : args = <<x>>
      \/ \E x \in {"-v", "-f", "0"} \cup UserName, y \in Name : args = <<x, y>>
  <2>. DEFINE Lead == {"-v", "-f", "0"} \cup UserName
  <2>1. args \in {<< >>} \/ args \in {<<x>> : x \in Name} \/ args \in Lead \X Name
    BY Zenon DEF Args
  <2>. HIDE DEF Lead
  <2>2. args \in Lead \X Name => \E x \in Lead, y \in Name : args = <<x, y>>
    OBVIOUS
  <2>. QED
    BY <2>1, <2>2 DEF Lead
<1>. QED
  BY <1>1, <1>2, <1>3, <1>4

LEMMA EnvironFacts ==
    ASSUME environ \in Environs, NEW n \in DOMAIN environ
    PROVE  environ[n] \in Value
<1>1. PICK names : environ \in [names -> Value]
  BY VariablesAssumption
<1>. QED
  BY <1>1

(* What the map sees of the list. *)
LEMMA EnvIs ==
    ASSUME Linked(list)
    PROVE  Env = EnvOf(list) /\ DOMAIN Env = Names(list)
<1>1. Listed = Names(list)
  BY AllReached DEF Listed, Names
<1>2. Env = EnvOf(list)
  BY <1>1, Zenon DEF Env, EnvOf
<1>. QED
  BY <1>2, EnvAt

LEMMA NextEnvIs ==
    ASSUME Linked(list')
    PROVE  Env' = EnvOf(list')
<1>1. Listed' = Names(list')
  BY AllReached DEF Listed, Names
<1>. QED
  BY <1>1, Zenon DEF Env, EnvOf

LEMMA EnvStays ==
    ASSUME UNCHANGED list
    PROVE  UNCHANGED <<Env, list.cells[list.tail].name>>
BY DEF Env, Listed

LEMMA HasIsThere ==
    ASSUME IInv
    PROVE  \A n : Has(list, n) <=> n \in DOMAIN Env
BY Found, EnvIs DEF IInv

LEMMA NoCommandIs == NoCommand \in Commands
<1>1. << >> \in Seq(Word)
  OBVIOUS
<1>. QED
  BY <1>1 DEF NoCommand, Commands

LEMMA RunsDoes ==
    ASSUME NEW op \in {"assign", "unset", "cd", "echo"}, NEW args \in Seq(Word), IInv,
           Runs(op, args)
    PROVE  /\ alive = TRUE /\ rc = "none"
           /\ cmd' \in Commands /\ cmd'.op = op /\ cmd'.args = args
           /\ environ' \in Environs /\ environ' = environ
BY DEF Runs, IInv, Commands

LEMMA ListStays ==
    ASSUME IInv, UNCHANGED <<list, cwd>>, seen' \in Value, rc' \in {"none"} \cup Status,
           alive' \in BOOLEAN, environ' \in Environs, cmd' \in Commands
    PROVE  IInv'
BY DEF IInv

LEMMA StopsDoes ==
    ASSUME IInv, Stops, environ' \in Environs, cmd' \in Commands
    PROVE  IInv' /\ Map!Stop
<1>1. IInv'
  BY ListStays DEF Stops, IInv
<1>2. Map!Stop
  BY EnvStays DEF Stops, Map!Stop
<1>. QED
  BY <1>1, <1>2

LEMMA KeepsDoes ==
    ASSUME IInv, NEW status \in Status, Keeps(status), environ' \in Environs, cmd' \in Commands
    PROVE  IInv' /\ Map!Keep(status)
<1>1. IInv'
  BY ListStays DEF Keeps, IInv
<1>2. Map!Keep(status)
  BY EnvStays DEF Keeps, Map!Keep
<1>. QED
  BY <1>1, <1>2

LEMMA PwdStays ==
    ASSUME NEW l, Linked(l), NEW t, Linked(t), NEW n, n # "PWD", NEW v,
           EnvOf(t) = Map!Put(EnvOf(l), n, v), NEW d, PwdKept(l, d)
    PROVE  PwdKept(t, d)
<1>. SUFFICES ASSUME "PWD" \notin UserName, "PWD" \in Names(t)
              PROVE  EnvOf(t)["PWD"] = d
  BY DEF PwdKept
<1>1. DOMAIN EnvOf(l) = Names(l) /\ DOMAIN EnvOf(t) = Names(t)
  BY EnvAt
<1>2. "PWD" \in Names(l)
  BY <1>1 DEF Map!Put
<1>3. EnvOf(l)["PWD"] = d
  BY <1>2 DEF PwdKept
<1>. HIDE DEF EnvOf
<1>. QED
  BY <1>1, <1>2, <1>3 DEF Map!Put

-----------------------------------------------------------------------------
(* Each operation keeps the invariant, and does what the map does. *)
LEMMA AssignDoes ==
    ASSUME IInv, NEW n \in Assignable, NEW v \in UserValue, Assign(n, v)
    PROVE  IInv' /\ Map!Set(n, v)
<1>1. n \in Name /\ v \in Value /\ <<n, v>> \in Seq(Word)
  BY ValueFacts, WordFacts
<1>2. /\ alive = TRUE /\ cmd' \in Commands /\ environ' \in Environs /\ environ' = environ
      /\ Linked(list) /\ list.alive = TRUE /\ PwdKept(list, cwd) /\ First(list) = "0"
  BY <1>1, RunsDoes DEF Assign, IInv
<1>3. Env = EnvOf(list) /\ DOMAIN Env = Names(list) /\ (Has(list, n) <=> n \in DOMAIN Env)
  BY <1>2, EnvIs, HasIsThere
<1>4. CASE n = "?" /\ n \in DOMAIN Env
  <2>1. Stops
    BY <1>3, <1>4 DEF Assign
  <2>2. IInv' /\ Map!Stop
    BY <1>2, <2>1, StopsDoes
  <2>. QED
    BY <1>4, <2>2 DEF Map!Set
<1>. DEFINE t == SetVariable(list, n, v)
<1>5. ~(n = "?" /\ n \in DOMAIN Env) => IF t.alive THEN /\ list' = t /\ rc' = "0"
                                                        /\ UNCHANGED <<cwd, seen, alive>>
                                        ELSE Stops
  BY <1>3 DEF Assign, Becomes
<1>6. CASE n = "IFS" /\ n \notin DOMAIN Env
  <2>1. t = [list EXCEPT !.alive = FALSE]
    <3>1. t = add_variable(list, n, v)
      BY <1>3, <1>6 DEF SetVariable
    <3>. HIDE DEF t
    <3>. QED
      BY <1>6, <3>1, IfsStops
  <2>2. t.alive = FALSE
    BY <1>2, <2>1, Killed
  <2>. HIDE DEF t
  <2>3. IInv' /\ Map!Stop
    BY <1>2, <1>5, <1>6, <2>2, StopsDoes
  <2>. QED
    BY <1>6, <2>3 DEF Map!Set
<1>7. CASE n # (IF n \in DOMAIN Env THEN "?" ELSE "IFS")
  <2>1. Len(list.cells) < MaxCells
    BY DEF Assign, Room
  <2>2. n \in Names(list) \/ n # "IFS"
    BY <1>3, <1>7
  <2>3. /\ Linked(t) /\ t.alive = list.alive
        /\ EnvOf(t) = Map!Put(EnvOf(list), n, v)
        /\ First(t) = First(list)
        /\ Newest(t) = IF n \in Names(list) THEN Newest(list) ELSE n
    BY <1>1, <1>2, <2>1, <2>2, SetPuts
  <2>. HIDE DEF t
  <2>4. list' = t /\ rc' = "0" /\ UNCHANGED <<cwd, seen, alive>>
    BY <1>2, <1>5, <1>7, <2>3
  <2>5. PwdKept(t, cwd)
    <3>1. CASE n = "PWD"
      BY <3>1 DEF PwdKept, Assignable
    <3>2. CASE n # "PWD"
      BY <1>2, <2>3, <3>2, PwdStays
    <3>. QED
      BY <3>1, <3>2
  <2>6. IInv'
    BY <1>2, <2>3, <2>4, <2>5, ValueFacts DEF IInv
  <2>7. Env' = EnvOf(t)
    BY <2>3, <2>4, NextEnvIs
  <2>8. Map!Set(n, v)
    BY <1>3, <1>7, <2>3, <2>4, <2>7 DEF Map!Set, Map!Newest, Newest
  <2>. QED
    BY <2>6, <2>8
<1>. QED
  BY <1>4, <1>6, <1>7

LEMMA UnsetDoes ==
    ASSUME IInv, NEW args \in Args, my_unset(args)
    PROVE  IInv' /\ Map!Unset(args)
<1>1. args \in Seq(Word) /\ (args = << >> \/ Len(args) \in 1 .. 2)
  BY ArgsAre
<1>2. /\ alive = TRUE /\ cmd' \in Commands /\ environ' \in Environs /\ environ' = environ
      /\ Linked(list) /\ list.alive = TRUE /\ PwdKept(list, cwd) /\ First(list) = "0"
  BY <1>1, RunsDoes DEF my_unset, IInv
<1>3. Env = EnvOf(list) /\ DOMAIN Env = Names(list)
  BY <1>2, EnvIs
<1>4. CASE args = << >>
  <2>1. Stops
    BY <1>4 DEF my_unset
  <2>2. IInv' /\ Map!Stop
    BY <1>2, <2>1, StopsDoes
  <2>. QED
    BY <1>4, <2>2 DEF Map!Unset
<1>5. CASE args # << >> /\ args[1] = "-f"
  <2>1. Keeps("0")
    BY <1>2, <1>5 DEF my_unset, Becomes, Keeps
  <2>2. IInv' /\ Map!Keep("0")
    BY <1>2, <2>1, KeepsDoes, ValueFacts
  <2>. QED
    BY <1>5, <2>2 DEF Map!Unset
<1>6. CASE args # << >> /\ args[1] # "-f"
  <2>. DEFINE t == RemoveAll(list, args)
  <2>1. Remains(t, list, Words(args))
    BY <1>1, <1>2, <1>6, AllRemoved
  <2>2. IF t.alive THEN list' = t /\ rc' = "0" /\ UNCHANGED <<cwd, seen, alive>> ELSE Stops
    BY <1>6 DEF my_unset, Becomes
  <2>. HIDE DEF t
  <2>3. CASE ~t.alive
    <3>1. Newest(list) \in Words(args) \/ "0" \in Words(args)
      BY <1>2, <2>1, <2>3 DEF Remains
    <3>2. IInv' /\ Map!Stop
      BY <1>2, <2>2, <2>3, StopsDoes
    <3>. QED
      BY <1>6, <3>1, <3>2 DEF Map!Unset, Words, Newest
  <2>4. CASE t.alive
    <3>1. /\ Newest(list) \notin Words(args) /\ "0" \notin Words(args)
          /\ Linked(t) /\ First(t) = First(list) /\ Newest(t) = Newest(list)
          /\ Names(t) = Names(list) \ Words(args)
          /\ \A m \in Names(t) : EnvOf(t)[m] = EnvOf(list)[m]
      BY <1>2, <2>1, <2>4 DEF Remains
    <3>2. list' = t /\ rc' = "0" /\ UNCHANGED <<cwd, seen, alive>>
      BY <2>2, <2>4
    <3>3. t.alive = TRUE
      BY <3>1, <2>4, CellsAre DEF List
    <3>4. PwdKept(t, cwd)
      BY <1>2, <3>1 DEF PwdKept
    <3>5. IInv'
      BY <1>2, <3>1, <3>2, <3>3, <3>4, ValueFacts DEF IInv
    <3>6. Env' = [n \in DOMAIN Env \ Words(args) |-> Env[n]]
      <4>1. Env' = EnvOf(t)
        BY <3>1, <3>2, NextEnvIs
      <4>2. EnvOf(t) = [n \in Names(t) |-> EnvOf(t)[n]]
        BY DEF EnvOf
      <4>. HIDE DEF EnvOf
      <4>. QED
        BY <1>3, <3>1, <4>1, <4>2
    <3>7. Map!Unset(args)
      BY <1>6, <3>1, <3>2, <3>6 DEF Map!Unset, Words, Newest
    <3>. QED
      BY <3>5, <3>7
  <2>. QED
    BY <2>3, <2>4
<1>. QED
  BY <1>4, <1>5, <1>6

LEMMA ArriveDoes ==
    ASSUME IInv, Room, Has(list, "OLDPWD"), NEW d \in Dir, NEW status \in Status,
           Arrive(d, status), cmd' \in Commands, environ' \in Environs
    PROVE  IInv' /\ Map!Arrive(d, status)
<1>. DEFINE one == SetVariable(list, "PWD", d)
            two == SetVariable(one, "OLDPWD", cwd)
<1>1. /\ Linked(list) /\ list.alive = TRUE /\ First(list) = "0"
      /\ d \in Value /\ cwd \in Value /\ Len(list.cells) < MaxCells
  BY ValueFacts DEF IInv, Room
<1>2. /\ Env = EnvOf(list) /\ DOMAIN Env = Names(list) /\ "OLDPWD" \in Names(list)
  BY <1>1, EnvIs, HasIsThere
<1>3. /\ Linked(one) /\ one.alive = list.alive /\ Names(one) = Names(list) \cup {"PWD"}
      /\ EnvOf(one) = Map!Put(EnvOf(list), "PWD", d)
      /\ First(one) = First(list)
      /\ Newest(one) = IF "PWD" \in Names(list) THEN Newest(list) ELSE "PWD"
  BY <1>1, NameFacts, SetPuts
<1>. HIDE DEF one
<1>4. "OLDPWD" \in Names(one)
  BY <1>2, <1>3
<1>5. /\ Linked(two) /\ two.alive = one.alive
      /\ EnvOf(two) = Map!Put(EnvOf(one), "OLDPWD", cwd)
      /\ First(two) = First(one) /\ Newest(two) = Newest(one)
  BY <1>1, <1>3, <1>4, NameFacts, SetPuts
<1>6. list' = two /\ cwd' = d /\ rc' = status /\ UNCHANGED <<seen, alive>>
  BY DEF Arrive, one
<1>. HIDE DEF two
<1>7. EnvOf(two)["PWD"] = d
  <2>1. "PWD" \in DOMAIN EnvOf(one) /\ EnvOf(one)["PWD"] = d
    BY <1>3 DEF Map!Put
  <2>. QED
    BY <1>5, <2>1 DEF Map!Put
<1>8. IInv'
  BY <1>1, <1>3, <1>5, <1>6, <1>7 DEF IInv, PwdKept
<1>9. Env' = EnvOf(two)
  BY <1>5, <1>6, NextEnvIs
<1>10. Map!Arrive(d, status)
  BY <1>2, <1>3, <1>5, <1>6, <1>9 DEF Map!Arrive, Map!Newest, Newest
<1>. QED
  BY <1>8, <1>10

LEMMA CdDoes ==
    ASSUME IInv, NEW d \in Dir, my_cd(d)
    PROVE  IInv' /\ Map!Cd(<<d>>)
<1>1. <<d>> \in Seq(Word) /\ d # "-"
  BY WordFacts, VariablesAssumption
<1>2. /\ cmd' \in Commands /\ environ' \in Environs /\ environ' = environ /\ cwd \in Dir
  BY <1>1, RunsDoes DEF my_cd, IInv
<1>3. Has(list, "OLDPWD") <=> "OLDPWD" \in DOMAIN Env
  BY HasIsThere
<1>. DEFINE args == <<d>>
<1>4. Len(args) # 2 /\ args # << >> /\ args[1] = d
  OBVIOUS
<1>. HIDE DEF args
<1>5. CASE ~Has(list, "OLDPWD")
  <2>1. Stops
    BY <1>5 DEF my_cd
  <2>2. IInv' /\ Map!Stop
    BY <1>2, <2>1, StopsDoes
  <2>3. Map!Cd(args)
    BY <1>3, <1>4, <1>5, <2>2 DEF Map!Cd
  <2>. QED
    BY <2>2, <2>3 DEF args
<1>6. CASE Has(list, "OLDPWD")
  <2>1. Arrive(d, "0") \/ Arrive(cwd, "1") \/ Arrive(cwd, "-1")
    BY <1>6 DEF my_cd
  <2>2. Room
    BY DEF my_cd
  <2>3. \A e \in Dir, status \in Status : Arrive(e, status) => IInv' /\ Map!Arrive(e, status)
    BY <1>2, <1>6, <2>2, ArriveDoes
  <2>4. IInv' /\ Map!GoesTo(d, {"1", "-1"})
    BY <1>2, <2>1, <2>3, ValueFacts DEF Map!GoesTo
  <2>5. Map!Cd(args)
    BY <1>1, <1>3, <1>4, <1>6, <2>4 DEF Map!Cd
  <2>. QED
    BY <2>4, <2>5 DEF args
<1>. QED
  BY <1>5, <1>6

LEMMA CdTooManyDoes ==
    ASSUME IInv, NEW d \in Dir, CdTooMany(d)
    PROVE  IInv' /\ Map!Cd(<<d, d>>)
<1>1. <<d, d>> \in Seq(Word)
  BY WordFacts
<1>2. /\ cmd' \in Commands /\ environ' \in Environs /\ Keeps("1")
  BY <1>1, RunsDoes DEF CdTooMany
<1>3. IInv' /\ Map!Keep("1")
  BY <1>2, KeepsDoes, ValueFacts
<1>. QED
  BY <1>3 DEF Map!Cd

LEMMA CdHomeDoes ==
    ASSUME IInv, CdHome
    PROVE  IInv' /\ Map!Cd(<< >>)
<1>1. << >> \in Seq(Word)
  OBVIOUS
<1>2. /\ cmd' \in Commands /\ environ' \in Environs /\ environ' = environ /\ cwd \in Dir
  BY <1>1, RunsDoes DEF CdHome, IInv
<1>3. Has(list, "OLDPWD") <=> "OLDPWD" \in DOMAIN Env
  BY HasIsThere
<1>. DEFINE args == << >>
<1>4. Len(args) # 2 /\ args = << >>
  OBVIOUS
<1>. HIDE DEF args
<1>5. CASE ~Has(list, "OLDPWD")
  <2>1. Stops
    BY <1>5 DEF CdHome
  <2>2. IInv' /\ Map!Stop
    BY <1>2, <2>1, StopsDoes
  <2>3. Map!Cd(args)
    BY <1>3, <1>4, <1>5, <2>2 DEF Map!Cd
  <2>. QED
    BY <2>2, <2>3 DEF args
<1>6. CASE Has(list, "OLDPWD") /\ "HOME" \notin DOMAIN environ
  <2>1. IInv' /\ Map!Keep("1")
    <3>1. Keeps("1")
      BY <1>6 DEF CdHome
    <3>. QED
      BY <1>2, <3>1, KeepsDoes, ValueFacts
  <2>2. Map!Cd(args)
    BY <1>3, <1>4, <1>6, <2>1 DEF Map!Cd
  <2>. QED
    BY <2>1, <2>2 DEF args
<1>7. CASE Has(list, "OLDPWD") /\ "HOME" \in DOMAIN environ
  <2>1. (environ["HOME"] \in Dir /\ Arrive(environ["HOME"], "0")) \/ Arrive(cwd, "-1")
    BY <1>7 DEF CdHome
  <2>2. Room
    BY DEF CdHome
  <2>3. \A e \in Dir, status \in Status : Arrive(e, status) => IInv' /\ Map!Arrive(e, status)
    BY <1>2, <1>7, <2>2, ArriveDoes
  <2>4. IInv' /\ Map!GoesTo(environ["HOME"], {"-1"})
    BY <1>2, <2>1, <2>3, ValueFacts DEF Map!GoesTo
  <2>5. Map!Cd(args)
    BY <1>3, <1>4, <1>7, <2>4 DEF Map!Cd
  <2>. QED
    BY <2>4, <2>5 DEF args
<1>. QED
  BY <1>5, <1>6, <1>7

LEMMA CdBackDoes ==
    ASSUME IInv, CdBack
    PROVE  IInv' /\ Map!Cd(<<"-">>)
<1>. DEFINE args == <<"-">>
            old == ValueOf(list, "OLDPWD")
<1>1. args \in Seq(Word) /\ Len(args) # 2 /\ args # << >> /\ args[1] = "-"
  BY WordFacts
<1>2. /\ cmd' \in Commands /\ environ' \in Environs /\ environ' = environ /\ cwd \in Dir
  BY <1>1, RunsDoes DEF CdBack, IInv
<1>3. /\ Has(list, "OLDPWD") <=> "OLDPWD" \in DOMAIN Env
      /\ Has(list, "OLDPWD") => Env["OLDPWD"] = old
  BY HasIsThere, EnvIs, EnvAt DEF IInv
<1>4. CASE ~Has(list, "OLDPWD")
  <2>1. Stops
    BY <1>4 DEF CdBack
  <2>2. IInv' /\ Map!Stop
    BY <1>2, <2>1, StopsDoes
  <2>. HIDE DEF args
  <2>3. Map!Cd(args)
    BY <1>1, <1>3, <1>4, <2>2 DEF Map!Cd
  <2>. QED
    BY <2>2, <2>3 DEF args
<1>5. CASE Has(list, "OLDPWD")
  <2>1. \/ old = "" /\ Keeps("1")
        \/ old # "" /\ Keeps("-1")
        \/ old # "" /\ old \in Dir /\ Arrive(old, "0")
    BY <1>5 DEF CdBack
  <2>2. Room
    BY DEF CdBack
  <2>. HIDE DEF old, args
  <2>3. \A status \in Status : Keeps(status) => IInv' /\ Map!Keep(status)
    BY <1>2, KeepsDoes
  <2>4. old \in Dir /\ Arrive(old, "0") => IInv' /\ Map!Arrive(old, "0")
    BY <1>2, <1>5, <2>2, ArriveDoes, ValueFacts
  <2>5. IInv' /\ IF old = "" THEN Map!Keep("1") ELSE Map!GoesTo(old, {}) \/ Map!Keep("-1")
    BY <2>1, <2>3, <2>4, ValueFacts DEF Map!GoesTo
  <2>6. Map!Cd(args)
    BY <1>1, <1>3, <1>5, <2>5 DEF Map!Cd
  <2>. QED
    BY <2>5, <2>6 DEF args
<1>. QED
  BY <1>4, <1>5

LEMMA ExpandDoes ==
    ASSUME IInv, NEW n \in Name, Expand(n)
    PROVE  IInv' /\ Map!Expand(n)
<1>1. <<n>> \in Seq(Word)
  BY WordFacts
<1>2. /\ cmd' \in Commands /\ environ' \in Environs /\ environ' = environ
      /\ environ \in Environs /\ cwd \in Value /\ Linked(list)
  BY <1>1, RunsDoes, ValueFacts DEF Expand, IInv
<1>3. /\ Has(list, n) <=> n \in DOMAIN Env
      /\ n \in DOMAIN Env => Env[n] = ValueOf(list, n) /\ Env[n] \in Value
  BY <1>2, HasIsThere, EnvIs, EnvAt
<1>4. CASE ~Has(list, n) /\ n \in NullWhenAbsent
  <2>1. Stops
    BY <1>4 DEF Expand
  <2>2. IInv' /\ Map!Stop
    BY <1>2, <2>1, StopsDoes
  <2>. QED
    BY <1>3, <1>4, <2>2 DEF Map!Expand, NullWhenAbsent
<1>5. CASE Has(list, n) \/ n \notin NullWhenAbsent
  <2>. DEFINE v == IF Has(list, n) THEN ValueOf(list, n) ELSE Special(n)
  <2>1. seen' = v /\ rc' = "0" /\ UNCHANGED <<list, cwd, alive>>
    BY <1>5 DEF Expand
  <2>2. v \in Value
    <3>1. CASE Has(list, n)
      BY <1>3, <3>1
    <3>2. CASE ~Has(list, n)
      <4>1. Special(n) \in Value
        BY <1>2, <1>5, <3>2, EnvironFacts, ValueFacts DEF Special, NullWhenAbsent
      <4>. QED
        BY <3>2, <4>1
    <3>. QED
      BY <3>1, <3>2
  <2>3. IInv'
    BY <1>2, <2>1, <2>2, ListStays, ValueFacts DEF IInv
  <2>4. Map!See(v)
    BY <2>1, EnvStays DEF Map!See
  <2>5. Map!Expand(n)
    <3>1. CASE Has(list, n)
      BY <1>3, <2>4, <3>1 DEF Map!Expand
    <3>2. CASE ~Has(list, n)
      <4>1. Map!See(Special(n))
        BY <2>4, <3>2
      <4>. QED
        BY <1>3, <1>5, <3>2, <4>1 DEF Map!Expand, Special, NullWhenAbsent
    <3>. QED
      BY <3>1, <3>2
  <2>. QED
    BY <2>3, <2>5
<1>. QED
  BY <1>4, <1>5

LEMMA UpdateDoes ==
    ASSUME IInv, update_question_mark
    PROVE  IInv' /\ Map!Report
<1>1. /\ Linked(list) /\ list.alive = TRUE /\ rc \in Value /\ PwdKept(list, cwd)
      /\ First(list) = "0" /\ environ' \in Environs
  BY ValueFacts DEF IInv, update_question_mark
<1>2. /\ rc # "none" /\ rc' = "none" /\ cmd' = NoCommand /\ seen' = "" /\ cmd' \in Commands
      /\ UNCHANGED <<cwd, alive, environ>>
  BY NoCommandIs DEF update_question_mark
<1>3. Env = EnvOf(list) /\ DOMAIN Env = Names(list) /\ (Has(list, "?") <=> "?" \in DOMAIN Env)
  BY <1>1, EnvIs, HasIsThere
<1>4. CASE ~Has(list, "?")
  <2>1. UNCHANGED list
    BY <1>4 DEF update_question_mark
  <2>2. IInv'
    BY <1>1, <1>2, <2>1, ListStays, ValueFacts DEF IInv
  <2>3. Map!Report
    BY <1>2, <1>3, <1>4, <2>1, EnvStays DEF Map!Report, NoCommand
  <2>. QED
    BY <2>2, <2>3
<1>5. CASE Has(list, "?")
  <2>. DEFINE t == SetVariable(list, "?", rc)
  <2>1. "?" \in Names(list) /\ list' = t
    BY <1>3, <1>5 DEF update_question_mark
  <2>2. /\ Linked(t) /\ t.alive = list.alive
        /\ EnvOf(t) = Map!Put(EnvOf(list), "?", rc)
        /\ First(t) = First(list) /\ Newest(t) = Newest(list)
    BY <1>1, <2>1, NameFacts, SetPuts
  <2>. HIDE DEF t
  <2>3. PwdKept(t, cwd)
    BY <1>1, <2>2, PwdStays
  <2>4. IInv'
    BY <1>1, <1>2, <2>1, <2>2, <2>3, ValueFacts DEF IInv
  <2>5. Env' = EnvOf(t)
    BY <2>1, <2>2, NextEnvIs
  <2>6. Map!Report
    BY <1>2, <1>3, <1>5, <2>1, <2>2, <2>5 DEF Map!Report, NoCommand, Newest
  <2>. QED
    BY <2>4, <2>6
<1>. QED
  BY <1>4, <1>5

(* A command of the map is one of its operations, on the arguments of the command. *)
LEMMA Commanded ==
    ASSUME IInv, NEW op \in {"assign", "unset", "cd", "echo"}, NEW args \in Seq(Word),
           Runs(op, args),
           \/ op = "assign" /\ Map!Assign(args)
           \/ op = "unset" /\ Map!Unset(args)
           \/ op = "cd" /\ Map!Cd(args)
           \/ op = "echo" /\ Map!Expand(args[1])
    PROVE  Map!Next
<1>1. /\ alive = TRUE /\ rc = "none" /\ UNCHANGED environ /\ cmd'.op = op /\ cmd'.args = args
  BY RunsDoes
<1>2. Map!Command
  BY <1>1 DEF Map!Command
<1>. QED
  BY <1>1, <1>2 DEF Map!Next

LEMMA StepDoes ==
    ASSUME IInv, [Next]_vars
    PROVE  IInv' /\ [Map!Next]_(Map!vars)
<1>1. ASSUME NEW n \in Assignable, NEW v \in UserValue, Assign(n, v)
      PROVE  IInv' /\ Map!Next
  <2>1. IInv' /\ Map!Set(n, v)
    BY <1>1, AssignDoes
  <2>2. <<n, v>> \in Seq(Word) /\ Runs("assign", <<n, v>>)
    BY <1>1, WordFacts DEF Assign
  <2>3. Map!Assign(<<n, v>>)
    BY <2>1 DEF Map!Assign
  <2>. QED
    BY <2>1, <2>2, <2>3, Commanded
<1>2. ASSUME NEW n \in Assignable, AssignFails(n)
      PROVE  IInv' /\ Map!Next
  <2>1. <<n>> \in Seq(Word) /\ Runs("assign", <<n>>) /\ Stops
    BY <1>2, WordFacts DEF AssignFails
  <2>2. IInv' /\ Map!Stop
    BY <2>1, RunsDoes, StopsDoes
  <2>3. Map!Assign(<<n>>)
    BY <2>2 DEF Map!Assign
  <2>. QED
    BY <2>1, <2>2, <2>3, Commanded
<1>3. ASSUME AssignNothing
      PROVE  IInv' /\ Map!Next
  <2>1. << >> \in Seq(Word) /\ Runs("assign", << >>)
    BY <1>3 DEF AssignNothing
  <2>2. PICK status \in {"0", "127"} : Keeps(status)
    BY <1>3 DEF AssignNothing
  <2>3. IInv' /\ Map!Keep(status)
    BY <2>1, <2>2, RunsDoes, KeepsDoes, ValueFacts
  <2>4. Map!Assign(<< >>)
    BY <2>3 DEF Map!Assign
  <2>. QED
    BY <2>1, <2>3, <2>4, Commanded
<1>4. ASSUME NEW args \in Args, my_unset(args)
      PROVE  IInv' /\ Map!Next
  <2>1. args \in Seq(Word) /\ Runs("unset", args)
    BY <1>4, ArgsAre DEF my_unset
  <2>2. IInv' /\ Map!Unset(args)
    BY <1>4, UnsetDoes
  <2>. QED
    BY <2>1, <2>2, Commanded
<1>5. ASSUME NEW d \in Dir, CdTooMany(d)
      PROVE  IInv' /\ Map!Next
  <2>1. <<d, d>> \in Seq(Word) /\ Runs("cd", <<d, d>>)
    BY <1>5, WordFacts DEF CdTooMany
  <2>2. IInv' /\ Map!Cd(<<d, d>>)
    BY <1>5, CdTooManyDoes
  <2>. QED
    BY <2>1, <2>2, Commanded
<1>6. ASSUME NEW d \in Dir, my_cd(d)
      PROVE  IInv' /\ Map!Next
  <2>1. <<d>> \in Seq(Word) /\ Runs("cd", <<d>>)
    BY <1>6, WordFacts DEF my_cd
  <2>2. IInv' /\ Map!Cd(<<d>>)
    BY <1>6, CdDoes
  <2>. QED
    BY <2>1, <2>2, Commanded
<1>7. ASSUME CdHome
      PROVE  IInv' /\ Map!Next
  <2>1. << >> \in Seq(Word) /\ Runs("cd", << >>)
    BY <1>7 DEF CdHome
  <2>2. IInv' /\ Map!Cd(<< >>)
    BY <1>7, CdHomeDoes
  <2>. QED
    BY <2>1, <2>2, Commanded
<1>8. ASSUME CdBack
      PROVE  IInv' /\ Map!Next
  <2>1. <<"-">> \in Seq(Word) /\ Runs("cd", <<"-">>)
    BY <1>8, WordFacts DEF CdBack
  <2>2. IInv' /\ Map!Cd(<<"-">>)
    BY <1>8, CdBackDoes
  <2>. QED
    BY <2>1, <2>2, Commanded
<1>9. ASSUME NEW n \in Name, Expand(n)
      PROVE  IInv' /\ Map!Next
  <2>1. <<n>> \in Seq(Word) /\ Runs("echo", <<n>>) /\ <<n>>[1] = n
    BY <1>9, WordFacts DEF Expand
  <2>2. IInv' /\ Map!Expand(n)
    BY <1>9, ExpandDoes
  <2>. QED
    BY <2>1, <2>2, Commanded
<1>10. ASSUME update_question_mark
       PROVE  IInv' /\ Map!Next
  <2>1. IInv' /\ Map!Report
    BY <1>10, UpdateDoes
  <2>2. alive = TRUE
    BY <1>10 DEF update_question_mark, IInv
  <2>. QED
    BY <2>1, <2>2 DEF Map!Next
<1>11. ASSUME UNCHANGED vars
       PROVE  IInv' /\ UNCHANGED Map!vars
  <2>1. IInv'
    BY <1>11, ListStays DEF vars, IInv
  <2>2. UNCHANGED Map!vars
    BY <1>11, EnvStays DEF vars, Map!vars
  <2>. QED
    BY <2>1, <2>2
<1>. QED
  BY <1>1, <1>2, <1>3, <1>4, <1>5, <1>6, <1>7, <1>8, <1>9, <1>10, <1>11 DEF Next, Crashed

LEMMA Initial ==
    ASSUME Init
    PROVE  IInv /\ Map!Init
<1>1. /\ cwd \in Dir /\ list = init_variables_list(cwd) /\ rc = "none" /\ alive = TRUE
      /\ seen = "" /\ cmd = NoCommand /\ environ \in Environs
  BY DEF Init
<1>2. /\ Linked(list) /\ list.alive = TRUE /\ First(list) = "0" /\ Newest(list) = "PWD"
      /\ EnvOf(list) = Map!Put(Map!Put(Map!Put(Map!Put(Map!NoVariables,
                           "0", "42sh"), "?", "0"), "OLDPWD", ""), "PWD", cwd)
      /\ EnvOf(list)["PWD"] = cwd
  BY <1>1, FirstList, Zenon
<1>3. NoCommand \in Commands
  BY NoCommandIs
<1>4. IInv
  BY <1>1, <1>2, <1>3, ValueFacts DEF IInv, PwdKept
<1>5. Env = EnvOf(list)
  BY <1>2, EnvIs
<1>6. Map!Init
  BY <1>1, <1>2, <1>5, Zenon DEF Map!Init, NoCommand, Newest
<1>. QED
  BY <1>4, <1>6

LEMMA AlwaysIInv == Spec => []IInv
<1>1. Init => IInv
  BY Initial
<1>2. IInv /\ [Next]_vars => IInv'
  BY StepDoes
<1>. QED
  BY <1>1, <1>2, PTL DEF Spec

-----------------------------------------------------------------------------
(* The cells of the list are well formed, there are at most MaxCells, and what the
   program keeps beside it has its type (ast/variable.c). *)
THEOREM TypesAreKept == Spec => []TypeOK
<1>1. ASSUME IInv
      PROVE  TypeOK
  <2>1. /\ Linked(list) /\ list \in List /\ DOMAIN list.cells = 1 .. Len(list.cells)
        /\ Len(list.cells) \in Nat /\ Len(list.cells) <= MaxCells /\ MaxCells \in Nat
    BY <1>1, CellsAre, VariablesAssumption DEF IInv, Linked
  <2>2. list.cells \in Seq(Cell)
    BY <2>1 DEF List
  <2>3. list.live \subseteq DOMAIN list.cells /\ {list.head, list.tail} \subseteq 0 .. MaxCells
    BY <2>1 DEF Linked
  <2>4. list.size \in 0 .. MaxCells
    <3>1. list.size = Cardinality(list.live)
      BY <2>1 DEF Linked
    <3>. QED
      BY <2>1, <3>1, LiveIsFinite
  <2>. QED
    BY <1>1, <2>1, <2>2, <2>3, <2>4 DEF TypeOK, IInv, Cell, Commands
<1>. QED
  BY <1>1, AlwaysIInv, PTL

(* After every assignment, unset and cd, and until the shell stops, the links of the list
   agree in both directions, it reaches exactly the cells that are allocated, its size
   counts them, and no name is twice in it (ast/variable.c). *)
THEOREM ListStaysSound == Spec => []ListSound
<1>1. ASSUME IInv
      PROVE  ListSound
  <2>1. Linked(list)
    BY <1>1 DEF IInv
  <2>2. Reached(list) = list.live
    BY <2>1, AllReached
  <2>3. \A c \in list.live : c # list.tail => /\ list.cells[c].next \in list.live
                                              /\ list.cells[list.cells[c].next].prev = c
    BY <2>1 DEF Linked
  <2>4. \A c \in list.live : \A d \in list.live \ {c} : list.cells[c].name # list.cells[d].name
    BY <2>1 DEF Linked
  <2>5. /\ list.size = Cardinality(list.live)
        /\ list.cells[list.head].prev = NULL /\ list.cells[list.tail].next = NULL
    BY <2>1 DEF Linked
  <2>. QED
    BY <2>2, <2>3, <2>4, <2>5 DEF ListSound
<1>. QED
  BY <1>1, AlwaysIInv, PTL

(* A script that does not set PWD finds the current directory in it, also after a cd that
   failed and after PWD was removed and created again (built_in/cd.c). *)
THEOREM PwdStaysCurrent == Spec => []PwdIsCurrent
<1>1. ASSUME IInv
      PROVE  PwdIsCurrent
  <2>. SUFFICES ASSUME alive, Has(list, "PWD"), "PWD" \notin UserName
                PROVE  ValueOf(list, "PWD") = cwd
    BY DEF PwdIsCurrent
  <2>1. "PWD" \in Names(list) /\ Linked(list) /\ PwdKept(list, cwd)
    BY <1>1, Found DEF IInv
  <2>. QED
    BY <2>1, EnvAt DEF PwdKept
<1>. QED
  BY <1>1, AlwaysIInv, PTL

(* Whatever a script does with its variables, the doubly linked list behaves as a map from
   names to values does: an assignment changes the variable that it names and no other,
   unset removes exactly the variables that it names, cd sets PWD and OLDPWD, an expansion
   returns the value of its variable, "?" is the status of the last command, and the shell
   stops at the commands for which the map says so and at no other (ast/variable.c,
   exec/exec.c, expansion/expansion.c, built_in/unset.c, built_in/cd.c). *)
THEOREM ListImplementsMap == Spec => ImplementsMap
<1>1. Init => Map!Init
  BY Initial
<1>2. IInv /\ [Next]_vars => [Map!Next]_(Map!vars)
  BY StepDoes
<1>. QED
  BY <1>1, <1>2, AlwaysIInv, PTL DEF Spec, ImplementsMap, Map!Spec
=============================================================================
