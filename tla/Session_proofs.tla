--------------------------- MODULE Session_proofs ---------------------------
(* Proofs about Session, for all texts, all names, every hash function and any
   number of buckets and programs. *)
EXTENDS Session, TLAPS

Items == Commands \cup Definitions
Frame == [prog : Nat, item : Nat, pc : {"load", "parse", "run"}, at : Nat]
Entry == [name : Name, prog : Nat, item : Nat]
Index == 0 .. Buckets - 1

-----------------------------------------------------------------------------
(* What a handler does to the stack, a sequence whose head is the innermost call. *)
LEMMA TopOfStack ==
    ASSUME NEW S, NEW s \in Seq(S), s # << >>
    PROVE  Len(s) \in Nat /\ Len(s) >= 1 /\ Head(s) = s[1] /\ s[1] \in S /\ 1 \in DOMAIN s
OBVIOUS

LEMMA Popped ==
    ASSUME NEW S, NEW s \in Seq(S), s # << >>
    PROVE  /\ Tail(s) \in Seq(S) /\ Len(Tail(s)) = Len(s) - 1 /\ Len(s) \in Nat
           /\ \A k \in 1 .. Len(s) - 1 : Tail(s)[k] = s[k + 1]
OBVIOUS

LEMMA Replaced ==
    ASSUME NEW S, NEW s \in Seq(S), s # << >>, NEW a \in S
    PROVE  LET t == <<a>> \o Tail(s)
           IN  /\ t \in Seq(S) /\ Len(t) = Len(s) /\ t # << >>
               /\ t[1] = a
               /\ \A k \in 2 .. Len(s) : t[k] = s[k]
<1>1. Tail(s) \in Seq(S) /\ Len(Tail(s)) = Len(s) - 1 /\ Len(s) \in Nat /\ Len(s) >= 1
  OBVIOUS
<1>2. \A k \in 1 .. Len(s) - 1 : Tail(s)[k] = s[k + 1]
  OBVIOUS
<1>. DEFINE t == <<a>> \o Tail(s)
<1>3. t \in Seq(S) /\ Len(t) = Len(s) /\ t[1] = a
  BY <1>1
<1>4. ASSUME NEW k \in 2 .. Len(s) PROVE t[k] = s[k]
  BY <1>1, <1>2
<1>. QED
  BY <1>1, <1>3, <1>4

LEMMA Pushed ==
    ASSUME NEW S, NEW s \in Seq(S), s # << >>, NEW a \in S, NEW b \in S
    PROVE  LET t == <<a, b>> \o Tail(s)
           IN  /\ t \in Seq(S) /\ Len(t) = Len(s) + 1 /\ t # << >>
               /\ t[1] = a /\ t[2] = b
               /\ \A k \in 2 .. Len(s) : t[k + 1] = s[k]
<1>1. Tail(s) \in Seq(S) /\ Len(Tail(s)) = Len(s) - 1 /\ Len(s) \in Nat /\ Len(s) >= 1
  OBVIOUS
<1>2. \A k \in 1 .. Len(s) - 1 : Tail(s)[k] = s[k + 1]
  OBVIOUS
<1>. DEFINE t == <<a, b>> \o Tail(s)
<1>3. t \in Seq(S) /\ Len(t) = Len(s) + 1 /\ t[1] = a /\ t[2] = b
  BY <1>1
<1>4. ASSUME NEW k \in 2 .. Len(s) PROVE t[k + 1] = s[k]
  BY <1>1, <1>2
<1>. QED
  BY <1>1, <1>3, <1>4

-----------------------------------------------------------------------------
(* The inductive invariant, part by part.  A frame and an entry point to what is
   there in the text of their program, one of P. *)
ItemsOf(P, p) == Content[P[p]].items
LineOf(P, f) == IF f.item = 0 THEN ItemsOf(P, f.prog) ELSE ItemsOf(P, f.prog)[f.item].body
FunctionAt(P, p, k) ==
    p \in DOMAIN P /\ k \in DOMAIN ItemsOf(P, p) /\ ItemsOf(P, p)[k].op = "def"
PointsToLine(P, f) ==
    /\ f.prog \in DOMAIN P
    /\ f.item # 0 => f.pc = "run" /\ FunctionAt(P, f.prog, f.item)
    /\ f.at \in 1 .. Len(LineOf(P, f)) + 1

ProgramsOK ==
    /\ programs \in Seq(File) /\ Len(programs) \in 1 .. MaxPrograms
    /\ alive \subseteq DOMAIN programs /\ retired \subseteq DOMAIN programs
    /\ list \in {"live", "freed"} /\ status \in {"running", "done", "stopped"}
StackOK == stack \in Seq(Frame) /\ \A i \in 1 .. Len(stack) : PointsToLine(programs, stack[i])
TableOK ==
    /\ table \in [Index -> Seq(Entry)]
    /\ latest \in [Name -> Entry \cup {Undefined}]
    /\ \A b \in Index : \A i \in 1 .. Len(table[b]) :
         /\ Bucket(table[b][i].name) = b
         /\ FunctionAt(programs, table[b][i].prog, table[b][i].item)

(* The programs somebody frees: the tokens of a text with an open $( are forgotten. *)
owned == {p \in alive : Text(p).form # "var"}

(* A program has one frame, a function runs above the frame of its program, and a
   program is owned while its frame is past the lexer. *)
Holds(f, p) == f.item = 0 /\ f.pc # "load" /\ f.prog = p
Nested ==
    /\ \A i, j \in 1 .. Len(stack) :
         stack[i].item = 0 /\ stack[j].item = 0 /\ stack[i].prog = stack[j].prog => i = j
    /\ \A i \in 1 .. Len(stack) :
         stack[i].item # 0 => \E j \in 1 .. Len(stack) : j > i /\ Holds(stack[j], stack[i].prog)
    /\ \A p \in Nat : p \in owned <=> \E j \in 1 .. Len(stack) : Holds(stack[j], p)

(* What is entered in the table is alive or was retired, so that nothing in it is
   freed memory as long as nothing was retired. *)
Known ==
    \A b \in Index : \A i \in 1 .. Len(table[b]) : table[b][i].prog \in alive \cup retired

(* The first entry of a name is the definition parsed last. *)
FirstIs(l, n, e) ==
    \/ e = Undefined /\ \A i \in 1 .. Len(l) : l[i].name # n
    \/ \E i \in 1 .. Len(l) : /\ l[i] = e /\ e.name = n
                              /\ \A j \in 1 .. i - 1 : l[j].name # n
Newest ==
    status = "running" /\ retired = {} =>
        \A n \in Name : FirstIs(table[Bucket(n)], n, latest[n])

(* Why the shell may have stopped, or is about to. *)
FreedByLexer ==
    status = "running" /\ list = "freed" =>
        \E p \in DOMAIN programs : Text(p).form \in Unlexed

IInv ==
    /\ ProgramsOK /\ StackOK /\ TableOK /\ Nested /\ Known /\ Newest
    /\ FreedByLexer /\ StopsOnlyAfterBadText

-----------------------------------------------------------------------------
LEMMA TextTyped ==
    ASSUME ProgramsOK, NEW p \in DOMAIN programs
    PROVE  /\ Text(p) \in [form : Forms, items : Seq(Items)] /\ p \in Nat /\ p # 0
           /\ ItemsOf(programs, p) = Text(p).items /\ ItemsOf(programs, p) \in Seq(Items)
<1>1. programs[p] \in File /\ p \in 1 .. Len(programs) /\ Len(programs) \in Nat
  BY DEF ProgramsOK
<1>. QED
  BY <1>1, SessionAssumption DEF Text, Items, ItemsOf

LEMMA OpOfItem ==
    ASSUME NEW x \in Items
    PROVE  /\ x.op = "def" => x.name \in Name /\ x.body \in Seq(Commands)
           /\ x.op = "call" => x.name \in Name
           /\ x.op = "dot" => x.file \in File
BY DEF Items, Commands, Definitions

LEMMA LineTyped ==
    ASSUME ProgramsOK, NEW f \in Frame, PointsToLine(programs, f)
    PROVE  /\ Line(f) = LineOf(programs, f) /\ Line(f) \in Seq(Items) /\ Len(Line(f)) \in Nat
           /\ \A k \in DOMAIN Line(f) : k \in 1 .. Len(Line(f)) /\ Line(f)[k] \in Items
<1>1. ItemsOf(programs, f.prog) \in Seq(Items)
  BY TextTyped DEF PointsToLine
<1>2. Line(f) = LineOf(programs, f)
  BY DEF Line, LineOf, ItemsOf, Text
<1>3. CASE f.item = 0
  BY <1>1, <1>2, <1>3 DEF LineOf
<1>4. CASE f.item # 0
  <2>1. FunctionAt(programs, f.prog, f.item)
    BY <1>4 DEF PointsToLine
  <2>2. /\ ItemsOf(programs, f.prog)[f.item] \in Items
        /\ ItemsOf(programs, f.prog)[f.item].op = "def"
    BY <1>1, <2>1 DEF FunctionAt
  <2>3. Line(f) \in Seq(Commands)
    BY <1>2, <1>4, <2>2, OpOfItem DEF LineOf
  <2>4. Line(f) \in Seq(Items)
    BY <2>3 DEF Items
  <2>. QED
    BY <1>2, <2>4
<1>. QED
  BY <1>3, <1>4

LEMMA BucketTyped == ASSUME NEW n \in Name PROVE Bucket(n) \in Index
BY SessionAssumption DEF Bucket, Index

LEMMA TopTyped ==
    ASSUME ProgramsOK, StackOK, stack # << >>
    PROVE  /\ Top = stack[1] /\ Top \in Frame /\ PointsToLine(programs, Top)
           /\ Len(stack) \in Nat /\ Len(stack) >= 1
           /\ Top.at \in DOMAIN Line(Top) =>
                 Top.at + 1 \in 1 .. Len(Line(Top)) + 1 /\ Item \in Items
           /\ Line(Top) = LineOf(programs, Top)
           /\ Top.item = 0 => Line(Top) = ItemsOf(programs, Top.prog)
<1>1. Top = stack[1] /\ Top \in Frame /\ Len(stack) \in Nat /\ Len(stack) >= 1
  BY TopOfStack DEF StackOK, Top
<1>2. PointsToLine(programs, Top)
  BY <1>1 DEF StackOK
<1>3. /\ Len(Line(Top)) \in Nat
      /\ \A k \in DOMAIN Line(Top) : k \in 1 .. Len(Line(Top)) /\ Line(Top)[k] \in Items
  BY <1>1, <1>2, LineTyped
<1>4. Line(Top) = LineOf(programs, Top)
  BY <1>1, <1>2, LineTyped
<1>. QED
  BY <1>1, <1>2, <1>3, <1>4 DEF Item, LineOf

(* A program that is added leaves the texts of the others as they are. *)
LEMMA ProgramsGrow ==
    ASSUME ProgramsOK, NEW f \in File, programs' = Append(programs, f)
    PROVE  /\ programs' \in Seq(File) /\ Len(programs') = Len(programs) + 1
           /\ DOMAIN programs \subseteq DOMAIN programs' /\ Len(programs) + 1 \in DOMAIN programs'
           /\ \A p \in DOMAIN programs : programs'[p] = programs[p]
BY DEF ProgramsOK

LEMMA PointersStay ==
    ASSUME NEW P, NEW Q, \A p \in DOMAIN P : p \in DOMAIN Q /\ Q[p] = P[p]
    PROVE  /\ \A p \in DOMAIN P : ItemsOf(Q, p) = ItemsOf(P, p)
           /\ \A p, k : FunctionAt(P, p, k) => FunctionAt(Q, p, k)
           /\ \A g \in Frame : PointsToLine(P, g) => PointsToLine(Q, g)
<1>1. \A p \in DOMAIN P : ItemsOf(Q, p) = ItemsOf(P, p)
  BY DEF ItemsOf
<1>2. \A p, k : FunctionAt(P, p, k) => FunctionAt(Q, p, k)
  BY <1>1 DEF FunctionAt
<1>3. ASSUME NEW g \in Frame, PointsToLine(P, g) PROVE PointsToLine(Q, g)
  <2>1. g.prog \in DOMAIN P /\ ItemsOf(Q, g.prog) = ItemsOf(P, g.prog)
    BY <1>1, <1>3 DEF PointsToLine
  <2>2. LineOf(Q, g) = LineOf(P, g)
    BY <2>1 DEF LineOf
  <2>. QED
    BY <1>2, <1>3, <2>1, <2>2 DEF PointsToLine
<1>. QED
  BY <1>1, <1>2, <1>3

-----------------------------------------------------------------------------
(* What the steps do to the stack: the top frame moves on, is left, or calls. *)
LEMMA MoveKeeps ==
    ASSUME ProgramsOK, StackOK, Nested, stack # << >>,
           NEW g \in Frame, g.prog = Top.prog, g.item = Top.item,
           stack' = <<g>> \o Tail(stack), UNCHANGED programs, PointsToLine(programs, g),
           g.pc # "load",
           \/ Top.pc # "load" /\ owned' = owned
           \/ Top.item = 0 /\ owned' = owned \cup {Top.prog}
    PROVE  StackOK' /\ Nested'
<1>1. /\ Top = stack[1] /\ Top \in Frame
      /\ Len(stack) \in Nat /\ Len(stack) >= 1 /\ stack \in Seq(Frame)
  BY TopTyped DEF StackOK
<1>2. /\ stack' \in Seq(Frame) /\ Len(stack') = Len(stack) /\ stack'[1] = g
      /\ \A k \in 2 .. Len(stack) : stack'[k] = stack[k]
  BY <1>1, Replaced
<1>4. ASSUME NEW k \in 1 .. Len(stack') PROVE PointsToLine(programs, stack'[k])
  <2>1. CASE k = 1
    BY <1>2, <2>1
  <2>2. CASE k # 1
    BY <1>1, <1>2, <2>2 DEF StackOK
  <2>. QED
    BY <2>1, <2>2
<1>5. StackOK'
  BY <1>2, <1>4 DEF StackOK
<1>6. \A k \in 1 .. Len(stack) : /\ stack'[k].item = stack[k].item
                                 /\ stack'[k].prog = stack[k].prog
                                 /\ stack[k].pc # "load" => stack'[k].pc # "load"
  BY <1>1, <1>2
<1>7. \A k \in 1 .. Len(stack), p \in Nat : Holds(stack[k], p) => Holds(stack'[k], p)
  BY <1>6 DEF Holds
<1>8. \A i, j \in 1 .. Len(stack') :
        stack'[i].item = 0 /\ stack'[j].item = 0 /\ stack'[i].prog = stack'[j].prog => i = j
  BY <1>2, <1>6 DEF Nested
<1>9. ASSUME NEW i \in 1 .. Len(stack'), stack'[i].item # 0
      PROVE  \E j \in 1 .. Len(stack') : j > i /\ Holds(stack'[j], stack'[i].prog)
  <2>1. PICK j \in 1 .. Len(stack) : j > i /\ Holds(stack[j], stack[i].prog)
    BY <1>2, <1>6, <1>9 DEF Nested
  <2>2. stack[i] \in Frame
    BY <1>1, <1>2
  <2>3. stack[i].prog \in Nat
    BY <2>2 DEF Frame
  <2>. QED
    BY <1>2, <1>6, <1>7, <2>1, <2>3
<1>10. ASSUME NEW p \in Nat PROVE p \in owned' <=> \E j \in 1 .. Len(stack') : Holds(stack'[j], p)
  <2>1. p \in owned <=> \E j \in 1 .. Len(stack) : Holds(stack[j], p)
    BY DEF Nested
  <2>2. CASE Top.pc # "load" /\ owned' = owned
    <3>1. \A k \in 1 .. Len(stack) : Holds(stack'[k], p) => Holds(stack[k], p)
      BY <1>1, <1>2, <2>2 DEF Holds
    <3>. QED
      BY <1>2, <1>7, <2>1, <2>2, <3>1
  <2>3. CASE Top.item = 0 /\ owned' = owned \cup {Top.prog}
    <3>1. \A k \in 2 .. Len(stack) : Holds(stack'[k], p) => Holds(stack[k], p)
      BY <1>2
    <3>2. Holds(stack'[1], p) <=> p = Top.prog
      BY <1>2, <2>3 DEF Holds
    <3>3. 1 \in 1 .. Len(stack') /\ \A k \in 1 .. Len(stack) : k = 1 \/ k \in 2 .. Len(stack)
      BY <1>1, <1>2
    <3>. QED
      BY <1>2, <1>7, <2>1, <2>3, <3>1, <3>2, <3>3
  <2>. QED
    BY <2>2, <2>3
<1>11. Nested'
  BY <1>8, <1>9, <1>10 DEF Nested, Holds
<1>. QED
  BY <1>5, <1>11

LEMMA PopKeeps ==
    ASSUME ProgramsOK, StackOK, Nested, stack # << >>, stack' = Tail(stack), UNCHANGED programs,
           \/ Top.item # 0 /\ owned' = owned
           \/ Top.item = 0 /\ owned' = owned \ {Top.prog}
    PROVE  StackOK' /\ Nested'
<1>1. /\ Top = stack[1] /\ Top \in Frame
      /\ Len(stack) \in Nat /\ Len(stack) >= 1 /\ stack \in Seq(Frame)
  BY TopTyped DEF StackOK
<1>2. /\ stack' \in Seq(Frame) /\ Len(stack') = Len(stack) - 1
      /\ \A k \in 1 .. Len(stack) - 1 : stack'[k] = stack[k + 1]
  BY <1>1, Popped
<1>4. ASSUME NEW k \in 1 .. Len(stack') PROVE PointsToLine(programs, stack'[k])
  <2>1. k + 1 \in 1 .. Len(stack) /\ stack'[k] = stack[k + 1]
    BY <1>1, <1>2
  <2>. QED
    BY <2>1 DEF StackOK
<1>5. StackOK'
  BY <1>2, <1>4 DEF StackOK
<1>6. ASSUME NEW i \in 1 .. Len(stack'), NEW j \in 1 .. Len(stack'),
             stack'[i].item = 0, stack'[j].item = 0, stack'[i].prog = stack'[j].prog
      PROVE  i = j
  <2>1. /\ i + 1 \in 1 .. Len(stack) /\ stack'[i] = stack[i + 1]
        /\ j + 1 \in 1 .. Len(stack) /\ stack'[j] = stack[j + 1]
    BY <1>1, <1>2
  <2>2. i + 1 = j + 1
    BY <1>6, <2>1 DEF Nested
  <2>. QED
    BY <1>1, <1>2, <2>2
<1>7. ASSUME NEW i \in 1 .. Len(stack'), stack'[i].item # 0
      PROVE  \E j \in 1 .. Len(stack') : j > i /\ Holds(stack'[j], stack'[i].prog)
  <2>1. i + 1 \in 1 .. Len(stack) /\ stack'[i] = stack[i + 1]
    BY <1>1, <1>2
  <2>2. PICK j \in 1 .. Len(stack) : j > i + 1 /\ Holds(stack[j], stack[i + 1].prog)
    BY <1>7, <2>1 DEF Nested
  <2>3. j - 1 \in 1 .. Len(stack') /\ j - 1 > i /\ stack'[j - 1] = stack[j]
    BY <1>1, <1>2, <2>2
  <2>. QED
    BY <2>1, <2>2, <2>3
<1>8. ASSUME NEW p \in Nat PROVE p \in owned' <=> \E j \in 1 .. Len(stack') : Holds(stack'[j], p)
  <2>1. p \in owned <=> \E j \in 1 .. Len(stack) : Holds(stack[j], p)
    BY DEF Nested
  <2>2. (\E j \in 1 .. Len(stack') : Holds(stack'[j], p))
          <=> (\E j \in 2 .. Len(stack) : Holds(stack[j], p))
    <3>1. \A j \in 1 .. Len(stack') : j + 1 \in 2 .. Len(stack) /\ stack'[j] = stack[j + 1]
      BY <1>1, <1>2
    <3>2. \A j \in 2 .. Len(stack) : j - 1 \in 1 .. Len(stack') /\ stack'[j - 1] = stack[j]
      BY <1>1, <1>2
    <3>. QED
      BY <3>1, <3>2
  <2>3. CASE Top.item # 0 /\ owned' = owned
    <3>1. ~Holds(stack[1], p)
      BY <1>1, <2>3 DEF Holds
    <3>2. \A k \in 1 .. Len(stack) : k = 1 \/ k \in 2 .. Len(stack)
      BY <1>1
    <3>3. \A k \in 2 .. Len(stack) : k \in 1 .. Len(stack)
      BY <1>1
    <3>. QED
      BY <2>1, <2>2, <2>3, <3>1, <3>2, <3>3
  <2>4. CASE Top.item = 0 /\ owned' = owned \ {Top.prog}
    <3>1. Holds(stack[1], p) => p = Top.prog
      BY <1>1 DEF Holds
    <3>2. \A k \in 1 .. Len(stack) : k = 1 \/ k \in 2 .. Len(stack)
      BY <1>1
    <3>3. \A k \in 2 .. Len(stack) : k \in 1 .. Len(stack) /\ k # 1
      BY <1>1
    <3>4. \A k \in 2 .. Len(stack) : stack[k].item = 0 => stack[k].prog # Top.prog
      <4>1. 1 \in 1 .. Len(stack)
        BY <1>1
      <4>. QED
        BY <1>1, <2>4, <3>3, <4>1 DEF Nested
    <3>5. \A k \in 2 .. Len(stack) : Holds(stack[k], p) => p # Top.prog
      BY <3>4 DEF Holds
    <3>. QED
      BY <2>1, <2>2, <2>4, <3>1, <3>2, <3>3, <3>5
  <2>. QED
    BY <2>3, <2>4
<1>9. Nested'
  BY <1>6, <1>7, <1>8 DEF Nested, Holds
<1>. QED
  BY <1>5, <1>9

LEMMA PushKeeps ==
    ASSUME ProgramsOK, StackOK, Nested, stack # << >>,
           NEW t \in Frame, t.prog = Top.prog, t.item = Top.item, t.pc = Top.pc,
           NEW g \in Frame, stack' = <<g, t>> \o Tail(stack), UNCHANGED owned,
           \A p \in DOMAIN programs : p \in DOMAIN programs' /\ programs'[p] = programs[p],
           PointsToLine(programs', t), PointsToLine(programs', g),
           \/ g.item = 0 /\ g.pc = "load" /\ g.prog \notin DOMAIN programs
           \/ g.item # 0 /\ g.prog \in owned
    PROVE  StackOK' /\ Nested'
<1>1. /\ Top = stack[1] /\ Top \in Frame
      /\ Len(stack) \in Nat /\ Len(stack) >= 1 /\ stack \in Seq(Frame)
  BY TopTyped DEF StackOK
<1>2. /\ stack' \in Seq(Frame) /\ Len(stack') = Len(stack) + 1 /\ stack'[1] = g /\ stack'[2] = t
      /\ \A k \in 2 .. Len(stack) : stack'[k + 1] = stack[k]
  BY <1>1, Pushed
<1>3. \A f \in Frame : PointsToLine(programs, f) => PointsToLine(programs', f)
  BY PointersStay
(* A frame of before is one further down. *)
<1>4. \A k \in 1 .. Len(stack) :
        /\ k + 1 \in 1 .. Len(stack') /\ stack[k] \in Frame
        /\ stack'[k + 1].item = stack[k].item /\ stack'[k + 1].prog = stack[k].prog
        /\ stack'[k + 1].pc = stack[k].pc
  BY <1>1, <1>2
<1>5. \A k \in 1 .. Len(stack') : k = 1 \/ k - 1 \in 1 .. Len(stack)
  BY <1>1, <1>2
<1>6. ASSUME NEW k \in 1 .. Len(stack') PROVE PointsToLine(programs', stack'[k])
  <2>1. CASE k = 1
    BY <1>2, <2>1
  <2>2. CASE k = 2
    BY <1>2, <2>2
  <2>3. CASE k > 2
    <3>1. k - 1 \in 1 .. Len(stack) /\ stack'[k] = stack[k - 1]
      BY <1>1, <1>2, <2>3
    <3>. QED
      BY <1>3, <1>4, <3>1 DEF StackOK
  <2>. QED
    BY <1>1, <1>2, <2>1, <2>2, <2>3
<1>7. StackOK'
  BY <1>2, <1>6 DEF StackOK
<1>8. \A k \in 1 .. Len(stack) : stack[k].prog \in DOMAIN programs /\ stack[k].prog \in Nat
  BY <1>4 DEF StackOK, PointsToLine, Frame
<1>9. \A k \in 1 .. Len(stack), p \in Nat : Holds(stack'[k + 1], p) <=> Holds(stack[k], p)
  BY <1>4 DEF Holds
<1>10. ASSUME NEW i \in 1 .. Len(stack'), NEW j \in 1 .. Len(stack'),
              stack'[i].item = 0, stack'[j].item = 0, stack'[i].prog = stack'[j].prog
       PROVE  i = j
  <2>1. i # 1 /\ j # 1 => i - 1 = j - 1
    <3>. SUFFICES ASSUME i # 1, j # 1 PROVE i - 1 = j - 1
      OBVIOUS
    <3>1. i - 1 \in 1 .. Len(stack) /\ j - 1 \in 1 .. Len(stack)
      BY <1>5
    <3>2. stack'[(i - 1) + 1] = stack'[i] /\ stack'[(j - 1) + 1] = stack'[j]
      BY <1>1, <1>2
    <3>3. /\ stack[i - 1].item = 0 /\ stack[j - 1].item = 0
          /\ stack[i - 1].prog = stack[j - 1].prog
      BY <1>4, <1>10, <3>1, <3>2
    <3>. QED
      BY <3>1, <3>3 DEF Nested
  <2>2. \A k \in 1 .. Len(stack') : k # 1 => stack'[k].prog \in DOMAIN programs
    <3>1. ASSUME NEW k \in 1 .. Len(stack'), k # 1 PROVE stack'[k].prog \in DOMAIN programs
      <4>1. k - 1 \in 1 .. Len(stack) /\ (k - 1) + 1 = k
        BY <1>1, <1>2, <1>5, <3>1
      <4>. QED
        BY <1>4, <1>8, <4>1
    <3>. QED
      BY <3>1
  <2>3. stack'[1].item = 0 => stack'[1].prog \notin DOMAIN programs
    BY <1>2
  <2>4. (i = 1) <=> (j = 1)
    BY <1>10, <2>2, <2>3
  <2>. QED
    BY <1>1, <1>2, <2>1, <2>4
<1>11. ASSUME NEW i \in 1 .. Len(stack'), stack'[i].item # 0
       PROVE  \E j \in 1 .. Len(stack') : j > i /\ Holds(stack'[j], stack'[i].prog)
  <2>1. CASE i = 1
    <3>1. g.prog \in owned /\ g.prog \in Nat
      BY <1>2, <1>11, <2>1 DEF Frame
    <3>2. PICK j \in 1 .. Len(stack) : Holds(stack[j], g.prog)
      BY <3>1 DEF Nested
    <3>3. j + 1 \in 1 .. Len(stack') /\ j + 1 > i /\ Holds(stack'[j + 1], g.prog)
      BY <1>1, <1>2, <1>9, <2>1, <3>1, <3>2
    <3>. QED
      BY <1>2, <2>1, <3>3
  <2>2. CASE i # 1
    <3>1. i - 1 \in 1 .. Len(stack) /\ (i - 1) + 1 = i
      BY <1>1, <1>2, <1>5, <2>2
    <3>2. stack[i - 1].item # 0 /\ stack[i - 1].prog = stack'[i].prog /\ stack[i - 1].prog \in Nat
      BY <1>4, <1>8, <1>11, <3>1
    <3>3. PICK j \in 1 .. Len(stack) : j > i - 1 /\ Holds(stack[j], stack[i - 1].prog)
      BY <3>1, <3>2 DEF Nested
    <3>4. j + 1 \in 1 .. Len(stack') /\ j + 1 > i /\ Holds(stack'[j + 1], stack'[i].prog)
      BY <1>1, <1>2, <1>9, <3>1, <3>2, <3>3
    <3>. QED
      BY <3>4
  <2>. QED
    BY <2>1, <2>2
<1>12. ASSUME NEW p \in Nat PROVE p \in owned' <=> \E j \in 1 .. Len(stack') : Holds(stack'[j], p)
  <2>1. p \in owned <=> \E j \in 1 .. Len(stack) : Holds(stack[j], p)
    BY DEF Nested
  <2>2. ~Holds(stack'[1], p)
    BY <1>2 DEF Holds
  <2>3. ASSUME NEW j \in 1 .. Len(stack'), Holds(stack'[j], p)
        PROVE  \E k \in 1 .. Len(stack) : Holds(stack[k], p)
    <3>1. j - 1 \in 1 .. Len(stack) /\ (j - 1) + 1 = j
      BY <1>1, <1>2, <1>5, <2>2, <2>3
    <3>. QED
      BY <1>9, <2>3, <3>1
  <2>4. ASSUME NEW k \in 1 .. Len(stack), Holds(stack[k], p)
        PROVE  \E j \in 1 .. Len(stack') : Holds(stack'[j], p)
    BY <1>4, <1>9, <2>4
  <2>. QED
    BY <2>1, <2>3, <2>4
<1>13. Nested'
  BY <1>10, <1>11, <1>12 DEF Nested, Holds
<1>. QED
  BY <1>7, <1>13

(* A step that changes neither the stack nor what is alive. *)
LEMMA StayKeeps ==
    ASSUME StackOK, Nested, UNCHANGED <<stack, alive, programs>>
    PROVE  StackOK' /\ Nested'
<1>1. owned' = owned
  BY DEF owned, Text
<1>. QED
  BY <1>1 DEF StackOK, Nested

-----------------------------------------------------------------------------
(* The table, when nothing is entered in it: a program may be freed, and is retired
   when it had defined a function. *)
LEMMA TableStays ==
    ASSUME ProgramsOK, TableOK, Known, UNCHANGED <<table, latest>>,
           \A p \in DOMAIN programs : p \in DOMAIN programs' /\ programs'[p] = programs[p],
           \A p \in alive \cup retired : p \in alive' \cup retired' \/ ~Defines(p)
    PROVE  TableOK' /\ Known'
<1>1. \A p, k : FunctionAt(programs, p, k) => FunctionAt(programs', p, k)
  BY PointersStay
<1>2. TableOK'
  BY <1>1 DEF TableOK, Bucket
<1>3. \A p, k : FunctionAt(programs, p, k) => Defines(p)
  BY DEF FunctionAt, ItemsOf, Defines, Text
<1>4. Known'
  BY <1>3 DEF Known, TableOK
<1>. QED
  BY <1>2, <1>4

LEMMA NewestStays ==
    ASSUME Newest, UNCHANGED <<table, latest>>,
           status' = "running" => status = "running", retired \subseteq retired'
    PROVE  Newest'
<1>. SUFFICES ASSUME status' = "running", retired' = {}, NEW n \in Name
              PROVE  FirstIs(table'[Bucket(n)], n, latest'[n])
  BY DEF Newest, Bucket
<1>1. status = "running" /\ retired = {}
  OBVIOUS
<1>. QED
  BY <1>1 DEF Newest

(* Why the shell stopped stays true, and so does why it will. *)
LEMMA ReasonStays ==
    ASSUME StopsOnlyAfterBadText, FreedByLexer, UNCHANGED <<list, status>>,
           \A p \in DOMAIN programs : p \in DOMAIN programs' /\ programs'[p] = programs[p],
           retired \subseteq retired'
    PROVE  StopsOnlyAfterBadText' /\ FreedByLexer'
<1>1. \A p \in DOMAIN programs :
        p \in DOMAIN programs' /\ Content[programs'[p]] = Content[programs[p]]
  OBVIOUS
<1>. QED
  BY <1>1 DEF StopsOnlyAfterBadText, FreedByLexer, Text

LEMMA FirstAt ==
    ASSUME NEW l, NEW n, NEW e, NEW k \in 1 .. Len(l), l[k] = e, e.name = n,
           \A j \in 1 .. k - 1 : l[j].name # n
    PROVE  FirstIs(l, n, e)
BY DEF FirstIs

LEMMA InsertKeeps ==
    ASSUME ProgramsOK, TableOK, Known, Newest,
           NEW e \in Entry, FunctionAt(programs, e.prog, e.item), e.prog \in alive,
           hash_map_insert(e), latest' = [latest EXCEPT ![e.name] = e],
           UNCHANGED <<programs, alive, retired, status>>
    PROVE  TableOK' /\ Known' /\ Newest'
<1>. DEFINE b == Bucket(e.name)
            l == table[b]
<1>1. e.name \in Name /\ b \in Index /\ l \in Seq(Entry) /\ Len(l) \in Nat
  BY BucketTyped DEF Entry, TableOK
<1>2. /\ latest' \in [Name -> Entry \cup {Undefined}] /\ latest'[e.name] = e
      /\ \A n \in Name : n # e.name => latest'[n] = latest[n]
  BY <1>1 DEF TableOK
<1>3. \A n \in Name : Bucket(n) \in Index /\ Bucket(n)' = Bucket(n)
  BY BucketTyped DEF Bucket
(* Whatever the new list of the bucket is, if it has only e and what was there. *)
<1>4. ASSUME NEW m \in Seq(Entry), table' = [table EXCEPT ![b] = m],
             \A k \in 1 .. Len(m) : m[k] = e \/ \E i \in 1 .. Len(l) : m[k] = l[i]
      PROVE  TableOK' /\ Known'
  <2>1. /\ table' \in [Index -> Seq(Entry)] /\ table'[b] = m
        /\ \A c \in Index : c # b => table'[c] = table[c]
    BY <1>1, <1>4 DEF TableOK
  <2>2. ASSUME NEW c \in Index, NEW k \in 1 .. Len(table'[c])
        PROVE  /\ Bucket(table'[c][k].name) = c
               /\ FunctionAt(programs, table'[c][k].prog, table'[c][k].item)
               /\ table'[c][k].prog \in alive \cup retired
    <3>1. CASE c # b
      BY <2>1, <3>1 DEF TableOK, Known
    <3>2. CASE c = b
      <4>1. CASE m[k] = e
        BY <2>1, <3>2, <4>1
      <4>2. CASE \E i \in 1 .. Len(l) : m[k] = l[i]
        BY <1>1, <2>1, <3>2, <4>2 DEF TableOK, Known
      <4>. QED
        BY <1>4, <2>1, <2>2, <3>2, <4>1, <4>2
    <3>. QED
      BY <3>1, <3>2
  <2>3. TableOK'
    BY <1>2, <2>1, <2>2 DEF TableOK, Bucket
  <2>4. Known'
    BY <2>2 DEF Known
  <2>. QED
    BY <2>3, <2>4
<1>5. CASE table' = [table EXCEPT ![b] = <<e>> \o @]
  <2>. DEFINE m == <<e>> \o l
  <2>1. /\ m \in Seq(Entry) /\ Len(m) = Len(l) + 1 /\ m[1] = e
        /\ \A k \in 1 .. Len(l) : m[k + 1] = l[k]
    BY <1>1
  <2>2. ASSUME NEW k \in 1 .. Len(m), k # 1
        PROVE  k - 1 \in 1 .. Len(l) /\ m[k] = l[k - 1]
    <3>1. k - 1 \in 1 .. Len(l) /\ (k - 1) + 1 = k
      BY <1>1, <2>1, <2>2
    <3>. QED
      BY <2>1, <3>1
  <2>3. table' = [table EXCEPT ![b] = m]
    BY <1>5
  <2>4. TableOK' /\ Known'
    BY <1>4, <2>1, <2>2, <2>3
  <2>5. table'[b] = m /\ \A c \in Index : c # b => table'[c] = table[c]
    BY <1>1, <2>3 DEF TableOK
  <2>6. ASSUME status' = "running", retired' = {}, NEW n \in Name
        PROVE  FirstIs(table'[Bucket(n)], n, latest'[n])
    <3>1. FirstIs(table[Bucket(n)], n, latest[n])
      BY <2>6 DEF Newest
    <3>2. CASE n = e.name
      <4>1. 1 \in 1 .. Len(m) /\ m[1] = e /\ \A j \in 1 .. 1 - 1 : FALSE
        BY <1>1, <2>1
      <4>. QED
        BY <1>2, <2>5, <3>2, <4>1 DEF FirstIs
    <3>3. CASE n # e.name /\ Bucket(n) # b
      BY <1>2, <1>3, <2>5, <3>1, <3>3
    <3>4. CASE n # e.name /\ Bucket(n) = b
      <4>1. CASE latest[n] = Undefined /\ \A i \in 1 .. Len(l) : l[i].name # n
        <5>1. \A k \in 1 .. Len(m) : m[k].name # n
          BY <2>1, <2>2, <3>4, <4>1
        <5>. QED
          BY <1>2, <2>5, <3>4, <4>1, <5>1 DEF FirstIs
      <4>2. CASE \E i \in 1 .. Len(l) : /\ l[i] = latest[n] /\ latest[n].name = n
                                        /\ \A j \in 1 .. i - 1 : l[j].name # n
        <5>1. PICK i \in 1 .. Len(l) : /\ l[i] = latest[n] /\ latest[n].name = n
                                       /\ \A j \in 1 .. i - 1 : l[j].name # n
          BY <4>2
        <5>2. i + 1 \in 1 .. Len(m) /\ m[i + 1] = latest[n]
          BY <1>1, <2>1, <5>1
        <5>3. ASSUME NEW j \in 1 .. (i + 1) - 1 PROVE m[j].name # n
          <6>1. CASE j = 1
            BY <2>1, <3>4, <6>1
          <6>2. CASE j # 1
            <7>1. j - 1 \in 1 .. i - 1 /\ j - 1 \in 1 .. Len(l) /\ (j - 1) + 1 = j
              BY <1>1, <5>1, <6>2
            <7>2. m[j] = l[j - 1]
              BY <2>1, <7>1
            <7>. QED
              BY <5>1, <7>1, <7>2
          <6>. QED
            BY <6>1, <6>2
        <5>4. FirstIs(m, n, latest[n])
          BY <5>1, <5>2, <5>3, FirstAt
        <5>. QED
          BY <1>2, <2>5, <3>4, <5>4
      <4>. QED
        BY <3>1, <3>4, <4>1, <4>2 DEF FirstIs
    <3>. QED
      BY <3>2, <3>3, <3>4
  <2>7. Newest'
    BY <1>3, <2>6 DEF Newest
  <2>. QED
    BY <2>4, <2>7
<1>6. ASSUME NEW i \in DOMAIN l, SameAddress(l[i]), table' = [table EXCEPT ![b][i] = e]
      PROVE  TableOK' /\ Known' /\ Newest'
  <2>. DEFINE m == [l EXCEPT ![i] = e]
  <2>1. m \in Seq(Entry) /\ Len(m) = Len(l) /\ i \in 1 .. Len(l)
    BY <1>1
  <2>2. \A k \in 1 .. Len(m) : m[k] = e \/ m[k] = l[k]
    BY <1>1, <2>1
  <2>3. table' = [table EXCEPT ![b] = m]
    BY <1>6
  <2>4. TableOK' /\ Known'
    BY <1>4, <2>1, <2>2, <2>3
  <2>5. retired # {}
    BY <1>1, <1>6, <2>1 DEF SameAddress, Readable, Known
  <2>. QED
    BY <2>4, <2>5 DEF Newest
<1>. QED
  BY <1>5, <1>6 DEF hash_map_insert

-----------------------------------------------------------------------------
(* The steps, by what they do to the stack. *)
LEMMA NewTop ==
    ASSUME NEW f \in Frame, NEW pc \in {"load", "parse", "run"}, NEW at \in Nat
    PROVE  /\ [f EXCEPT !.pc = pc, !.at = at]
                = [prog |-> f.prog, item |-> f.item, pc |-> pc, at |-> at]
           /\ [f EXCEPT !.at = at] = [prog |-> f.prog, item |-> f.item, pc |-> f.pc, at |-> at]
           /\ [prog |-> f.prog, item |-> f.item, pc |-> pc, at |-> at] \in Frame
<1>1. ASSUME NEW g, g = [prog |-> f.prog, item |-> f.item, pc |-> pc, at |-> f.at]
      PROVE  [g EXCEPT !.at = at] = [prog |-> f.prog, item |-> f.item, pc |-> pc, at |-> at]
  BY <1>1
<1>2. [f EXCEPT !.pc = pc] = [prog |-> f.prog, item |-> f.item, pc |-> pc, at |-> f.at]
  BY DEF Frame
<1>3. [f EXCEPT !.at = at] = [prog |-> f.prog, item |-> f.item, pc |-> f.pc, at |-> at]
  BY DEF Frame
<1>4. [prog |-> f.prog, item |-> f.item, pc |-> pc, at |-> at] \in Frame
  BY DEF Frame
<1>. QED
  BY <1>1, <1>2, <1>3, <1>4

(* A frame with another place on the same line. *)
LEMMA SameLine ==
    ASSUME NEW P, NEW f \in Frame, PointsToLine(P, f),
           NEW pc \in {"load", "parse", "run"}, NEW at \in 1 .. Len(LineOf(P, f)) + 1,
           f.item # 0 => pc = "run"
    PROVE  PointsToLine(P, [prog |-> f.prog, item |-> f.item, pc |-> pc, at |-> at])
BY DEF PointsToLine, LineOf

LEMMA GotoKeeps ==
    ASSUME ProgramsOK, StackOK, Nested, stack # << >>,
           NEW pc \in {"parse", "run"}, NEW at \in 1 .. Len(Line(Top)) + 1, GoTo(pc, at),
           Top.item # 0 => pc = "run", UNCHANGED programs,
           \/ Top.pc # "load" /\ owned' = owned
           \/ Top.item = 0 /\ owned' = owned \cup {Top.prog}
    PROVE  StackOK' /\ Nested'
<1>. DEFINE g == [prog |-> Top.prog, item |-> Top.item, pc |-> pc, at |-> at]
<1>1. Top \in Frame /\ PointsToLine(programs, Top) /\ Line(Top) = LineOf(programs, Top)
  BY TopTyped
<1>2. Len(Line(Top)) \in Nat /\ at \in Nat
  BY <1>1, LineTyped
<1>3. g \in Frame /\ stack' = <<g>> \o Tail(stack)
  BY <1>1, <1>2, NewTop DEF GoTo
<1>4. PointsToLine(programs, g)
  BY <1>1, SameLine
<1>5. g.prog = Top.prog /\ g.item = Top.item /\ g.pc # "load"
  OBVIOUS
<1>. HIDE DEF g
<1>. QED
  BY <1>3, <1>4, <1>5, MoveKeeps

(* What is owned stays owned while the texts and what is allocated stay. *)
LEMMA OwnedStays ==
    ASSUME alive \subseteq DOMAIN programs, alive' = alive,
           \A p \in DOMAIN programs : programs'[p] = programs[p]
    PROVE  owned' = owned
<1>1. \A p \in alive : Content[programs'[p]] = Content[programs[p]]
  OBVIOUS
<1>. QED
  BY <1>1 DEF owned, Text

(* A program that defines something was lexed. *)
LEMMA FunctionsLexed ==
    ASSUME ProgramsOK, NEW p \in alive, NEW k, FunctionAt(programs, p, k)
    PROVE  p \in owned
<1>1. p \in DOMAIN programs /\ programs[p] \in File /\ k \in DOMAIN Text(p).items
  BY DEF ProgramsOK, FunctionAt, ItemsOf, Text
<1>2. Text(p).items # << >>
  BY <1>1
<1>3. Text(p).form \notin Unlexed
  BY <1>1, <1>2, SessionAssumption, Zenon DEF Text
<1>. QED
  BY <1>3, Zenon DEF owned, Unlexed

(* A program that is not lexed yet is not owned, and a frame of its own. *)
LEMMA NotLoaded ==
    ASSUME ProgramsOK, StackOK, Nested, stack # << >>, Top.item = 0, Top.pc = "load"
    PROVE  Top.prog \notin owned
<1>. SUFFICES ASSUME Top.prog \in owned PROVE FALSE
  OBVIOUS
<1>1. Top = stack[1] /\ 1 \in 1 .. Len(stack) /\ Top.prog \in Nat
  BY TopTyped DEF Frame
<1>2. PICK j \in 1 .. Len(stack) : Holds(stack[j], Top.prog)
  BY <1>1 DEF Nested
<1>3. j = 1
  BY <1>1, <1>2 DEF Nested, Holds
<1>. QED
  BY <1>1, <1>2, <1>3 DEF Holds

(* Nothing changes but the stack and, when they grow, what is alive or retired. *)
LEMMA OnlyStack ==
    ASSUME IInv, UNCHANGED <<programs, table, list, status, latest>>,
           StackOK' /\ Nested', alive' \cup retired' \subseteq DOMAIN programs,
           retired \subseteq retired',
           \A p \in alive : p \in alive' \cup retired' \/ ~Defines(p)
    PROVE  IInv'
<1>1. ProgramsOK'
  BY DEF IInv, ProgramsOK
<1>2. TableOK' /\ Known'
  <2>1. \A p \in alive \cup retired : p \in alive' \cup retired' \/ ~Defines(p)
    OBVIOUS
  <2>. QED
    BY <2>1, TableStays DEF IInv
<1>3. Newest'
  BY NewestStays DEF IInv
<1>4. FreedByLexer' /\ StopsOnlyAfterBadText'
  BY ReasonStays DEF IInv
<1>. QED
  BY <1>1, <1>2, <1>3, <1>4 DEF IInv

LEMMA ParserSteps ==
    ASSUME IInv, Lex \/ ParseCommand \/ Parsed \/ Plain \/ DotFails \/ CallNothing
    PROVE  IInv'
<1>1. stack # << >> /\ StackOK /\ ProgramsOK /\ Nested
  BY DEF IInv, Lex, ParseCommand, Parsed, Plain, DotFails, CallNothing, AtProgram, AtCommand,
         Running
<1>2. /\ Top \in Frame /\ PointsToLine(programs, Top) /\ Len(Line(Top)) \in Nat
      /\ Top.at \in DOMAIN Line(Top) => Top.at + 1 \in 1 .. Len(Line(Top)) + 1
      /\ 1 \in 1 .. Len(Line(Top)) + 1
  BY <1>1, TopTyped, LineTyped
<1>3. alive \subseteq DOMAIN programs /\ retired \subseteq DOMAIN programs
  BY <1>1 DEF ProgramsOK
<1>4. CASE Lex
  <2>1. GoTo("parse", 1) /\ Top.item = 0 /\ alive' = alive \cup {Top.prog}
    BY <1>4 DEF Lex, AtProgram
  <2>2. UNCHANGED <<programs, table, list, status, latest, retired>>
    BY <1>4 DEF Lex
  <2>5. Text(Top.prog).form # "var"
    BY <1>4 DEF Lex, Unlexed
  <2>6. owned' = owned \cup {Top.prog}
    <3>1. \A p : Content[programs'[p]] = Content[programs[p]]
      BY <2>2
    <3>. QED
      BY <2>1, <2>5, <3>1 DEF owned, Text
  <2>3. StackOK' /\ Nested'
    BY <1>1, <1>2, <2>1, <2>2, <2>6, GotoKeeps
  <2>4. Top.prog \in DOMAIN programs
    BY <1>2 DEF PointsToLine
  <2>. QED
    BY <1>3, <2>1, <2>2, <2>3, <2>4, OnlyStack
<1>5. ASSUME NEW pc \in {"parse", "run"}, NEW at \in 1 .. Len(Line(Top)) + 1, GoTo(pc, at),
             Top.item # 0 => pc = "run", Top.pc # "load",
             UNCHANGED <<programs, alive, table, list, status, latest, retired>>
      PROVE  IInv'
  <2>2. owned' = owned
    BY <1>3, <1>5, OwnedStays
  <2>1. StackOK' /\ Nested'
    BY <1>1, <1>5, <2>2, GotoKeeps
  <2>. QED
    BY <1>3, <1>5, <2>1, OnlyStack
<1>6. CASE ParseCommand
  <2>1. /\ GoTo("parse", Top.at + 1) /\ Top.at \in DOMAIN Line(Top)
        /\ Top.item = 0 /\ Top.pc # "load"
        /\ UNCHANGED <<programs, alive, table, list, status, latest, retired>>
    BY <1>6 DEF ParseCommand, AtProgram, Over
  <2>. QED
    BY <1>2, <1>5, <2>1
<1>7. CASE Parsed
  <2>1. /\ GoTo("run", 1) /\ Top.pc # "load"
        /\ UNCHANGED <<programs, alive, table, list, status, latest, retired>>
    BY <1>7 DEF Parsed, AtProgram
  <2>. QED
    BY <1>2, <1>5, <2>1
<1>8. CASE Plain \/ DotFails \/ CallNothing
  <2>1. /\ GoTo("run", Top.at + 1) /\ Top.at \in DOMAIN Line(Top) /\ Top.pc # "load"
        /\ UNCHANGED <<programs, alive, table, list, status, latest, retired>>
    BY <1>8 DEF Plain, DotFails, CallNothing, AtCommand
  <2>. QED
    BY <1>2, <1>5, <2>1
<1>. QED
  BY <1>4, <1>6, <1>7, <1>8

LEMMA FunctionStep ==
    ASSUME IInv, ParseFunction
    PROVE  IInv'
<1>1. /\ stack # << >> /\ Top.item = 0 /\ Top.pc = "parse" /\ status = "running"
      /\ Top.at \in DOMAIN Line(Top) /\ Item.op = "def"
  BY DEF ParseFunction, AtProgram, Running, Over
<1>2. /\ ProgramsOK /\ StackOK /\ TableOK /\ Nested /\ Known /\ Newest
      /\ FreedByLexer /\ StopsOnlyAfterBadText
  BY DEF IInv
<1>3. /\ Top = stack[1] /\ 1 \in 1 .. Len(stack) /\ Top \in Frame
      /\ PointsToLine(programs, Top) /\ Item \in Items
      /\ Top.at + 1 \in 1 .. Len(Line(Top)) + 1
      /\ Line(Top) = ItemsOf(programs, Top.prog)
  BY <1>1, <1>2, TopTyped
<1>. DEFINE e == [name |-> Item.name, prog |-> Top.prog, item |-> Top.at]
<1>4. e \in Entry
  BY <1>1, <1>3, OpOfItem DEF Entry, Frame
<1>5. FunctionAt(programs, e.prog, e.item)
  BY <1>1, <1>3 DEF FunctionAt, PointsToLine, Item
<1>6. e.prog \in alive
  <2>1. Holds(stack[1], Top.prog) /\ Top.prog \in Nat
    BY <1>1, <1>3 DEF Holds, Frame
  <2>. QED
    BY <1>2, <1>3, <2>1 DEF Nested, owned
<1>7. /\ hash_map_insert(e) /\ latest' = [latest EXCEPT ![e.name] = e]
      /\ GoTo("parse", Top.at + 1) /\ UNCHANGED <<programs, alive, list, status, retired>>
  BY DEF ParseFunction
<1>. HIDE DEF e
<1>8. TableOK' /\ Known' /\ Newest'
  BY <1>2, <1>4, <1>5, <1>6, <1>7, InsertKeeps
<1>12. owned' = owned
  BY <1>2, <1>7, OwnedStays DEF ProgramsOK
<1>9. StackOK' /\ Nested'
  BY <1>1, <1>2, <1>3, <1>7, <1>12, GotoKeeps
<1>10. ProgramsOK'
  BY <1>2, <1>7 DEF ProgramsOK
<1>11. FreedByLexer' /\ StopsOnlyAfterBadText'
  BY <1>2, <1>7, ReasonStays
<1>. QED
  BY <1>8, <1>9, <1>10, <1>11 DEF IInv

(* What a lookup finds is in the bucket. *)
LEMMA Found ==
    ASSUME TableOK, Known, NEW n \in Name, NEW e \in hash_map_get(n), e # Undefined
    PROVE  /\ e \in Entry /\ FunctionAt(programs, e.prog, e.item)
           /\ e.prog \in alive \cup retired
<1>1. Bucket(n) \in Index /\ table[Bucket(n)] \in Seq(Entry)
  BY BucketTyped DEF TableOK
<1>2. PICK i \in 1 .. Len(table[Bucket(n)]) : e = table[Bucket(n)][i]
  BY <1>1 DEF hash_map_get
<1>. QED
  BY <1>1, <1>2 DEF TableOK, Known

LEMMA ReturnSteps ==
    ASSUME IInv, LexFails \/ ParseFails \/ ReturnFromFunction \/ ReturnFromProgram
    PROVE  IInv'
<1>1. stack # << >> /\ StackOK /\ ProgramsOK /\ Nested /\ TableOK /\ Known /\ Newest
  BY DEF IInv, LexFails, ParseFails, ReturnFromFunction, ReturnFromProgram, AtProgram, Running
<1>2. alive \subseteq DOMAIN programs /\ retired \subseteq DOMAIN programs
  BY <1>1 DEF ProgramsOK
<1>3. Top.prog \in DOMAIN programs
  BY <1>1, TopTyped DEF PointsToLine
<1>4. CASE ParseFails \/ ReturnFromProgram
  <2>1. /\ Top.item = 0 /\ alive' = alive \ {Top.prog} /\ stack' = Tail(stack)
        /\ retired' = IF Defines(Top.prog) THEN retired \cup {Top.prog} ELSE retired
        /\ UNCHANGED <<programs, table, list, status, latest>>
    BY <1>4 DEF ParseFails, ReturnFromProgram, AtProgram, Release
  <2>3. owned' = owned \ {Top.prog}
    <3>1. \A p : Content[programs'[p]] = Content[programs[p]]
      BY <2>1
    <3>. QED
      BY <2>1, <3>1 DEF owned, Text
  <2>2. StackOK' /\ Nested'
    BY <1>1, <2>1, <2>3, PopKeeps
  <2>. QED
    BY <1>2, <1>3, <2>1, <2>2, OnlyStack
<1>5. CASE ReturnFromFunction
  <2>1. /\ Top.item # 0 /\ stack' = Tail(stack)
        /\ UNCHANGED <<programs, alive, table, list, status, latest, retired>>
    BY <1>5 DEF ReturnFromFunction
  <2>3. owned' = owned
    BY <1>2, <2>1, OwnedStays
  <2>2. StackOK' /\ Nested'
    BY <1>1, <2>1, <2>3, PopKeeps
  <2>. QED
    BY <1>2, <2>1, <2>2, OnlyStack
<1>6. CASE LexFails
  <2>1. /\ Top.item = 0 /\ Top.pc = "load" /\ Text(Top.prog).form \in Unlexed
        /\ stack' = Tail(stack) /\ list' = "freed" /\ status = "running"
        /\ \/ alive' = alive
           \/ Text(Top.prog).form = "var" /\ alive' = alive \cup {Top.prog}
        /\ UNCHANGED <<programs, table, status, latest, retired>>
    BY <1>6, Zenon DEF LexFails, AtProgram, Running
  <2>2. owned' = owned \ {Top.prog}
    <3>1. \A p : Content[programs'[p]] = Content[programs[p]]
      BY <2>1
    <3>2. owned' = owned
      BY <2>1, <3>1 DEF owned, Text
    <3>. QED
      BY <1>1, <2>1, <3>2, NotLoaded
  <2>3. StackOK' /\ Nested'
    BY <1>1, <2>1, <2>2, PopKeeps
  <2>4. TableOK' /\ Known' /\ Newest'
    BY <1>1, <2>1, TableStays, NewestStays
  <2>5. ProgramsOK'
    BY <1>1, <1>2, <1>3, <2>1 DEF ProgramsOK
  <2>6. FreedByLexer' /\ StopsOnlyAfterBadText'
    BY <1>3, <2>1 DEF FreedByLexer, StopsOnlyAfterBadText, Text
  <2>. QED
    BY <2>3, <2>4, <2>5, <2>6 DEF IInv
<1>. QED
  BY <1>4, <1>5, <1>6

LEMMA DotStep ==
    ASSUME IInv, Dot
    PROVE  IInv'
<1>1. /\ stack # << >> /\ Top.pc = "run" /\ Top.at \in DOMAIN Line(Top) /\ Item.op = "dot"
      /\ Len(programs) < MaxPrograms /\ programs' = Append(programs, Item.file)
      /\ stack' = <<Program(Len(programs) + 1), [Top EXCEPT !.at = @ + 1]>> \o Tail(stack)
      /\ UNCHANGED <<alive, table, list, status, latest, retired>>
  BY DEF Dot, AtCommand, Running
<1>2. /\ ProgramsOK /\ StackOK /\ TableOK /\ Nested /\ Known /\ Newest
      /\ FreedByLexer /\ StopsOnlyAfterBadText
  BY DEF IInv
<1>3. /\ Top \in Frame /\ PointsToLine(programs, Top) /\ Item \in Items
      /\ Top.at + 1 \in 1 .. Len(LineOf(programs, Top)) + 1 /\ Top.at + 1 \in Nat
  BY <1>1, <1>2, TopTyped, LineTyped DEF Frame
<1>4. Item.file \in File
  BY <1>1, <1>3, OpOfItem
<1>5. /\ programs' \in Seq(File) /\ Len(programs') = Len(programs) + 1
      /\ Len(programs) \in Nat /\ Len(programs) + 1 \in DOMAIN programs'
      /\ Len(programs) + 1 \notin DOMAIN programs
      /\ DOMAIN programs \subseteq DOMAIN programs'
      /\ \A p \in DOMAIN programs : p \in DOMAIN programs' /\ programs'[p] = programs[p]
  BY <1>1, <1>2, <1>4, ProgramsGrow DEF ProgramsOK
<1>6. ProgramsOK'
  BY <1>1, <1>2, <1>5, SessionAssumption DEF ProgramsOK
<1>. DEFINE t == [prog |-> Top.prog, item |-> Top.item, pc |-> "run", at |-> Top.at + 1]
            g == Program(Len(programs) + 1)
<1>7. t \in Frame /\ PointsToLine(programs, t)
  BY <1>3, NewTop, SameLine
<1>8. PointsToLine(programs', t)
  BY <1>5, <1>7, PointersStay
<1>9. g \in Frame /\ g.item = 0 /\ g.pc = "load" /\ g.prog = Len(programs) + 1 /\ g.at = 1
  BY <1>5 DEF Program, Frame
<1>10. PointsToLine(programs', g)
  <2>1. ItemsOf(programs', g.prog) \in Seq(Items)
    BY <1>5, <1>9, SessionAssumption DEF ItemsOf, Items
  <2>. QED
    BY <1>5, <1>9, <2>1 DEF PointsToLine, LineOf
<1>11. t.prog = Top.prog /\ t.item = Top.item /\ t.pc = Top.pc
  BY <1>1
<1>12. stack' = <<g, t>> \o Tail(stack)
  BY <1>1, <1>3, NewTop
<1>. HIDE DEF t, g
<1>16. owned' = owned
  BY <1>1, <1>2, <1>5, OwnedStays DEF ProgramsOK
<1>13. StackOK' /\ Nested'
  BY <1>1, <1>2, <1>5, <1>16, <1>7, <1>8, <1>9, <1>10, <1>11, <1>12, PushKeeps
<1>14. TableOK' /\ Known' /\ Newest'
  BY <1>1, <1>2, <1>5, TableStays, NewestStays
<1>15. FreedByLexer' /\ StopsOnlyAfterBadText'
  BY <1>1, <1>2, <1>5, ReasonStays
<1>. QED
  BY <1>6, <1>13, <1>14, <1>15 DEF IInv

LEMMA CallStep ==
    ASSUME IInv, Call
    PROVE  IInv'
<1>1. /\ stack # << >> /\ Top.pc = "run" /\ Top.at \in DOMAIN Line(Top) /\ Item.op = "call"
      /\ UNCHANGED <<programs, alive, table, list, status, latest, retired>>
  BY DEF Call, AtCommand, Running
<1>2. ProgramsOK /\ StackOK /\ TableOK /\ Nested /\ Known
  BY DEF IInv
<1>3. /\ Top \in Frame /\ PointsToLine(programs, Top) /\ Item \in Items
      /\ Top.at + 1 \in 1 .. Len(LineOf(programs, Top)) + 1 /\ Top.at + 1 \in Nat
  BY <1>1, <1>2, TopTyped, LineTyped DEF Frame
<1>4. Item.name \in Name
  BY <1>1, <1>3, OpOfItem
<1>5. PICK e \in hash_map_get(Item.name) :
        /\ e # Undefined /\ Readable(e)
        /\ stack' = <<[prog |-> e.prog, item |-> e.item, pc |-> "run", at |-> 1],
                      [Top EXCEPT !.at = @ + 1]>> \o Tail(stack)
  BY DEF Call
<1>6. e \in Entry /\ FunctionAt(programs, e.prog, e.item) /\ e.prog \in alive
  BY <1>2, <1>4, <1>5, Found DEF Readable
<1>. DEFINE t == [prog |-> Top.prog, item |-> Top.item, pc |-> "run", at |-> Top.at + 1]
            g == [prog |-> e.prog, item |-> e.item, pc |-> "run", at |-> 1]
<1>7. t \in Frame /\ PointsToLine(programs, t) /\ stack' = <<g, t>> \o Tail(stack)
  <2>1. t \in Frame /\ PointsToLine(programs, t)
    BY <1>3, NewTop, SameLine
  <2>2. [Top EXCEPT !.at = @ + 1] = t
    BY <1>1, <1>3, NewTop
  <2>. QED
    BY <1>5, <2>1, <2>2
<1>8. e.prog \in DOMAIN programs /\ ItemsOf(programs, e.prog) \in Seq(Items)
  BY <1>2, <1>6, TextTyped DEF FunctionAt
<1>9. g \in Frame /\ g.item # 0 /\ g.prog \in owned
  BY <1>2, <1>6, <1>8, FunctionsLexed DEF Entry, Frame, FunctionAt
<1>10. PointsToLine(programs, g)
  <2>1. ItemsOf(programs, e.prog)[e.item] \in Items /\ ItemsOf(programs, e.prog)[e.item].op = "def"
    BY <1>6, <1>8 DEF FunctionAt
  <2>2. ItemsOf(programs, e.prog)[e.item].body \in Seq(Commands)
    BY <2>1, OpOfItem
  <2>. QED
    BY <1>6, <1>8, <1>9, <2>2 DEF PointsToLine, LineOf
<1>11. t.prog = Top.prog /\ t.item = Top.item /\ t.pc = Top.pc
  BY <1>1
<1>. HIDE DEF t, g
<1>13. owned' = owned
  BY <1>1, <1>2, OwnedStays DEF ProgramsOK
<1>12. StackOK' /\ Nested'
  BY <1>1, <1>2, <1>7, <1>13, <1>9, <1>10, <1>11, PushKeeps
<1>. QED
  BY <1>1, <1>2, <1>12, OnlyStack DEF ProgramsOK

LEMMA StopSteps ==
    ASSUME IInv, PrintOverflows \/ CallFreed \/ UseFreedList \/ MainReturns
    PROVE  IInv'
<1>1. /\ ProgramsOK /\ StackOK /\ TableOK /\ Nested /\ Known /\ Newest
      /\ FreedByLexer /\ StopsOnlyAfterBadText
  BY DEF IInv
<1>2. /\ UNCHANGED <<programs, alive, stack, latest, retired>>
      /\ status = "running" /\ status' \in {"done", "stopped"} /\ list' \in {"live", "freed"}
  BY <1>1 DEF PrintOverflows, CallFreed, UseFreedList, MainReturns, AtProgram, AtCommand,
              Running, ProgramsOK
<1>3. ProgramsOK' /\ StackOK' /\ Nested' /\ FreedByLexer' /\ Newest'
  BY <1>1, <1>2, StayKeeps DEF ProgramsOK, FreedByLexer, Newest
<1>4. TableOK' /\ Known'
  <2>1. CASE UNCHANGED table
    BY <1>1, <1>2, <2>1, TableStays
  <2>2. CASE table' = [b \in 0 .. Buckets - 1 |-> << >>]
    <3>1. /\ table' \in [Index -> Seq(Entry)]
          /\ \A b \in Index : \A i \in 1 .. Len(table'[b]) : FALSE
      BY <2>2 DEF Index
    <3>. QED
      BY <1>1, <1>2, <3>1 DEF TableOK, Known
  <2>. QED
    BY <2>1, <2>2 DEF PrintOverflows, CallFreed, UseFreedList, MainReturns
<1>5. StopsOnlyAfterBadText'
  <2>1. CASE PrintOverflows
    <3>1. stack # << >> /\ Text(Top.prog).form = "long"
      BY <2>1 DEF PrintOverflows, AtProgram, Running
    <3>2. Top.prog \in DOMAIN programs
      BY <1>1, <3>1, TopTyped DEF PointsToLine
    <3>. QED
      BY <1>2, <3>1, <3>2 DEF StopsOnlyAfterBadText, Text
  <2>2. CASE CallFreed
    <3>1. stack # << >> /\ Top.at \in DOMAIN Line(Top) /\ Item.op = "call"
      BY <2>2 DEF CallFreed, AtCommand, Running
    <3>2. Item.name \in Name
      BY <1>1, <3>1, TopTyped, OpOfItem
    <3>3. PICK e \in hash_map_get(Item.name) : e # Undefined /\ ~Readable(e)
      BY <2>2 DEF CallFreed
    <3>4. retired # {}
      BY <1>1, <3>2, <3>3, Found DEF Readable
    <3>. QED
      BY <1>2, <3>4 DEF StopsOnlyAfterBadText
  <2>3. CASE UseFreedList
    BY <1>1, <1>2, <2>3 DEF UseFreedList, FreedByLexer, StopsOnlyAfterBadText, Text
  <2>4. CASE MainReturns
    BY <2>4 DEF MainReturns, StopsOnlyAfterBadText
  <2>. QED
    BY <2>1, <2>2, <2>3, <2>4
<1>. QED
  BY <1>3, <1>4, <1>5 DEF IInv

LEMMA InitIInv == Init => IInv
<1>. SUFFICES ASSUME Init PROVE IInv
  OBVIOUS
<1>1. PICK f \in Main : programs = <<f>>
  BY DEF Init
<1>2. /\ f \in File /\ programs \in Seq(File) /\ Len(programs) = 1
      /\ 1 \in DOMAIN programs /\ programs[1] = f
  BY <1>1, SessionAssumption
<1>3. /\ alive = {} /\ table = [b \in Index |-> << >>] /\ stack = <<Program(1)>>
      /\ list = "live" /\ status = "running" /\ latest = [n \in Name |-> Undefined]
      /\ retired = {}
  BY DEF Init, Index
<1>4. ProgramsOK
  BY <1>2, <1>3, SessionAssumption DEF ProgramsOK
<1>5. Program(1) \in Frame /\ Program(1).item = 0 /\ Program(1).prog = 1 /\ Program(1).at = 1
      /\ Program(1).pc = "load"
  BY DEF Program, Frame
<1>6. PointsToLine(programs, Program(1))
  <2>1. ItemsOf(programs, 1) \in Seq(Items)
    BY <1>2, <1>4, TextTyped
  <2>. QED
    BY <1>2, <1>5, <2>1 DEF PointsToLine, LineOf
<1>7. stack \in Seq(Frame) /\ Len(stack) = 1 /\ stack[1] = Program(1)
  BY <1>3, <1>5
<1>8. StackOK
  BY <1>6, <1>7 DEF StackOK
<1>9. Nested
  BY <1>3, <1>5, <1>7 DEF Nested, Holds, owned
<1>10. \A b \in Index : table[b] = << >>
  BY <1>3
<1>11. TableOK /\ Known
  BY <1>3, <1>10 DEF TableOK, Known
<1>12. Newest
  BY <1>3, <1>10, BucketTyped DEF Newest, FirstIs
<1>. QED
  BY <1>3, <1>4, <1>8, <1>9, <1>11, <1>12 DEF IInv, FreedByLexer, StopsOnlyAfterBadText

LEMMA NextIInv == IInv /\ [Next]_vars => IInv'
<1>. SUFFICES ASSUME IInv, [Next]_vars PROVE IInv'
  OBVIOUS
<1>1. CASE UNCHANGED vars
  <2>1. UNCHANGED <<programs, alive, table, stack, list, status, latest, retired>>
    BY <1>1 DEF vars
  <2>2. StackOK' /\ Nested' /\ alive \cup retired \subseteq DOMAIN programs
    BY <2>1, StayKeeps DEF IInv, ProgramsOK
  <2>. QED
    BY <2>1, <2>2, OnlyStack
<1>. QED
  BY <1>1, ParserSteps, FunctionStep, ReturnSteps, DotStep, CallStep, StopSteps
  DEF Next, Finished

LEMMA Invariant == Spec => []IInv
BY InitIInv, NextIInv, PTL DEF Spec

-----------------------------------------------------------------------------
(* Every frame stays on a line of a program there is, every entry of the table points
   to a definition, in its bucket, for all texts (run_program, hash_map_insert). *)
THEOREM TypeCorrect == Spec => []TypeOK
<1>1. IInv => TypeOK
  <2>. SUFFICES ASSUME IInv PROVE TypeOK
    OBVIOUS
  <2>1. ProgramsOK /\ StackOK /\ TableOK
    BY DEF IInv
  <2>2. ASSUME NEW b \in DOMAIN table, NEW i \in DOMAIN table[b]
        PROVE  LET e == table[b][i]
               IN  /\ Bucket(e.name) = b /\ e.prog \in DOMAIN programs
                   /\ Text(e.prog).items[e.item].op = "def"
    <3>1. b \in Index /\ i \in 1 .. Len(table[b])
      BY <2>1 DEF TableOK
    <3>. QED
      BY <2>1, <3>1 DEF TableOK, FunctionAt, ItemsOf, Text
  <2>3. ASSUME NEW i \in DOMAIN stack
        PROVE  /\ stack[i].prog \in DOMAIN programs /\ stack[i].pc \in {"load", "parse", "run"}
               /\ stack[i].at \in 1 .. Len(Line(stack[i])) + 1
    <3>1. stack[i] \in Frame /\ PointsToLine(programs, stack[i])
      BY <2>1 DEF StackOK
    <3>2. Line(stack[i]) = LineOf(programs, stack[i])
      BY <2>1, <3>1, LineTyped
    <3>. QED
      BY <3>1, <3>2 DEF Frame, PointsToLine
  <2>. QED
    BY <2>1, <2>2, <2>3 DEF TypeOK, ProgramsOK
<1>. QED
  BY <1>1, Invariant, PTL

(* A program is allocated while it is executed or a function of it is, and afterwards
   only when its text has an open $( or ${, for all texts. *)
THEOREM AliveWhenUsed == Spec => []AliveWhileNeeded
<1>1. IInv => AliveWhileNeeded
  <2>. SUFFICES ASSUME IInv PROVE AliveWhileNeeded
    OBVIOUS
  <2>1. Nested /\ alive \subseteq Nat /\ owned \subseteq alive /\ DOMAIN stack = 1 .. Len(stack)
    <3>1. programs \in Seq(File) /\ alive \subseteq DOMAIN programs
      BY DEF IInv, ProgramsOK
    <3>2. DOMAIN programs \subseteq Nat
      BY <3>1
    <3>. QED
      BY <3>1, <3>2 DEF IInv, StackOK, owned
  <2>2. ASSUME NEW i \in DOMAIN stack PROVE stack[i].prog \in Nat
    <3>1. stack[i] \in Frame
      BY DEF IInv, StackOK
    <3>. QED
      BY <3>1 DEF Frame
  <2>3. \A p : p \in owned <=> \E i \in DOMAIN stack : Holds(stack[i], p)
    BY <2>1, <2>2 DEF Nested, Holds
  <2>4. owned = Loaded
    BY <2>3 DEF Holds, Loaded
  <2>5. \A i \in DOMAIN stack : stack[i].item # 0 => stack[i].prog \in owned
    BY <2>1, <2>2 DEF Nested
  <2>6. \A p \in alive \ owned : Text(p).form = "var"
    BY DEF owned
  <2>. QED
    BY <2>1, <2>4, <2>5, <2>6 DEF AliveWhileNeeded
<1>. QED
  BY <1>1, Invariant, PTL

(* As long as no program that defined a function was freed, hash_map_get returns the
   definition parsed last, whatever the hash function and the number of buckets. *)
THEOREM LookupFindsLatest == Spec => []LatestFound
<1>1. IInv => LatestFound
  <2>. SUFFICES ASSUME IInv, status = "running", retired = {}, NEW n \in Name
                PROVE  hash_map_get(n) = {latest[n]}
    BY DEF LatestFound
  <2>. DEFINE l == table[Bucket(n)]
  <2>1. l \in Seq(Entry) /\ DOMAIN l = 1 .. Len(l)
    BY BucketTyped DEF IInv, TableOK
  <2>2. \A i \in DOMAIN l : Readable(l[i])
    BY <2>1, BucketTyped DEF IInv, Known, Readable
  <2>3. hash_map_get(n) =
          {l[i] : i \in {i \in DOMAIN l : /\ l[i].name = n
                                         /\ \A j \in 1 .. i - 1 : l[j].name # n}}
            \cup (IF \E i \in DOMAIN l : l[i].name = n THEN {} ELSE {Undefined})
    <3>1. \A i \in DOMAIN l : \A j \in 1 .. i - 1 : j \in DOMAIN l
      BY <2>1
    <3>. QED
      BY <2>2, <3>1 DEF hash_map_get
  <2>4. FirstIs(l, n, latest[n])
    BY DEF IInv, Newest
  <2>5. CASE latest[n] = Undefined /\ \A i \in 1 .. Len(l) : l[i].name # n
    BY <2>1, <2>3, <2>5
  <2>6. CASE \E i \in 1 .. Len(l) : /\ l[i] = latest[n] /\ latest[n].name = n
                                    /\ \A j \in 1 .. i - 1 : l[j].name # n
    <3>1. PICK i \in DOMAIN l : /\ l[i] = latest[n] /\ l[i].name = n
                               /\ \A j \in 1 .. i - 1 : l[j].name # n
      BY <2>1, <2>6
    <3>2. ASSUME NEW k \in DOMAIN l, l[k].name = n, \A j \in 1 .. k - 1 : l[j].name # n
          PROVE  k = i
      <4>1. ~(k < i) /\ ~(i < k)
        BY <2>1, <3>1, <3>2
      <4>. QED
        BY <2>1, <4>1
    <3>. QED
      BY <2>3, <3>1, <3>2
  <2>. QED
    BY <2>4, <2>5, <2>6 DEF FirstIs
<1>. QED
  BY <1>1, Invariant, PTL

(* The shell stops only after a text that does not lex, one too long to be printed, or
   the end of a program that defined a function, for all texts. *)
THEOREM StopsForAReason == Spec => []StopsOnlyAfterBadText
<1>1. IInv => StopsOnlyAfterBadText
  BY DEF IInv
<1>. QED
  BY <1>1, Invariant, PTL
=============================================================================
