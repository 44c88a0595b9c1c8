------------------------- MODULE Redirection_proofs -------------------------
(* Proofs about Redirection, for every syntax tree and every size of the
   descriptor table. *)
EXTENDS Redirection, FiniteSetTheorems, WellFoundedInduction, SequenceTheorems, TLAPS

-----------------------------------------------------------------------------
(* open() and dup() take the lowest free descriptor: there is one whenever
   some descriptor is free.  The intervals 0..x of the members x are finite
   sets, and a smallest of them belongs to the lowest descriptor. *)
LEMMA LowestInSet ==
    ASSUME NEW S \in SUBSET FD, S # {}
    PROVE  Lowest(S) \in S
<1>. DEFINE T == {0 .. x : x \in S}
<1>1. S \subseteq Nat
  BY SystemAssumption DEF FD
<1>2. T \subseteq FiniteSubsetsOf(Nat) /\ T # {}
  <2>1. \A x \in S : 0 .. x \in SUBSET Nat /\ IsFiniteSet(0 .. x)
    BY <1>1, FS_Interval
  <2>. QED
    BY <2>1 DEF FiniteSubsetsOf
<1>3. PICK I \in T : \A J \in T : <<J, I>> \notin StrictSubsetOrdering(Nat)
  BY <1>2, FS_StrictSubsetOrderingWellFounded, WFMin, Zenon
<1>4. PICK x \in S : I = 0 .. x
  OBVIOUS
<1>5. \A y \in S : x <= y
  <2>. SUFFICES ASSUME NEW y \in S, y < x
                PROVE  FALSE
    BY <1>1
  <2>1. 0 .. y \subseteq 0 .. x /\ x \in 0 .. x /\ x \notin 0 .. y
    BY <1>1
  <2>2. <<0 .. y, 0 .. x>> \in StrictSubsetOrdering(Nat)
    BY <2>1, <1>1 DEF StrictSubsetOrdering
  <2>. QED
    BY <2>2, <1>3, <1>4
<1>. QED
  BY <1>5 DEF Lowest

LEMMA FreeIsSubset ==
    ASSUME NEW t \in Table
    PROVE  Free(t) \subseteq FD /\ \A d \in Free(t) : t[d] = Closed
BY DEF Free

(* The descriptor a redirection acts on is a natural number, perhaps beyond
   the table. *)
LEMMA IoIsNat == \A r \in Redir : Io(r) \in Nat
BY TreeAssumption DEF Io, Default

(* Every outcome of a handler is a descriptor table, a descriptor or -1 for
   the node, and a return code; it closes no open descriptor but io. *)
HandlerOk(t, r, o) ==
    /\ o.fds \in Table
    /\ o.save \in FD \cup {-1}
    /\ o.rc \in 0 .. 2
    /\ \A d \in FD : t[d] # Closed /\ o.fds[d] = Closed =>
          d = Io(r) /\ (Word[r] = "-" \/ o.rc # 0)

LEMMA FdFileOk ==
    ASSUME NEW t \in Table, NEW r \in Redir, NEW s0 \in FD \cup {-1},
           Word[r] # Empty, NEW o \in FdFile(t, r, s0)
    PROVE  HandlerOk(t, r, o)
<1>1. CASE o = Outcome(t, s0, 1)
  BY <1>1 DEF Outcome, HandlerOk
<1>2. CASE o # Outcome(t, s0, 1)
  <2>. DEFINE f == Lowest(Free(t))
              opened == [t EXCEPT ![f] = Word[r]]
              s == Lowest(Free(opened))
  <2>1. Free(t) # {}
    BY <1>2 DEF FdFile
  <2>2. f \in FD /\ t[f] = Closed
    BY <2>1, FreeIsSubset, LowestInSet
  <2>3. opened \in Table
    BY <2>2, TreeAssumption DEF Table, OpenFile
  <2>4. CASE ~IsOpen(opened, Io(r)) \/ Free(opened) = {}
    <3>1. o = Outcome(t, -1, 1)
      BY <1>2, <2>1, <2>4 DEF FdFile
    <3>. QED
      BY <3>1 DEF Outcome, HandlerOk
  <2>5. CASE IsOpen(opened, Io(r)) /\ Free(opened) # {}
    <3>1. s \in FD /\ opened[s] = Closed
      BY <2>3, <2>5, FreeIsSubset, LowestInSet
    <3>. HIDE DEF f, s
    <3>2. \/ o = Outcome(Installed(t, r, f, s), s, 0)
          \/ o = Outcome([t EXCEPT ![Io(r)] = Closed], s, 1)
      BY <1>2, <2>1, <2>5 DEF FdFile, f, s
    <3>3. Io(r) \in FD
      BY <2>5 DEF IsOpen
    <3>4. Word[r] \in OpenFile /\ Word[r] # Closed
      BY SystemAssumption, TreeAssumption DEF OpenFile
    <3>5. CASE o = Outcome(Installed(t, r, f, s), s, 0)
      <4>1. Installed(t, r, f, s) \in Table
        BY <2>2, <3>1, <3>3, <3>4 DEF Installed, Table
      <4>2. \A d \in FD : t[d] # Closed => Installed(t, r, f, s)[d] # Closed
        BY <2>2, <2>5, <3>1, <3>3, <3>4 DEF Installed, Table, IsOpen
      <4>. QED
        BY <3>1, <3>5, <4>1, <4>2 DEF Outcome, HandlerOk
    <3>6. CASE o = Outcome([t EXCEPT ![Io(r)] = Closed], s, 1)
      BY <3>1, <3>3, <3>6 DEF Outcome, HandlerOk, Table
    <3>. QED
      BY <3>2, <3>5, <3>6
  <2>. QED
    BY <2>4, <2>5
<1>. QED
  BY <1>1, <1>2

LEMMA FdIoOk ==
    ASSUME NEW t \in Table, NEW r \in Redir, NEW s0 \in FD \cup {-1},
           Word[r] # Empty, NEW o \in FdIo(t, r, s0)
    PROVE  HandlerOk(t, r, o)
<1>1. CASE o = Outcome(t, s0, 1)
  BY <1>1 DEF Outcome, HandlerOk
<1>2. CASE o # Outcome(t, s0, 1)
  <2>. DEFINE f == Lowest(Free(t))
              opened == [t EXCEPT ![f] = Word[r]]
              s == IF IsOpen(opened, Io(r)) /\ Free(opened) # {}
                   THEN Lowest(Free(opened)) ELSE -1
              saved == IF s = -1 THEN opened ELSE [opened EXCEPT ![s] = opened[Io(r)]]
  <2>1. Free(t) # {}
    BY <1>2 DEF FdIo
  <2>2. f \in FD /\ t[f] = Closed
    BY <2>1, FreeIsSubset, LowestInSet
  <2>3. opened \in Table
    BY <2>2, TreeAssumption DEF Table, OpenFile
  <2>4. s = -1 \/ (s \in FD /\ opened[s] = Closed /\ IsOpen(opened, Io(r)))
    BY <2>3, FreeIsSubset, LowestInSet
  <2>5. Word[r] \in OpenFile /\ Word[r] # Closed
    BY SystemAssumption, TreeAssumption DEF OpenFile
  <2>6. /\ saved \in Table
        /\ \A d \in FD : t[d] # Closed => saved[d] # Closed
    <3>1. CASE s = -1
      BY <2>2, <2>3, <2>5, <3>1 DEF Table
    <3>2. CASE s # -1
      BY <2>2, <2>3, <2>4, <2>5, <3>2 DEF Table, IsOpen
    <3>. QED
      BY <3>1, <3>2
  <2>. HIDE DEF f, s, saved
  <2>7. CASE Io(r) \notin FD
    <3>1. o = Outcome(t, -1, 1)
      BY <1>2, <2>1, <2>7 DEF FdIo
    <3>. QED
      BY <3>1 DEF Outcome, HandlerOk
  <2>8. CASE Io(r) \in FD
    <3>1. \/ o = Outcome([saved EXCEPT ![Io(r)] = Word[r], ![f] = Closed], s, 0)
          \/ o = Outcome([saved EXCEPT ![Io(r)] = Closed, ![f] = Closed], s, 1)
      BY <1>2, <2>1, <2>8 DEF FdIo, f, s, saved
    <3>2. s \in FD \cup {-1}
      BY <2>4
    <3>3. CASE o = Outcome([saved EXCEPT ![Io(r)] = Word[r], ![f] = Closed], s, 0)
      BY <2>2, <2>5, <2>6, <2>8, <3>2, <3>3 DEF Outcome, HandlerOk, Table
    <3>4. CASE o = Outcome([saved EXCEPT ![Io(r)] = Closed, ![f] = Closed], s, 1)
      BY <2>2, <2>6, <2>8, <3>2, <3>4 DEF Outcome, HandlerOk, Table
    <3>. QED
      BY <3>1, <3>3, <3>4
  <2>. QED
    BY <2>7, <2>8
<1>. QED
  BY <1>1, <1>2

LEMMA FdDupInOutOk ==
    ASSUME NEW t \in Table, NEW r \in Redir, NEW s0 \in FD \cup {-1},
           NEW o \in FdDupInOut(t, r, s0)
    PROVE  HandlerOk(t, r, o)
<1>. DEFINE t1 == IF Word[r] = "-" /\ Io(r) \in FD THEN [t EXCEPT ![Io(r)] = Closed] ELSE t
<1>1. /\ t1 \in Table
      /\ \A d \in FD : t[d] # Closed /\ t1[d] = Closed => d = Io(r) /\ Word[r] = "-"
  BY DEF Table
<1>. HIDE DEF t1
<1>2. \/ o = Outcome([t1 EXCEPT ![Io(r)] = Terminal], s0, 0)
      \/ o = Outcome(t1, s0, 1)
  BY DEF FdDupInOut, t1
<1>3. Terminal \in OpenFile /\ Terminal # Closed
  BY SystemAssumption, TreeAssumption DEF OpenFile
<1>. QED
  BY <1>1, <1>2, <1>3 DEF Outcome, HandlerOk, Table

LEMMA HandlerOutcomes ==
    ASSUME NEW t \in Table, NEW r \in Redir, NEW s0 \in FD \cup {-1},
           NEW o \in RedirectionExecHandler(t, r, s0)
    PROVE  HandlerOk(t, r, o)
<1>1. CASE Word[r] = Empty
  <2>1. o = Outcome(t, s0, 2)
    BY <1>1 DEF RedirectionExecHandler
  <2>. QED
    BY <2>1 DEF Outcome, HandlerOk
<1>2. CASE Word[r] # Empty /\ Type[r] \in DupTypes
  BY <1>2, FdDupInOutOk DEF RedirectionExecHandler, DupTypes
<1>3. CASE Word[r] # Empty /\ Type[r] \notin DupTypes
  <2>1. o \in FdIo(t, r, s0) \/ o \in FdFile(t, r, s0)
    BY <1>3 DEF RedirectionExecHandler
  <2>. QED
    BY <1>3, <2>1, FdFileOk, FdIoOk
<1>. QED
  BY <1>1, <1>2, <1>3

-----------------------------------------------------------------------------
(* The stack of activations. *)
LEMMA StackOps ==
    ASSUME NEW st \in Seq(Frame), st # << >>, NEW f \in Frame
    PROVE  /\ Head(st) \in Frame
           /\ Tail(st) \in Seq(Frame)
           /\ <<f>> \o Tail(st) \in Seq(Frame)
           /\ <<f>> \o Tail(st) # << >>
           /\ Head(<<f>> \o Tail(st)) = f
           /\ Tail(<<f>> \o Tail(st)) = Tail(st)
<1>1. Head(st) \in Frame /\ Tail(st) \in Seq(Frame)
  BY HeadTailProperties
<1>2. /\ <<f>> \o Tail(st) \in Seq(Frame)
      /\ <<f>> \o Tail(st) # << >>
      /\ Head(<<f>> \o Tail(st)) = f
      /\ Tail(<<f>> \o Tail(st)) = Tail(st)
  BY <1>1
<1>. QED
  BY <1>1, <1>2

LEMMA TopUpdates ==
    ASSUME TypeOK, Running
    PROVE  /\ Top \in Frame
           /\ \A l \in {"redirect", "body", "flush", "reset"} :
                 [Top EXCEPT !.pc = l, !.i = 1] \in Frame
           /\ [Top EXCEPT !.i = @ + 1] \in Frame
           /\ \A b \in Seq(Cmd) : [Top EXCEPT !.pc = "body", !.rest = b] \in Frame
           /\ Top.rest # << >> => /\ [Top EXCEPT !.rest = Tail(@)] \in Frame
                                   /\ Head(Top.rest) \in Cmd
<1>1. Top \in Frame
  BY HeadTailProperties DEF TypeOK, Running, Top
<1>2. Top.rest \in Seq(Cmd)
  BY <1>1 DEF Frame
<1>3. Top.rest # << >> => Tail(Top.rest) \in Seq(Cmd) /\ Head(Top.rest) \in Cmd
  BY <1>2, HeadTailProperties
<1>. HIDE DEF Top
<1>4. \A l \in {"redirect", "body", "flush", "reset"} :
         [Top EXCEPT !.pc = l, !.i = 1] \in Frame
  <2>1. ASSUME NEW l \in {"redirect", "body", "flush", "reset"}, NEW f \in Frame
        PROVE  [f EXCEPT !.pc = l] \in Frame
    BY DEF Frame
  <2>2. ASSUME NEW f \in Frame
        PROVE  [f EXCEPT !.i = 1] \in Frame
    BY DEF Frame
  <2>. QED
    BY <1>1, <2>1, <2>2
<1>5. [Top EXCEPT !.i = @ + 1] \in Frame
  BY <1>1 DEF Frame
<1>6. \A b \in Seq(Cmd) : [Top EXCEPT !.pc = "body", !.rest = b] \in Frame
  BY <1>1 DEF Frame
<1>7. Top.rest # << >> => [Top EXCEPT !.rest = Tail(@)] \in Frame
  BY <1>1, <1>3 DEF Frame
<1>. QED
  BY <1>1, <1>3, <1>4, <1>5, <1>6, <1>7

(* The type invariant. *)
THEOREM TypeCorrect == Spec => []TypeOK
<1>1. Init => TypeOK
  BY SystemAssumption DEF Init, TypeOK, Table, OpenFile, FD
<1>2. TypeOK /\ [Next]_vars => TypeOK'
  <2>. SUFFICES ASSUME TypeOK, [Next]_vars
                PROVE  TypeOK'
    OBVIOUS
  <2>1. ASSUME NEW c \in Cmd, Execute(c)
        PROVE  TypeOK'
    <3>1. Call(c) \in Frame
      BY DEF Call, Frame, TypeOK
    <3>. QED
      BY <2>1, <3>1 DEF Execute, TypeOK
  <2>2. CASE ApplyRedirection
    <3>1. Running /\ Top \in Frame /\ [Top EXCEPT !.i = @ + 1] \in Frame
      BY <2>2, TopUpdates DEF ApplyRedirection, AtRedirection
    <3>. DEFINE r == Prefix[Top.cmd][Top.i]
    <3>2. r \in Redir
      <4>1. Top.cmd \in Cmd /\ Top.i \in Nat \ {0}
        BY <3>1 DEF Frame
      <4>. QED
        BY <2>2, <4>1, TreeAssumption DEF ApplyRedirection, AtRedirection
    <3>. HIDE DEF r
    <3>3. PICK o \in RedirectionExecHandler(fds, r, save[r]) :
             /\ fds' = o.fds
             /\ save' = [save EXCEPT ![r] = o.save]
             /\ pending' = IF Word[r] = Empty THEN pending ELSE {}
             /\ \/ stack' = <<[Top EXCEPT !.i = @ + 1]>> \o Tail(stack)
                \/ stack' = Tail(stack)
             /\ executed' = executed
      BY <2>2 DEF ApplyRedirection, Return, r
    <3>4. HandlerOk(fds, r, o)
      BY <3>2, HandlerOutcomes DEF TypeOK
    <3>5. stack' \in Seq(Frame)
      BY <3>1, <3>3, StackOps DEF TypeOK, Running
    <3>. QED
      BY <3>2, <3>3, <3>4, <3>5 DEF TypeOK, HandlerOk
  <2>3. CASE LeaveWithoutReset
    BY <2>3, StackOps, TopUpdates DEF LeaveWithoutReset, AtDispatch, Running, Return, TypeOK
  <2>4. CASE BadSubstitution
    BY <2>4, StackOps, TopUpdates DEF BadSubstitution, AtDispatch, Running, GoTo, TypeOK
  <2>5. CASE RunBuiltin
    <3>1. fds[1] \in OpenFile \cup {Closed}
      BY SystemAssumption DEF TypeOK, Table, FD
    <3>. QED
      BY <2>5, <3>1, StackOps, TopUpdates DEF RunBuiltin, AtDispatch, Running, GoTo, TypeOK
  <2>6. CASE RunCommand
    BY <2>6, StackOps, TopUpdates DEF RunCommand, AtDispatch, Running, GoTo, TypeOK
  <2>7. CASE EnterFunction \/ EnterFile
    <3>1. Running /\ Top \in Frame /\ stack' \in Seq(Frame)
      <4>1. Running /\ \E body \in Bodies[Top.cmd] : Enter(body)
        BY <2>7 DEF EnterFunction, EnterFile, AtDispatch
      <4>2. Top \in Frame /\ Bodies[Top.cmd] \subseteq Seq(Cmd)
        BY <4>1, TopUpdates, TreeAssumption DEF Frame
      <4>. QED
        BY <4>1, <4>2, StackOps, TopUpdates DEF Enter, Running, TypeOK
    <3>2. save' \in [Redir -> FD \cup {-1}]
      BY <2>7 DEF EnterFunction, EnterFile, Parsed, TypeOK
    <3>. QED
      BY <2>7, <3>1, <3>2 DEF EnterFunction, EnterFile, TypeOK
  <2>14. CASE DotRefused
    BY <2>14, StackOps, TopUpdates DEF DotRefused, AtDispatch, Running, GoTo, TypeOK
  <2>15. CASE DotUnreadable
    <3>1. fds' \in Table
      <4>1. PICK file \in Path \ {Empty} : fds' = [fds EXCEPT ![Lowest(Free(fds))] = file]
        BY <2>15 DEF DotUnreadable
      <4>2. file \in OpenFile
        BY DEF OpenFile, Words
      <4>. QED
        BY <4>1, <4>2 DEF TypeOK, Table
    <3>. QED
      BY <2>15, <3>1, StackOps, TopUpdates
         DEF DotUnreadable, AtDispatch, Running, GoTo, TypeOK
  <2>8. CASE ExecuteInBody
    <3>1. /\ Running /\ Top.rest # << >>
          /\ stack' = <<Call(Head(Top.rest)), [Top EXCEPT !.rest = Tail(@)]>> \o Tail(stack)
      BY <2>8 DEF ExecuteInBody
    <3>2. /\ Head(Top.rest) \in Cmd
          /\ [Top EXCEPT !.rest = Tail(@)] \in Frame
          /\ Tail(stack) \in Seq(Frame)
      BY <3>1, TopUpdates, StackOps DEF TypeOK, Running
    <3>4. Call(Head(Top.rest)) \in Frame
      BY <3>2 DEF Call, Frame, TypeOK
    <3>3. stack' \in Seq(Frame)
      BY <3>1, <3>2, <3>4
    <3>. QED
      BY <2>8, <3>3 DEF ExecuteInBody, TypeOK
  <2>9. CASE LeaveBody
    BY <2>9, StackOps, TopUpdates DEF LeaveBody, Running, GoTo, TypeOK
  <2>10. CASE FlushForReset
    BY <2>10, StackOps, TopUpdates DEF FlushForReset, Running, GoTo, TypeOK
  <2>11. CASE ResetStep
    <3>1. stack' \in Seq(Frame)
      BY <2>11, StackOps, TopUpdates DEF ResetStep, Running, TypeOK
    <3>2. fds' \in Table
      BY <2>11 DEF ResetStep, TypeOK, Table, IsOpen
    <3>. QED
      BY <2>11, <3>1, <3>2 DEF ResetStep, TypeOK
  <2>12. CASE ResetDone
    BY <2>12, StackOps, TopUpdates DEF ResetDone, Running, Return, TypeOK
  <2>13. CASE UNCHANGED vars
    BY <2>13 DEF vars, TypeOK
  <2>. QED
    BY <2>1, <2>2, <2>3, <2>4, <2>5, <2>6, <2>7, <2>8, <2>9, <2>10, <2>11, <2>12,
       <2>13, <2>14, <2>15 DEF Next, Finished
<1>. QED
  BY <1>1, <1>2, PTL DEF Spec

-----------------------------------------------------------------------------
(* Text is in the stdout buffer only between the print of a builtin and the
   flush that its own reset_fd starts with; no redirection comes between. *)
PendingInv == pending # {} => Running /\ Top.pc = "flush" /\ pending \subseteq {fds[1]}

LEMMA PendingInvariant == Spec => []PendingInv
<1>1. Init => PendingInv
  BY DEF Init, PendingInv
<1>2. TypeOK /\ PendingInv /\ [Next]_vars => PendingInv'
  <2>. SUFFICES ASSUME TypeOK, PendingInv, [Next]_vars
                PROVE  PendingInv'
    OBVIOUS
  <2>1. ASSUME NEW c \in Cmd, Execute(c)
        PROVE  PendingInv'
    BY <2>1 DEF Execute, PendingInv
  <2>2. CASE ApplyRedirection
    <3>1. pending = {}
      BY <2>2 DEF ApplyRedirection, AtRedirection, PendingInv
    <3>2. pending' = {}
      BY <2>2, <3>1 DEF ApplyRedirection
    <3>. QED
      BY <3>2 DEF PendingInv
  <2>3. CASE LeaveWithoutReset
    BY <2>3 DEF LeaveWithoutReset, AtDispatch, PendingInv
  <2>4. CASE BadSubstitution
    BY <2>4 DEF BadSubstitution, AtDispatch, PendingInv
  <2>5. CASE RunBuiltin
    <3>1. pending = {} /\ pending' \subseteq {fds'[1]}
      BY <2>5 DEF RunBuiltin, AtDispatch, PendingInv
    <3>2. stack # << >> /\ Top \in Frame /\ [Top EXCEPT !.pc = "flush", !.i = 1] \in Frame
      BY <2>5, TopUpdates DEF RunBuiltin, AtDispatch, Running
    <3>3. Running' /\ Top' = [Top EXCEPT !.pc = "flush", !.i = 1]
      <4>1. stack' = <<[Top EXCEPT !.pc = "flush", !.i = 1]>> \o Tail(stack)
        BY <2>5 DEF RunBuiltin, GoTo
      <4>. QED
        BY <3>2, <4>1, StackOps DEF TypeOK, Running, Top
    <3>4. [Top EXCEPT !.pc = "flush", !.i = 1].pc = "flush"
      BY <3>2 DEF Frame
    <3>. QED
      BY <3>1, <3>3, <3>4 DEF PendingInv
  <2>6. CASE RunCommand
    BY <2>6 DEF RunCommand, AtDispatch, PendingInv
  <2>7. CASE EnterFunction \/ EnterFile \/ DotRefused \/ DotUnreadable
    BY <2>7 DEF EnterFunction, EnterFile, DotRefused, DotUnreadable, AtDispatch, PendingInv
  <2>8. CASE ExecuteInBody
    BY <2>8 DEF ExecuteInBody, PendingInv
  <2>9. CASE LeaveBody
    BY <2>9 DEF LeaveBody, PendingInv
  <2>10. CASE FlushForReset
    BY <2>10 DEF FlushForReset, PendingInv
  <2>11. CASE ResetStep
    BY <2>11 DEF ResetStep, PendingInv
  <2>12. CASE ResetDone
    BY <2>12 DEF ResetDone, PendingInv
  <2>13. CASE UNCHANGED vars
    BY <2>13 DEF vars, PendingInv, Running, Top
  <2>. QED
    BY <2>1, <2>2, <2>3, <2>4, <2>5, <2>6, <2>7, <2>8, <2>9, <2>10, <2>11, <2>12,
       <2>13 DEF Next, Finished
<1>. QED
  BY <1>1, <1>2, TypeCorrect, PTL DEF Spec

(* What a builtin prints goes to the file descriptor 1 named at that moment. *)
THEOREM OutputReachesTarget == Spec => []OutputOnTarget
<1>1. PendingInv => OutputOnTarget
  BY DEF PendingInv, OutputOnTarget
<1>. QED
  BY <1>1, PendingInvariant, PTL

(* The buffer is empty whenever run_command forks. *)
THEOREM ForkCopiesNoOutput == Spec => []NothingPendingAtFork
<1>1. PendingInv => NothingPendingAtFork
  BY DEF PendingInv, NothingPendingAtFork, AtDispatch
<1>. QED
  BY <1>1, PendingInvariant, PTL

(* Nothing but n>&-, n<&- and a failing close() closes an open descriptor. *)
THEOREM ClosesOnRequest == Spec => ClosesOnlyOnRequest
<1>. DEFINE Good == \A d \in FD : fds[d] # Closed /\ fds'[d] = Closed =>
                      /\ AtRedirection
                      /\ LET r == Prefix[Top.cmd][Top.i]
                         IN  d = Io(r) /\ (Word[r] = "-" \/ stack' = Tail(stack))
<1>1. TypeOK /\ [Next]_vars => Good
  <2>. SUFFICES ASSUME TypeOK, [Next]_vars
                PROVE  Good
    OBVIOUS
  <2>1. CASE ApplyRedirection
    <3>. DEFINE r == Prefix[Top.cmd][Top.i]
    <3>1. AtRedirection /\ Top.cmd \in Cmd /\ Top.i \in Nat \ {0}
      BY <2>1, TopUpdates DEF ApplyRedirection, AtRedirection, Frame
    <3>2. r \in Redir
      BY <3>1, TreeAssumption DEF AtRedirection
    <3>3. PICK o \in RedirectionExecHandler(fds, r, save[r]) :
             fds' = o.fds /\ (o.rc # 0 => stack' = Tail(stack))
      BY <2>1 DEF ApplyRedirection, Return
    <3>4. HandlerOk(fds, r, o)
      BY <3>2, HandlerOutcomes DEF TypeOK
    <3>. QED
      BY <3>1, <3>3, <3>4 DEF HandlerOk
  <2>2. CASE ResetStep
    BY <2>2 DEF ResetStep, TypeOK, Table, IsOpen
  <2>3. CASE DotUnreadable
    <3>1. Free(fds) # {}
      BY <2>3 DEF DotUnreadable
    <3>2. Lowest(Free(fds)) \in Free(fds)
      <4>. Free(fds) \in SUBSET FD
        BY DEF Free
      <4>. HIDE DEF Free
      <4>. QED
        BY <3>1, LowestInSet
    <3>3. fds[Lowest(Free(fds))] = Closed
      BY <3>2 DEF Free
    <3>. QED
      BY <2>3, <3>3 DEF DotUnreadable, TypeOK, Table
  <2>4. CASE fds' = fds
    BY <2>4
  <2>. QED
    BY <2>1, <2>2, <2>3, <2>4 DEF Next, Finished, vars, Execute, LeaveWithoutReset,
       BadSubstitution, RunBuiltin, RunCommand, EnterFunction, EnterFile, DotRefused,
       ExecuteInBody, LeaveBody, FlushForReset, ResetDone
<1>. QED
  BY <1>1, TypeCorrect, PTL DEF Spec, ClosesOnlyOnRequest

-----------------------------------------------------------------------------
(* Only a function and . have activations above them, and wait in their body. *)
Entered == {"function", "dot"}
StackInv ==
    \A k \in 1 .. Len(stack) :
        /\ k > 1 => stack[k].pc = "body"
        /\ stack[k].pc = "body" => Kind[stack[k].cmd] \in Entered

LEMMA StackInvariant == Spec => []StackInv
<1>1. Init => StackInv
  BY DEF Init, StackInv
<1>2. TypeOK /\ StackInv /\ [Next]_vars => StackInv'
  <2>. SUFFICES ASSUME TypeOK, StackInv, [Next]_vars
                PROVE  StackInv'
    OBVIOUS
  <2>. stack \in Seq(Frame)
    BY DEF TypeOK
  <2>1. ASSUME Running, stack' = Tail(stack)
        PROVE  StackInv'
    <3>1. /\ Len(stack') = Len(stack) - 1 /\ Len(stack) \in Nat
          /\ \A k \in 1 .. Len(stack') : stack'[k] = stack[k+1]
      BY <2>1, HeadTailProperties DEF Running
    <3>. QED
      BY <3>1 DEF StackInv
  <2>2. ASSUME NEW f \in Frame, Running, stack' = <<f>> \o Tail(stack),
               f.pc = "body" => Kind[f.cmd] \in Entered
        PROVE  StackInv'
    <3>1. /\ Len(stack') = Len(stack) /\ Len(stack) \in Nat
          /\ stack'[1] = f
          /\ \A k \in 2 .. Len(stack') : stack'[k] = stack[k]
      <4>1. /\ Tail(stack) \in Seq(Frame) /\ Len(Tail(stack)) = Len(stack) - 1
            /\ \A k \in 1 .. Len(Tail(stack)) : Tail(stack)[k] = stack[k+1]
        BY <2>2, HeadTailProperties DEF Running
      <4>. QED
        BY <2>2, <4>1
    <3>. QED
      BY <2>2, <3>1 DEF StackInv
  <2>3. ASSUME NEW l \in {"redirect", "flush", "reset"}, Running, GoTo(l)
        PROVE  StackInv'
    <3>1. /\ [Top EXCEPT !.pc = l, !.i = 1] \in Frame
          /\ [Top EXCEPT !.pc = l, !.i = 1].pc = l
      BY <2>3, TopUpdates DEF Frame
    <3>. QED
      BY <2>2, <2>3, <3>1 DEF GoTo
  <2>4. ASSUME Running, Top.pc # "body", stack' = <<[Top EXCEPT !.i = @ + 1]>> \o Tail(stack)
        PROVE  StackInv'
    <3>1. /\ [Top EXCEPT !.i = @ + 1] \in Frame
          /\ [Top EXCEPT !.i = @ + 1].pc = Top.pc
      BY <2>4, TopUpdates DEF Frame
    <3>. QED
      BY <2>2, <2>4, <3>1
  <2>5. ASSUME NEW c \in Cmd, Execute(c)
        PROVE  StackInv'
    BY <2>5 DEF Execute, StackInv, Call
  <2>6. CASE ApplyRedirection
    BY <2>6, <2>1, <2>4 DEF ApplyRedirection, AtRedirection, Return
  <2>7. CASE LeaveWithoutReset
    BY <2>7, <2>1 DEF LeaveWithoutReset, AtDispatch, Return
  <2>8. CASE BadSubstitution \/ RunBuiltin \/ RunCommand \/ DotRefused \/ DotUnreadable
    BY <2>8, <2>3 DEF BadSubstitution, RunBuiltin, RunCommand, DotRefused, DotUnreadable,
       AtDispatch
  <2>9. CASE EnterFunction \/ EnterFile
    <3>1. Running /\ Top \in Frame /\ Kind[Top.cmd] \in Entered
      BY <2>9, TopUpdates DEF EnterFunction, EnterFile, AtDispatch, Entered
    <3>2. Bodies[Top.cmd] \subseteq Seq(Cmd)
      BY <3>1, TreeAssumption DEF Frame
    <3>3. PICK b \in Seq(Cmd) :
             stack' = <<[Top EXCEPT !.pc = "body", !.rest = b]>> \o Tail(stack)
      BY <2>9, <3>2 DEF EnterFunction, EnterFile, Enter
    <3>4. /\ [Top EXCEPT !.pc = "body", !.rest = b] \in Frame
          /\ [Top EXCEPT !.pc = "body", !.rest = b].cmd = Top.cmd
      BY <3>1, TopUpdates DEF Frame
    <3>. QED
      BY <2>2, <3>1, <3>3, <3>4
  <2>10. CASE ExecuteInBody
    <3>. DEFINE caller == [Top EXCEPT !.rest = Tail(@)]
                callee == Call(Head(Top.rest))
    <3>1. /\ Running /\ Top \in Frame /\ Top.pc = "body"
          /\ stack' = <<callee, caller>> \o Tail(stack)
      BY <2>10, TopUpdates DEF ExecuteInBody
    <3>2. /\ Tail(stack) \in Seq(Frame) /\ Len(Tail(stack)) = Len(stack) - 1
          /\ \A k \in 1 .. Len(Tail(stack)) : Tail(stack)[k] = stack[k+1]
          /\ stack # << >> /\ Top = stack[1] /\ Len(stack) \in Nat \ {0}
      BY <3>1, HeadTailProperties DEF Running, Top
    <3>3. caller.pc = "body" /\ caller.cmd = Top.cmd /\ callee.pc = "redirect"
      BY <3>1 DEF Frame, Call
    <3>. HIDE DEF caller, callee
    <3>4. /\ Len(stack') = Len(stack) + 1
          /\ stack'[1] = callee /\ stack'[2] = caller
          /\ \A k \in 3 .. Len(stack') : stack'[k] = stack[k-1]
      BY <3>1, <3>2
    <3>5. Kind[Top.cmd] \in Entered
      BY <3>1, <3>2 DEF StackInv
    <3>. QED
      BY <3>2, <3>3, <3>4, <3>5 DEF StackInv
  <2>11. CASE LeaveBody \/ FlushForReset
    BY <2>11, <2>3 DEF LeaveBody, FlushForReset
  <2>12. CASE ResetStep
    BY <2>12, <2>4 DEF ResetStep
  <2>13. CASE ResetDone
    BY <2>13, <2>1 DEF ResetDone, Return
  <2>14. CASE UNCHANGED vars
    BY <2>14 DEF vars, StackInv
  <2>. QED
    BY <2>5, <2>6, <2>7, <2>8, <2>9, <2>10, <2>11, <2>12, <2>13, <2>14 DEF Next, Finished
<1>. QED
  BY <1>1, <1>2, TypeCorrect, PTL DEF Spec

-----------------------------------------------------------------------------
(* Where a straight command stands: the redirections of its prefix that have
   been applied, those of them that reset_fd has not undone, and what that
   says of the table t and of the nodes sv. *)
Applied(f) == IF f.pc = "redirect" THEN 1 .. f.i - 1 ELSE 1 .. Len(Prefix[f.cmd])
Replaced(f) == IF f.pc = "reset" THEN f.i .. Len(Prefix[f.cmd]) ELSE Applied(f)

Snapshot(f, t, sv) ==
    LET p == Prefix[f.cmd]
    IN  /\ f.pc = "redirect" => f.i <= Len(p) + 1
        /\ \A k \in Applied(f) :
              /\ sv[p[k]] \in FD
              /\ f.entry[sv[p[k]]] = Closed
              /\ t[sv[p[k]]] = f.entry[Io(p[k])]
        /\ \A d \in FD : f.entry[d] # Closed =>
              t[d] # Closed /\ (t[d] = f.entry[d] \/ \E k \in Replaced(f) : d = Io(p[k]))
        /\ \A d \in FD : f.entry[d] = Closed =>
              (t[d] # Closed <=> \E k \in Applied(f) : d = sv[p[k]])

Tracked(f) == Straight(f.cmd) /\ OpenAtEntry(f)
RestoreInv == Running /\ Tracked(Top) => Snapshot(Top, fds, save)

(* At the end of reset_fd the snapshot is the property. *)
LEMMA RestoreInvSuffices ==
    ASSUME TypeOK, RestoreInv
    PROVE  RestoreSound
<1>. SUFFICES ASSUME ResetFinished, Straight(Top.cmd), OpenAtEntry(Top), NEW d \in FD
              PROVE  IF Top.entry[d] # Closed THEN fds[d] = Top.entry[d]
                     ELSE fds[d] # Closed <=> \E k \in 1 .. Len(Prefix[Top.cmd]) :
                                                d = save[Prefix[Top.cmd][k]]
  BY DEF RestoreSound
<1>1. Running /\ Top \in Frame /\ Top.pc = "reset" /\ Top.i > Len(Prefix[Top.cmd])
  BY TopUpdates DEF ResetFinished
<1>2. Snapshot(Top, fds, save)
  BY <1>1 DEF RestoreInv, Tracked
<1>3. Len(Prefix[Top.cmd]) \in Nat /\ Top.i \in Nat
  BY <1>1, TreeAssumption DEF Frame
<1>4. Replaced(Top) = {} /\ Applied(Top) = 1 .. Len(Prefix[Top.cmd])
  BY <1>1, <1>3 DEF Replaced, Applied
<1>. QED
  BY <1>2, <1>4 DEF Snapshot

(* A redirection of a straight command succeeds in one way: it leaves a copy
   of io on a free descriptor and the file on io. *)
LEMMA StraightRedirection ==
    ASSUME NEW t \in Table, NEW r \in Redir, NEW s0 \in FD \cup {-1},
           Type[r] \in SavingTypes \ {"FD_IO"}, IsOpen(t, Io(r)),
           NEW o \in RedirectionExecHandler(t, r, s0), o.rc = 0
    PROVE  /\ o.save \in FD /\ t[o.save] = Closed
           /\ Word[r] # Closed
           /\ o.fds = [t EXCEPT ![o.save] = t[Io(r)], ![Io(r)] = Word[r]]
<1>1. Word[r] # Empty /\ o \in FdFile(t, r, s0)
  BY DEF RedirectionExecHandler, SavingTypes, DupTypes, Outcome
<1>. DEFINE f == Lowest(Free(t))
            opened == [t EXCEPT ![f] = Word[r]]
            s == Lowest(Free(opened))
<1>2. Free(t) # {}
  BY <1>1 DEF FdFile, Outcome
<1>3. f \in FD /\ t[f] = Closed
  BY <1>2, FreeIsSubset, LowestInSet
<1>4. Word[r] \in OpenFile /\ Word[r] # Closed
  BY <1>1, SystemAssumption, TreeAssumption DEF OpenFile
<1>5. opened \in Table
  BY <1>3, <1>4 DEF Table
<1>6. Free(opened) # {}
  <2>. SUFFICES ASSUME Free(opened) = {}
                PROVE  FALSE
    OBVIOUS
  <2>1. o = Outcome(t, s0, 1) \/ o = Outcome(t, -1, 1)
    BY <1>1, <1>2 DEF FdFile
  <2>. HIDE DEF opened
  <2>2. Outcome(t, s0, 1).rc = 1 /\ Outcome(t, -1, 1).rc = 1
    BY DEF Outcome
  <2>. QED
    BY <2>1, <2>2
<1>7. s \in FD /\ opened[s] = Closed
  BY <1>5, <1>6, FreeIsSubset, LowestInSet
<1>. HIDE DEF f, s
<1>8. o = Outcome(Installed(t, r, f, s), s, 0)
  BY <1>1, <1>2, <1>6 DEF FdFile, Outcome, f, s
<1>9. Io(r) \in FD /\ t[Io(r)] # Closed
  BY DEF IsOpen
<1>10. s # f /\ t[s] = Closed /\ Io(r) # f /\ Io(r) # s
  BY <1>3, <1>4, <1>7, <1>9 DEF Table
<1>11. Installed(t, r, f, s) = [t EXCEPT ![s] = t[Io(r)], ![Io(r)] = Word[r]]
  BY <1>3, <1>7, <1>9, <1>10 DEF Installed, Table
<1>. QED
  BY <1>4, <1>7, <1>8, <1>10, <1>11 DEF Outcome

(* Moving to another label leaves command and entry alone. *)
LEMMA TopAfter ==
    ASSUME TypeOK, Running, NEW f \in Frame, stack' = <<f>> \o Tail(stack)
    PROVE  Top' = f /\ Running'
BY StackOps DEF TypeOK, Running, Top

(* After a return the innermost activation, if any, is a function call or a dot. *)
LEMMA ReturnToBody ==
    ASSUME TypeOK, StackInv, Running, stack' = Tail(stack), Running'
    PROVE  Kind[Top'.cmd] \in Entered
<1>1. /\ Len(stack') = Len(stack) - 1 /\ Len(stack) \in Nat
      /\ stack' \in Seq(Frame)
      /\ \A k \in 1 .. Len(stack') : stack'[k] = stack[k+1]
  BY HeadTailProperties DEF TypeOK, Running
<1>2. Len(stack') >= 1 /\ Top' = stack'[1]
  BY <1>1 DEF Running, Top
<1>3. Top' = stack[2] /\ Len(stack) >= 2
  BY <1>1, <1>2
<1>. QED
  BY <1>1, <1>3 DEF StackInv

LEMMA RestoreInvariant == Spec => []RestoreInv
<1>1. Init => RestoreInv
  BY DEF Init, RestoreInv, Running
<1>2. TypeOK /\ StackInv /\ RestoreInv /\ [Next]_vars => RestoreInv'
  <2>. SUFFICES ASSUME TypeOK, StackInv, RestoreInv, [Next]_vars,
                       Running', Tracked(Top')
                PROVE  Snapshot(Top', fds', save')
    BY DEF RestoreInv
  <2>0. Kind[Top'.cmd] \notin Entered
    BY DEF Tracked, Straight, Entered
  <2>1. ~(Running /\ stack' = Tail(stack))
    BY <2>0, ReturnToBody
  <2>2. ASSUME NEW c \in Cmd, Top' = Call(c), fds' = fds
        PROVE  Snapshot(Top', fds', save')
    <3>1. /\ Top'.cmd = c /\ Top'.pc = "redirect" /\ Top'.i = 1 /\ Top'.entry = fds
          /\ Len(Prefix[c]) \in Nat
      BY <2>2, TreeAssumption DEF Call
    <3>2. Applied(Top') = {} /\ Replaced(Top') = {}
      BY <3>1 DEF Applied, Replaced
    <3>. QED
      BY <2>2, <3>1, <3>2 DEF Snapshot
  \* a step that moves the innermost activation to a later label
  <2>3. ASSUME NEW l \in {"flush", "reset"}, Running, GoTo(l), UNCHANGED <<fds, save>>,
               \/ Top.pc = "redirect" /\ Top.i > Len(Prefix[Top.cmd])
               \/ Top.pc = "flush"
        PROVE  Snapshot(Top', fds', save')
    <3>. DEFINE f == [Top EXCEPT !.pc = l, !.i = 1]
    <3>1. Top \in Frame /\ f \in Frame
      BY <2>3, TopUpdates
    <3>2. Top' = f
      BY <2>3, <3>1, TopAfter DEF GoTo
    <3>3. f.cmd = Top.cmd /\ f.entry = Top.entry /\ f.pc = l /\ f.i = 1
      BY <3>1 DEF Frame
    <3>. HIDE DEF f
    <3>4. Tracked(Top)
      BY <3>2, <3>3 DEF Tracked, OpenAtEntry
    <3>5. Snapshot(Top, fds, save)
      BY <2>3, <3>4 DEF RestoreInv
    <3>6. Len(Prefix[Top.cmd]) \in Nat /\ Top.i \in Nat
      BY <3>1, TreeAssumption DEF Frame
    <3>7. Applied(Top) = 1 .. Len(Prefix[Top.cmd]) /\ Replaced(Top) = Applied(Top)
      BY <2>3, <3>5, <3>6 DEF Snapshot, Applied, Replaced
    <3>8. Applied(f) = Applied(Top) /\ Replaced(f) = Replaced(Top)
      BY <3>3, <3>7 DEF Applied, Replaced
    <3>. QED
      BY <2>3, <3>2, <3>3, <3>5, <3>8 DEF Snapshot
  <2>4. ASSUME NEW c \in Cmd, Execute(c)
        PROVE  Snapshot(Top', fds', save')
    BY <2>2, <2>4 DEF Execute, Top
  <2>5. CASE ApplyRedirection
    <3>. DEFINE r == Prefix[Top.cmd][Top.i]
                f == [Top EXCEPT !.i = @ + 1]
    <3>1. /\ Running /\ Top \in Frame /\ f \in Frame
          /\ Top.pc = "redirect" /\ Top.i <= Len(Prefix[Top.cmd])
      BY <2>5, TopUpdates DEF ApplyRedirection, AtRedirection
    <3>2. PICK o \in RedirectionExecHandler(fds, r, save[r]) :
             /\ fds' = o.fds
             /\ save' = [save EXCEPT ![r] = o.save]
             /\ IF o.rc = 0 THEN stack' = <<f>> \o Tail(stack) ELSE stack' = Tail(stack)
      BY <2>5 DEF ApplyRedirection, Return
    <3>3. o.rc = 0 /\ Top' = f
      BY <2>1, <3>1, <3>2, TopAfter
    <3>4. f.cmd = Top.cmd /\ f.entry = Top.entry /\ f.pc = "redirect" /\ f.i = Top.i + 1
      BY <3>1 DEF Frame
    <3>5. /\ Len(Prefix[Top.cmd]) \in Nat /\ Top.i \in 1 .. Len(Prefix[Top.cmd])
          /\ \A k \in 1 .. Len(Prefix[Top.cmd]) : Prefix[Top.cmd][k] \in Redir
      BY <3>1, TreeAssumption DEF Frame
    <3>. DEFINE p == Prefix[Top.cmd]
                e == Top.entry
                n == Len(p)
    <3>6. /\ Tracked(Top)
          /\ \A k \in 1 .. n : IsOpen(e, Io(p[k]))
          /\ \A k \in 1 .. n : Type[p[k]] \in SavingTypes \ {"FD_IO"}
          /\ \A k, l \in 1 .. n : k # l => Io(p[k]) # Io(p[l])
      BY <3>3, <3>4 DEF Tracked, OpenAtEntry, Straight
    <3>. HIDE DEF f
    <3>7. Applied(Top) = 1 .. Top.i - 1 /\ Replaced(Top) = 1 .. Top.i - 1
      BY <3>1 DEF Applied, Replaced
    <3>8. Applied(f) = 1 .. Top.i /\ Replaced(f) = 1 .. Top.i
      BY <3>4, <3>5 DEF Applied, Replaced
    <3>9. /\ \A k \in 1 .. Top.i - 1 : /\ save[p[k]] \in FD
                                      /\ e[save[p[k]]] = Closed
                                      /\ fds[save[p[k]]] = e[Io(p[k])]
          /\ \A d \in FD : e[d] # Closed =>
                fds[d] # Closed /\ (fds[d] = e[d] \/ \E k \in 1 .. Top.i - 1 : d = Io(p[k]))
          /\ \A d \in FD : e[d] = Closed =>
                (fds[d] # Closed <=> \E k \in 1 .. Top.i - 1 : d = save[p[k]])
      BY <3>1, <3>6, <3>7 DEF RestoreInv, Snapshot
    <3>10. /\ r = p[Top.i] /\ r \in Redir /\ Io(r) \in FD
           /\ e[Io(r)] # Closed /\ fds[Io(r)] = e[Io(r)]
      <4>1. Top.i \in 1 .. n /\ \A k \in 1 .. Top.i - 1 : k \in 1 .. n /\ k # Top.i
        BY <3>5
      <4>. QED
        BY <3>5, <3>6, <3>9, <4>1 DEF IsOpen
    <3>11. /\ o.save \in FD /\ fds[o.save] = Closed
           /\ Word[r] # Closed
           /\ fds' = [fds EXCEPT ![o.save] = fds[Io(r)], ![Io(r)] = Word[r]]
      <4>1. /\ fds \in Table /\ save[r] \in FD \cup {-1}
            /\ Type[r] \in SavingTypes \ {"FD_IO"} /\ IsOpen(fds, Io(r))
        BY <3>5, <3>6, <3>10 DEF TypeOK, IsOpen
      <4>. QED
        BY <3>2, <3>3, <3>10, <4>1, StraightRedirection
    <3>12. e[o.save] = Closed
      BY <3>9, <3>11
    <3>13. \A k \in 1 .. Top.i - 1 : p[k] # r /\ p[k] \in Redir
      <4>1. \A k \in 1 .. Top.i - 1 : k \in 1 .. n /\ k # Top.i
        BY <3>5
      <4>. QED
        BY <3>5, <3>6, <3>10, <4>1
    <3>14. /\ save'[r] = o.save
           /\ \A k \in 1 .. Top.i - 1 : save'[p[k]] = save[p[k]]
      BY <3>2, <3>10, <3>13 DEF TypeOK
    <3>15. /\ fds'[o.save] = e[Io(r)]
           /\ fds'[Io(r)] = Word[r]
           /\ \A d \in FD : d # o.save /\ d # Io(r) => fds'[d] = fds[d]
           /\ o.save # Io(r)
      BY <3>10, <3>11, <3>12 DEF TypeOK, Table
    <3>. HIDE DEF r, p, e, n
    <3>16. \A k \in 1 .. Top.i : k \in 1 .. Top.i - 1 \/ k = Top.i
      BY <3>5
    <3>17. \A k \in 1 .. Top.i : /\ save'[p[k]] \in FD
                                /\ e[save'[p[k]]] = Closed
                                /\ fds'[save'[p[k]]] = e[Io(p[k])]
      <4>1. ASSUME NEW k \in 1 .. Top.i - 1
            PROVE  /\ save'[p[k]] \in FD /\ e[save'[p[k]]] = Closed
                   /\ fds'[save'[p[k]]] = e[Io(p[k])]
        <5>1. save[p[k]] \in FD /\ e[save[p[k]]] = Closed /\ fds[save[p[k]]] = e[Io(p[k])]
          BY <3>9
        <5>2. save[p[k]] # Io(r)
          BY <3>10, <5>1
        <5>3. fds[save[p[k]]] # Closed
          BY <3>9, <5>1
        <5>4. save[p[k]] # o.save
          BY <3>11, <5>3
        <5>. QED
          BY <3>14, <3>15, <5>1, <5>2, <5>4
      <4>. QED
        BY <3>10, <3>11, <3>12, <3>14, <3>15, <3>16, <4>1
    <3>18. ASSUME NEW d \in FD, e[d] # Closed
           PROVE  /\ fds'[d] # Closed
                  /\ fds'[d] = e[d] \/ \E k \in 1 .. Top.i : d = Io(p[k])
      <4>1. CASE d = Io(r)
        BY <3>5, <3>10, <3>11, <3>15, <4>1
      <4>2. CASE d # Io(r)
        <5>1. fds'[d] = fds[d]
          BY <3>12, <3>15, <3>18, <4>2
        <5>2. 1 .. Top.i - 1 \subseteq 1 .. Top.i
          BY <3>5
        <5>. QED
          BY <3>9, <3>18, <5>1, <5>2
      <4>. QED
        BY <4>1, <4>2
    <3>19. ASSUME NEW d \in FD, e[d] = Closed
           PROVE  fds'[d] # Closed <=> \E k \in 1 .. Top.i : d = save'[p[k]]
      <4>1. CASE d = o.save
        <5>1. fds'[d] # Closed
          BY <3>10, <3>15, <4>1
        <5>2. Top.i \in 1 .. Top.i /\ d = save'[p[Top.i]]
          BY <3>5, <3>10, <3>14, <4>1
        <5>. QED
          BY <5>1, <5>2
      <4>2. CASE d # o.save
        <5>1. fds'[d] = fds[d]
          BY <3>10, <3>15, <3>19, <4>2
        <5>2. (\E k \in 1 .. Top.i : d = save'[p[k]])
                <=> \E k \in 1 .. Top.i - 1 : d = save[p[k]]
          <6>1. 1 .. Top.i - 1 \subseteq 1 .. Top.i
            BY <3>5
          <6>. QED
            BY <3>10, <3>14, <3>16, <4>2, <6>1
        <5>. QED
          BY <3>9, <3>19, <5>1, <5>2
      <4>. QED
        BY <4>1, <4>2
    <3>20. Top.i + 1 <= Len(Prefix[Top.cmd]) + 1
      BY <3>5
    <3>. QED
      BY <3>3, <3>4, <3>8, <3>17, <3>18, <3>19, <3>20 DEF Snapshot, p, e
  <2>6. CASE BadSubstitution \/ RunBuiltin \/ RunCommand
    BY <2>3, <2>6 DEF BadSubstitution, RunBuiltin, RunCommand, AtDispatch
  <2>15. CASE DotRefused \/ DotUnreadable
    <3>1. Running /\ Top \in Frame /\ Kind[Top.cmd] \in Entered /\ GoTo("flush")
      BY <2>15, TopUpdates DEF DotRefused, DotUnreadable, AtDispatch, Entered
    <3>2. Top' = [Top EXCEPT !.pc = "flush", !.i = 1]
      BY <3>1, TopUpdates, TopAfter DEF GoTo
    <3>3. Top'.cmd = Top.cmd
      BY <3>1, <3>2 DEF Frame
    <3>. QED
      BY <2>0, <3>1, <3>3
  <2>7. CASE EnterFunction \/ EnterFile
    <3>1. Running /\ Top \in Frame /\ Kind[Top.cmd] \in Entered
      BY <2>7, TopUpdates DEF EnterFunction, EnterFile, AtDispatch, Entered
    <3>2. Bodies[Top.cmd] \subseteq Seq(Cmd)
      BY <3>1, TreeAssumption DEF Frame
    <3>3. PICK b \in Seq(Cmd) :
             stack' = <<[Top EXCEPT !.pc = "body", !.rest = b]>> \o Tail(stack)
      BY <2>7, <3>2 DEF EnterFunction, EnterFile, Enter
    <3>4. Top' = [Top EXCEPT !.pc = "body", !.rest = b]
      BY <3>1, <3>3, TopUpdates, TopAfter
    <3>5. Top'.cmd = Top.cmd
      BY <3>1, <3>4 DEF Frame
    <3>. QED
      BY <2>0, <3>1, <3>5
  <2>8. CASE ExecuteInBody
    <3>1. Running /\ Top.rest # << >> /\ fds' = fds
      BY <2>8 DEF ExecuteInBody
    <3>2. Head(Top.rest) \in Cmd
      BY <3>1, TopUpdates
    <3>3. Top' = Call(Head(Top.rest))
      <4>1. Tail(stack) \in Seq(Frame)
        BY <3>1, HeadTailProperties DEF TypeOK, Running
      <4>2. Head(<<Call(Head(Top.rest)), [Top EXCEPT !.rest = Tail(@)]>> \o Tail(stack))
              = Call(Head(Top.rest))
        BY <4>1
      <4>. QED
        BY <2>8, <4>2 DEF ExecuteInBody, Top
    <3>. QED
      BY <2>2, <3>1, <3>2, <3>3
  <2>9. CASE LeaveBody
    <3>1. Running /\ Top.pc = "body" /\ Top = stack[1] /\ 1 \in 1 .. Len(stack)
      BY <2>9 DEF LeaveBody, TypeOK, Running, Top
    <3>2. Kind[Top.cmd] \in Entered /\ Top \in Frame
      BY <3>1, TopUpdates DEF StackInv
    <3>3. Top' = [Top EXCEPT !.pc = "flush", !.i = 1]
      BY <2>9, <3>1, TopUpdates, TopAfter DEF LeaveBody, GoTo
    <3>4. Top'.cmd = Top.cmd
      BY <3>2, <3>3 DEF Frame
    <3>. QED
      BY <2>0, <3>2, <3>4
  <2>10. CASE FlushForReset
    BY <2>3, <2>10 DEF FlushForReset
  <2>11. CASE ResetStep
    <3>. DEFINE r == Prefix[Top.cmd][Top.i]
                f == [Top EXCEPT !.i = @ + 1]
                p == Prefix[Top.cmd]
                e == Top.entry
                n == Len(p)
    <3>1. /\ Running /\ Top \in Frame /\ f \in Frame
          /\ Top.pc = "reset" /\ Top.i <= n /\ Top' = f /\ save' = save
      BY <2>11, TopUpdates, TopAfter DEF ResetStep
    <3>2. f.cmd = Top.cmd /\ f.entry = Top.entry /\ f.pc = "reset" /\ f.i = Top.i + 1
      BY <3>1 DEF Frame
    <3>3. n \in Nat /\ Top.i \in 1 .. n
      BY <3>1, TreeAssumption DEF Frame
    <3>. HIDE DEF f
    <3>4. /\ Tracked(Top)
          /\ \A k \in 1 .. n : IsOpen(e, Io(p[k]))
          /\ \A k, l \in 1 .. n : k # l => Io(p[k]) # Io(p[l])
      BY <3>1, <3>2 DEF Tracked, OpenAtEntry, Straight
    <3>5. /\ Applied(Top) = 1 .. n /\ Applied(f) = 1 .. n
          /\ Replaced(Top) = Top.i .. n /\ Replaced(f) = Top.i + 1 .. n
      BY <3>1, <3>2 DEF Applied, Replaced
    <3>6. /\ \A k \in 1 .. n : /\ save[p[k]] \in FD
                              /\ e[save[p[k]]] = Closed
                              /\ fds[save[p[k]]] = e[Io(p[k])]
          /\ \A d \in FD : e[d] # Closed =>
                fds[d] # Closed /\ (fds[d] = e[d] \/ \E k \in Top.i .. n : d = Io(p[k]))
          /\ \A d \in FD : e[d] = Closed =>
                (fds[d] # Closed <=> \E k \in 1 .. n : d = save[p[k]])
      BY <3>1, <3>4, <3>5 DEF RestoreInv, Snapshot
    <3>7. Io(r) \in FD /\ e[Io(r)] # Closed /\ r = p[Top.i]
      BY <3>3, <3>4 DEF IsOpen
    <3>8. IsOpen(fds, save[r]) /\ fds[save[r]] = e[Io(r)]
      BY <3>3, <3>6, <3>7 DEF IsOpen
    <3>9. fds' = [fds EXCEPT ![Io(r)] = e[Io(r)]]
      BY <2>11, <3>8 DEF ResetStep
    <3>10. /\ fds'[Io(r)] = e[Io(r)]
           /\ \A d \in FD : d # Io(r) => fds'[d] = fds[d]
      BY <3>7, <3>9 DEF TypeOK, Table
    <3>. HIDE DEF r, p, e, n
    <3>11. \A k \in 1 .. n : /\ save'[p[k]] \in FD
                            /\ e[save'[p[k]]] = Closed
                            /\ fds'[save'[p[k]]] = e[Io(p[k])]
      BY <3>1, <3>6, <3>7, <3>10
    <3>12. ASSUME NEW d \in FD, e[d] # Closed
           PROVE  /\ fds'[d] # Closed
                  /\ fds'[d] = e[d] \/ \E k \in Top.i + 1 .. n : d = Io(p[k])
      <4>1. CASE d = Io(r)
        BY <3>7, <3>10, <4>1
      <4>2. CASE d # Io(r)
        <5>1. fds'[d] = fds[d]
          BY <3>10, <4>2
        <5>2. \A k \in Top.i .. n : k = Top.i \/ k \in Top.i + 1 .. n
          BY <3>3
        <5>. QED
          BY <3>6, <3>7, <3>12, <4>2, <5>1, <5>2
      <4>. QED
        BY <4>1, <4>2
    <3>13. ASSUME NEW d \in FD, e[d] = Closed
           PROVE  fds'[d] # Closed <=> \E k \in 1 .. n : d = save'[p[k]]
      BY <3>1, <3>6, <3>7, <3>10, <3>13
    <3>. QED
      BY <3>1, <3>2, <3>5, <3>11, <3>12, <3>13 DEF Snapshot, p, e, n
  <2>12. CASE LeaveWithoutReset
    BY <2>1, <2>12 DEF LeaveWithoutReset, AtDispatch, Return
  <2>13. CASE ResetDone
    BY <2>1, <2>13 DEF ResetDone, Return
  <2>14. CASE UNCHANGED vars
    BY <2>14 DEF vars, RestoreInv, Running, Top
  <2>. QED
    BY <2>4, <2>5, <2>6, <2>7, <2>8, <2>9, <2>10, <2>11, <2>12, <2>13, <2>14, <2>15
       DEF Next, Finished
<1>. QED
  BY <1>1, <1>2, TypeCorrect, StackInvariant, PTL DEF Spec

(* A command whose redirections save what they replace puts every descriptor
   back and leaves one open copy of each. *)
THEOREM RedirectionsRestore == Spec => []RestoreSound
BY TypeCorrect, RestoreInvariant, RestoreInvSuffices, PTL
=============================================================================
