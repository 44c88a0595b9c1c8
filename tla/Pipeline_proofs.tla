--------------------------- MODULE Pipeline_proofs ---------------------------
(* Proofs about Pipeline, for every number of commands, every capacity of the
   pipes and every set of statuses. *)
EXTENDS Pipeline, TLAPS

-----------------------------------------------------------------------------
(* The inductive invariant.  It says how far a runner, its left child and its
   right child are together, and which ends each process holds. *)
Early == {"none", "setup", "pipe", "fork1"}
Between == {"closewrite", "fork2", "closeread", "wait1", "wait2"}
NoLeft(p) == IF p = 1 THEN stage[1] = "none" ELSE rpc[p - 1] = "none"
Quiet(s) == stage[s] = "none" \/ StageEnded(s)

(* A left child exists from the first fork on. *)
LeftExists(p) ==
    /\ rpc[p] \in Early => NoLeft(p)
    /\ rpc[p] \in Between => ~NoLeft(p)

(* The right one from the second, and res is the status of it in the end. *)
RightExists(p) ==
    /\ rpc[p] \in Early \cup {"closewrite", "fork2"} => stage[p + 1] = "none" /\ res[p] = 0
    /\ rpc[p] \in {"closeread", "wait1", "wait2"} => stage[p + 1] # "none" /\ res[p] = 0
    /\ rpc[p] = "wait2" => LeftEnded(p)
    /\ rpc[p] \in {"done", "exited"} =>
         IF stage[p + 1] = "none" THEN res[p] = 0
         ELSE /\ LeftEnded(p) /\ StageEnded(p + 1)
              /\ res[p] = IF stage[p + 1] = "exited" THEN code[p + 1] ELSE 0

(* The runner of level p at pc holds no end of the levels inside it, its own between
   pipe() and the closes, and the write ends of all levels around it. *)
RunnerHolds(p, pc, held) ==
    /\ \A q \in Level : q < p => R(q) \notin held /\ W(q) \notin held
    /\ pc \in {"none", "setup", "pipe", "wait1", "wait2", "done", "exited"} =>
         R(p) \notin held /\ W(p) \notin held
    /\ pc \in {"fork2", "closeread"} => W(p) \notin held
    /\ pc \in {"fork1", "closewrite", "fork2", "closeread"} => R(p) \in held
    /\ pc \in {"fork1", "closewrite"} => W(p) \in held
    /\ pc \notin {"none", "exited"} => \A q \in Level : q > p => W(q) \in held

(* A command holds the read end of its input, and the write ends of all levels from
   its own on. *)
CommandHolds(s, state, held) ==
    state \in {"setup", "run"} =>
      /\ \A q \in Level : q >= s => W(q) \in held
      /\ s > 1 => R(s - 1) \in held

(* At the end of an input nobody is left who could write to it, now or later. *)
EofIsFinal(s) ==
    eof[s] =>
      /\ s > 1 /\ stage[s] # "none" /\ buffer[s - 1] = 0 /\ LeftEnded(s - 1)
      /\ \A t \in Stage : t < s => Quiet(t)
      /\ \A q \in Level : q < s - 1 => rpc[q] \in {"none", "exited"}

SigpipeOnly(s) ==
    stage[s] = "sigpipe" =>
      /\ s < N
      /\ StageEnded(s + 1) \/ (stage[s + 1] = "none" /\ rpc[s] \in {"done", "exited"})

Runners ==
    \A p \in Level : /\ LeftExists(p) /\ RightExists(p)
                     /\ RunnerHolds(p, rpc[p], ends[Runner(p)])
Commands ==
    \A s \in Stage : /\ CommandHolds(s, stage[s], ends[Command(s)])
                     /\ EofIsFinal(s) /\ SigpipeOnly(s)
IInv == TypeOK /\ Runners /\ Commands

-----------------------------------------------------------------------------
LEMMA LevelFacts ==
    ASSUME NEW p \in Level
    PROVE  /\ p \in Nat /\ p >= 1 /\ p < N /\ N \in Nat /\ p \in Stage /\ p + 1 \in Stage
           /\ p # 1 => p - 1 \in Level /\ p > 1
BY PipelineAssumption DEF Level, Stage

LEMMA StageFacts ==
    ASSUME NEW s \in Stage
    PROVE  /\ s \in Nat /\ s >= 1 /\ s <= N /\ N \in Nat
           /\ s < N => s \in Level /\ s + 1 \in Stage
           /\ s > 1 => s - 1 \in Level /\ s - 1 \in Stage
BY PipelineAssumption DEF Level, Stage

LEMMA Ends ==
    /\ \A p \in Level : R(p) \in End /\ W(p) \in End
    /\ \A p, q \in Level : /\ R(p) = R(q) => p = q
                           /\ W(p) = W(q) => p = q
                           /\ R(p) # W(q)
BY DEF R, W, End

LEMMA Processes ==
    /\ \A p \in Level : Runner(p) \in Proc
    /\ \A s \in Stage : Command(s) \in Proc
    /\ \A p, q \in Level : p # q => Runner(p) # Runner(q)
    /\ \A s, t \in Stage : s # t => Command(s) # Command(t)
    /\ \A p \in Level, s \in Stage : Runner(p) # Command(s)
BY DEF Runner, Command, Proc

(* What a step does to one value of each function. *)
LEMMA NewPc ==
    ASSUME rpc \in [Level -> RunnerStates], NEW p \in Level, NEW c \in RunnerStates, Goto(p, c)
    PROVE  /\ rpc' \in [Level -> RunnerStates] /\ rpc'[p] = c
           /\ \A q \in Level : q # p => rpc'[q] = rpc[q]
BY DEF Goto

LEMMA NewRunnerEnds ==
    ASSUME ends \in [Proc -> SUBSET End], NEW p \in Level, NEW h \in SUBSET End,
           ends' = [ends EXCEPT ![Runner(p)] = h]
    PROVE  /\ ends' \in [Proc -> SUBSET End] /\ ends'[Runner(p)] = h
           /\ \A q \in Level : q # p => ends'[Runner(q)] = ends[Runner(q)]
           /\ \A s \in Stage : ends'[Command(s)] = ends[Command(s)]
BY Processes

LEMMA NewCommandEnds ==
    ASSUME ends \in [Proc -> SUBSET End], NEW s \in Stage, NEW h \in SUBSET End,
           ends' = [ends EXCEPT ![Command(s)] = h]
    PROVE  /\ ends' \in [Proc -> SUBSET End] /\ ends'[Command(s)] = h
           /\ \A t \in Stage : t # s => ends'[Command(t)] = ends[Command(t)]
           /\ \A q \in Level : ends'[Runner(q)] = ends[Runner(q)]
BY Processes

LEMMA EndsTyped ==
    ASSUME ends \in [Proc -> SUBSET End]
    PROVE  /\ \A p \in Level : ends[Runner(p)] \in SUBSET End
           /\ \A s \in Stage : ends[Command(s)] \in SUBSET End
BY Processes

(* A left child that neither begins nor ends. *)
LEMMA LeftSame ==
    ASSUME NEW q \in Level, q = 1 => stage'[1] = stage[1],
           q # 1 => /\ (rpc'[q - 1] = "none") <=> (rpc[q - 1] = "none")
                    /\ (rpc'[q - 1] = "exited") <=> (rpc[q - 1] = "exited")
    PROVE  (NoLeft(q)' <=> NoLeft(q)) /\ (LeftEnded(q)' <=> LeftEnded(q))
BY DEF NoLeft, LeftEnded, StageEnded

(* A runner goes on, and no process begins or ends. *)
LEMMA MovePc ==
    ASSUME TypeOK, NEW p \in Level, NEW c \in RunnerStates, Goto(p, c),
           {rpc[p], c} \cap {"none", "exited"} = {}, UNCHANGED stage
    PROVE  /\ rpc' \in [Level -> RunnerStates] /\ rpc'[p] = c
           /\ \A q \in Level : /\ q # p => rpc'[q] = rpc[q]
                               /\ (rpc'[q] = "none") <=> (rpc[q] = "none")
                               /\ (rpc'[q] = "exited") <=> (rpc[q] = "exited")
                               /\ NoLeft(q)' <=> NoLeft(q)
                               /\ LeftEnded(q)' <=> LeftEnded(q)
<1>1. /\ rpc' \in [Level -> RunnerStates] /\ rpc'[p] = c
      /\ \A q \in Level : q # p => rpc'[q] = rpc[q]
  BY NewPc DEF TypeOK
<1>2. \A q \in Level : /\ (rpc'[q] = "none") <=> (rpc[q] = "none")
                       /\ (rpc'[q] = "exited") <=> (rpc[q] = "exited")
  BY <1>1
<1>3. ASSUME NEW q \in Level
      PROVE  (NoLeft(q)' <=> NoLeft(q)) /\ (LeftEnded(q)' <=> LeftEnded(q))
  <2>1. q # 1 => q - 1 \in Level
    BY LevelFacts
  <2>. QED
    BY <1>2, <2>1, LeftSame
<1>. QED
  BY <1>1, <1>2, <1>3

LEMMA MoveKeeps ==
    ASSUME IInv, NEW p \in Level, NEW c \in RunnerStates, Goto(p, c),
           {rpc[p], c} \cap {"none", "exited"} = {}, rpc[p] # "done",
           UNCHANGED <<stage, code, buffer, todo, eof>>,
           res' \in [Level -> Status], \A q \in Level : q # p => res'[q] = res[q],
           NEW h \in SUBSET End, ends' = [ends EXCEPT ![Runner(p)] = h],
           LeftExists(p)', RightExists(p)', RunnerHolds(p, c, h)
    PROVE  IInv'
<1>1. /\ rpc' \in [Level -> RunnerStates] /\ rpc'[p] = c
      /\ \A q \in Level : /\ q # p => rpc'[q] = rpc[q]
                          /\ (rpc'[q] = "none") <=> (rpc[q] = "none")
                          /\ (rpc'[q] = "exited") <=> (rpc[q] = "exited")
                          /\ NoLeft(q)' <=> NoLeft(q)
                          /\ LeftEnded(q)' <=> LeftEnded(q)
  BY MovePc DEF IInv
<1>2. /\ ends' \in [Proc -> SUBSET End] /\ ends'[Runner(p)] = h
      /\ \A q \in Level : q # p => ends'[Runner(q)] = ends[Runner(q)]
      /\ \A s \in Stage : ends'[Command(s)] = ends[Command(s)]
  BY NewRunnerEnds DEF IInv, TypeOK
<1>3. TypeOK'
  BY <1>1, <1>2 DEF IInv, TypeOK
<1>4. ASSUME NEW q \in Level, q # p
      PROVE  LeftExists(q)' /\ RightExists(q)' /\ RunnerHolds(q, rpc'[q], ends'[Runner(q)])
  <2>1. LeftExists(q) /\ RightExists(q) /\ RunnerHolds(q, rpc[q], ends[Runner(q)])
    BY DEF IInv, Runners
  <2>2. rpc'[q] = rpc[q] /\ res'[q] = res[q] /\ ends'[Runner(q)] = ends[Runner(q)]
    BY <1>1, <1>2, <1>4
  <2>3. (NoLeft(q)' <=> NoLeft(q)) /\ (LeftEnded(q)' <=> LeftEnded(q))
    BY <1>1
  <2>. QED
    BY <2>1, <2>2, <2>3 DEF LeftExists, RightExists, StageEnded
<1>5. Runners'
  BY <1>1, <1>2, <1>4 DEF Runners
<1>6. ASSUME NEW s \in Stage
      PROVE  CommandHolds(s, stage'[s], ends'[Command(s)]) /\ EofIsFinal(s)' /\ SigpipeOnly(s)'
  <2>1. CommandHolds(s, stage[s], ends[Command(s)]) /\ EofIsFinal(s) /\ SigpipeOnly(s)
    BY DEF IInv, Commands
  <2>2. s > 1 => s - 1 \in Level
    BY StageFacts
  <2>3. EofIsFinal(s)'
    BY <1>1, <2>1, <2>2 DEF EofIsFinal, Quiet, StageEnded
  <2>4. s < N => s \in Level
    BY StageFacts
  <2>5. SigpipeOnly(s)'
    BY <1>1, <2>1, <2>4 DEF SigpipeOnly, StageEnded
  <2>. QED
    BY <1>2, <2>1, <2>3, <2>5
<1>7. Commands'
  BY <1>6 DEF Commands
<1>. QED
  BY <1>3, <1>5, <1>7 DEF IInv


(* The right child of a runner that only moves on, between two points at which it
   has the same right child. *)
LEMMA RightSame ==
    ASSUME NEW p \in Level, RightExists(p), UNCHANGED <<stage, code>>, res'[p] = res[p],
           LeftEnded(p)' <=> LeftEnded(p),
           \/ /\ rpc[p] \in Early \cup {"closewrite", "fork2"}
              /\ rpc'[p] \in Early \cup {"closewrite", "fork2", "done"}
           \/ /\ rpc[p] \in {"closeread", "wait1"}
              /\ rpc'[p] \in {"closeread", "wait1"}
           \/ rpc[p] = "wait1" /\ rpc'[p] = "wait2" /\ LeftEnded(p)
    PROVE  RightExists(p)'
BY DEF RightExists, Early

LEMMA RunnerSetupKeeps ==
    ASSUME IInv, NEW p \in Level, RunnerSetup(p)
    PROVE  IInv'
<1>. DEFINE h == ends[Runner(p)] \ {R(p + 1)}
<1>1. /\ rpc[p] = "setup" /\ Goto(p, "pipe") /\ ends' = [ends EXCEPT ![Runner(p)] = h]
      /\ UNCHANGED <<res, stage, code, buffer, todo, eof>>
  BY DEF RunnerSetup, UnchangedData
<1>2. /\ rpc'[p] = "pipe"
      /\ (NoLeft(p)' <=> NoLeft(p)) /\ (LeftEnded(p)' <=> LeftEnded(p))
  BY <1>1, MovePc DEF IInv, RunnerStates
<1>3. LeftExists(p) /\ RightExists(p) /\ RunnerHolds(p, "setup", ends[Runner(p)])
  BY <1>1 DEF IInv, Runners
<1>4. LeftExists(p)'
  BY <1>1, <1>2, <1>3 DEF LeftExists, Early, Between
<1>5. RightExists(p)'
  BY <1>1, <1>2, <1>3, RightSame DEF Early
<1>6. h \in SUBSET End
  BY EndsTyped DEF IInv, TypeOK
<1>7. \A q \in Level : W(q) # R(p + 1)
  BY DEF R, W
<1>8. RunnerHolds(p, "pipe", h)
  BY <1>3, <1>7 DEF RunnerHolds
<1>9. res' \in [Level -> Status] /\ \A q \in Level : res'[q] = res[q]
  BY <1>1 DEF IInv, TypeOK
<1>. HIDE DEF h
<1>. QED
  BY <1>1, <1>4, <1>5, <1>6, <1>8, <1>9, MoveKeeps DEF RunnerStates

LEMMA PipeKeeps ==
    ASSUME IInv, NEW p \in Level, rpc[p] = "pipe", Goto(p, "fork1"),
           ends' = [ends EXCEPT ![Runner(p)] = @ \cup {R(p), W(p)}],
           UNCHANGED <<res, stage>>, UnchangedData
    PROVE  IInv'
<1>. DEFINE h == ends[Runner(p)] \cup {R(p), W(p)}
<1>1. ends' = [ends EXCEPT ![Runner(p)] = h] /\ UNCHANGED <<res, stage, code, buffer, todo, eof>>
  BY DEF UnchangedData
<1>2. /\ rpc'[p] = "fork1"
      /\ (NoLeft(p)' <=> NoLeft(p)) /\ (LeftEnded(p)' <=> LeftEnded(p))
  BY <1>1, MovePc DEF IInv, RunnerStates
<1>3. LeftExists(p) /\ RightExists(p) /\ RunnerHolds(p, "pipe", ends[Runner(p)])
  BY DEF IInv, Runners
<1>4. LeftExists(p)'
  BY <1>1, <1>2, <1>3 DEF LeftExists, Early, Between
<1>5. RightExists(p)'
  BY <1>1, <1>2, <1>3, RightSame DEF Early
<1>6. h \in SUBSET End
  BY EndsTyped, Ends DEF IInv, TypeOK
<1>7. \A q \in Level : q < p => R(q) \notin {R(p), W(p)} /\ W(q) \notin {R(p), W(p)}
  BY Ends, LevelFacts
<1>8. RunnerHolds(p, "fork1", h)
  BY <1>3, <1>7 DEF RunnerHolds
<1>9. res' \in [Level -> Status] /\ \A q \in Level : res'[q] = res[q]
  BY <1>1 DEF IInv, TypeOK
<1>. HIDE DEF h
<1>. QED
  BY <1>1, <1>4, <1>5, <1>6, <1>8, <1>9, MoveKeeps DEF RunnerStates

(* pipe() or one of the forks fails. *)
LEMMA GiveUpKeeps ==
    ASSUME IInv, NEW p \in Level, NEW h,
           \/ rpc[p] = "pipe" /\ h = ends[Runner(p)]
           \/ rpc[p] = "fork1" /\ h = ends[Runner(p)] \ {R(p), W(p)}
           \/ rpc[p] = "fork2" /\ h = ends[Runner(p)] \ {R(p)},
           GiveUp(p, h)
    PROVE  IInv'
<1>1. /\ Goto(p, "done") /\ ends' = [ends EXCEPT ![Runner(p)] = h]
      /\ UNCHANGED <<res, stage, code, buffer, todo, eof>>
  BY DEF GiveUp, UnchangedData
<1>0. {rpc[p], "done"} \cap {"none", "exited"} = {} /\ rpc[p] # "done"
  OBVIOUS
<1>2. /\ rpc'[p] = "done"
      /\ (NoLeft(p)' <=> NoLeft(p)) /\ (LeftEnded(p)' <=> LeftEnded(p))
  BY <1>0, <1>1, MovePc DEF IInv, RunnerStates
<1>3. LeftExists(p) /\ RightExists(p) /\ RunnerHolds(p, rpc[p], ends[Runner(p)])
  BY DEF IInv, Runners
<1>4. LeftExists(p)'
  BY <1>2 DEF LeftExists, Early, Between
<1>5. RightExists(p)'
  BY <1>1, <1>2, <1>3, RightSame DEF Early
<1>6. h \in SUBSET End
  BY EndsTyped DEF IInv, TypeOK
<1>7. \A q \in Level : q > p => W(q) \notin {R(p), W(p)}
  BY Ends, LevelFacts
<1>8. RunnerHolds(p, "done", h)
  BY <1>3, <1>7 DEF RunnerHolds
<1>9. res' \in [Level -> Status] /\ \A q \in Level : res'[q] = res[q]
  BY <1>1 DEF IInv, TypeOK
<1>. QED
  BY <1>0, <1>1, <1>4, <1>5, <1>6, <1>8, <1>9, MoveKeeps DEF RunnerStates

LEMMA CloseKeeps ==
    ASSUME IInv, NEW p \in Level, CloseWrite(p) \/ CloseRead(p)
    PROVE  IInv'
<1>. DEFINE c == IF rpc[p] = "closewrite" THEN "fork2" ELSE "wait1"
            h == ends[Runner(p)] \ {IF rpc[p] = "closewrite" THEN W(p) ELSE R(p)}
<1>1. /\ rpc[p] \in {"closewrite", "closeread"} /\ Goto(p, c)
      /\ ends' = [ends EXCEPT ![Runner(p)] = h]
      /\ UNCHANGED <<res, stage, code, buffer, todo, eof>>
  BY DEF CloseWrite, CloseRead, UnchangedData
<1>0. /\ {rpc[p], c} \cap {"none", "exited"} = {} /\ rpc[p] # "done" /\ c \in RunnerStates
  BY <1>1 DEF RunnerStates
<1>2. /\ rpc'[p] = c
      /\ (NoLeft(p)' <=> NoLeft(p)) /\ (LeftEnded(p)' <=> LeftEnded(p))
  <2>. HIDE DEF c
  <2>. QED
    BY <1>0, <1>1, MovePc DEF IInv
<1>3. LeftExists(p) /\ RightExists(p) /\ RunnerHolds(p, rpc[p], ends[Runner(p)])
  BY DEF IInv, Runners
<1>4. LeftExists(p)'
  BY <1>1, <1>2, <1>3 DEF LeftExists, Early, Between
<1>5. RightExists(p)'
  BY <1>1, <1>2, <1>3, RightSame DEF Early
<1>6. h \in SUBSET End
  BY EndsTyped DEF IInv, TypeOK
<1>7. \A q \in Level : /\ q > p => W(q) \notin {R(p), W(p)}
                       /\ R(p) # W(q)
  BY Ends, LevelFacts
<1>8. RunnerHolds(p, c, h)
  BY <1>1, <1>3, <1>7 DEF RunnerHolds
<1>9. res' \in [Level -> Status] /\ \A q \in Level : res'[q] = res[q]
  BY <1>1 DEF IInv, TypeOK
<1>. HIDE DEF h, c
<1>. QED
  BY <1>0, <1>1, <1>4, <1>5, <1>6, <1>8, <1>9, MoveKeeps

LEMMA WaitLeftKeeps ==
    ASSUME IInv, NEW p \in Level, WaitLeft(p)
    PROVE  IInv'
<1>1. /\ rpc[p] = "wait1" /\ Goto(p, "wait2") /\ LeftEnded(p)
      /\ UNCHANGED <<ends, res, stage, code, buffer, todo, eof>>
  BY DEF WaitLeft, UnchangedData
<1>2. /\ rpc'[p] = "wait2"
      /\ (NoLeft(p)' <=> NoLeft(p)) /\ (LeftEnded(p)' <=> LeftEnded(p))
  BY <1>1, MovePc DEF IInv, RunnerStates
<1>3. LeftExists(p) /\ RightExists(p) /\ RunnerHolds(p, "wait1", ends[Runner(p)])
  BY <1>1 DEF IInv, Runners
<1>4. LeftExists(p)'
  BY <1>1, <1>2, <1>3 DEF LeftExists, Early, Between
<1>5. RightExists(p)'
  BY <1>1, <1>2, <1>3, RightSame DEF Early
<1>6. /\ ends[Runner(p)] \in SUBSET End
      /\ ends' = [ends EXCEPT ![Runner(p)] = ends[Runner(p)]]
  BY <1>1, EndsTyped, Processes DEF IInv, TypeOK
<1>8. RunnerHolds(p, "wait2", ends[Runner(p)])
  BY <1>3 DEF RunnerHolds
<1>9. res' \in [Level -> Status] /\ \A q \in Level : res'[q] = res[q]
  BY <1>1 DEF IInv, TypeOK
<1>. QED
  BY <1>1, <1>4, <1>5, <1>6, <1>8, <1>9, MoveKeeps DEF RunnerStates

LEMMA WaitRightKeeps ==
    ASSUME IInv, NEW p \in Level, WaitRight(p)
    PROVE  IInv'
<1>1. /\ rpc[p] = "wait2" /\ Goto(p, "done") /\ StageEnded(p + 1)
      /\ res' = [res EXCEPT ![p] = IF stage[p + 1] = "exited" THEN code[p + 1] ELSE res[p]]
      /\ UNCHANGED <<ends, stage, code, buffer, todo, eof>>
  BY DEF WaitRight, UnchangedData
<1>2. /\ rpc'[p] = "done"
      /\ (NoLeft(p)' <=> NoLeft(p)) /\ (LeftEnded(p)' <=> LeftEnded(p))
  BY <1>1, MovePc DEF IInv, RunnerStates
<1>3. LeftExists(p) /\ RightExists(p) /\ RunnerHolds(p, "wait2", ends[Runner(p)])
  BY <1>1 DEF IInv, Runners
<1>4. LeftExists(p)'
  BY <1>2 DEF LeftExists, Early, Between
<1>9. /\ res' \in [Level -> Status] /\ \A q \in Level : q # p => res'[q] = res[q]
      /\ res'[p] = IF stage[p + 1] = "exited" THEN code[p + 1] ELSE res[p]
  <2>1. p + 1 \in Stage
    BY LevelFacts
  <2>. QED
    BY <1>1, <2>1 DEF IInv, TypeOK
<1>5. RightExists(p)'
  BY <1>1, <1>2, <1>3, <1>9 DEF RightExists, Early, StageEnded
<1>6. /\ ends[Runner(p)] \in SUBSET End
      /\ ends' = [ends EXCEPT ![Runner(p)] = ends[Runner(p)]]
  BY <1>1, EndsTyped, Processes DEF IInv, TypeOK
<1>8. RunnerHolds(p, "done", ends[Runner(p)])
  BY <1>3 DEF RunnerHolds
<1>. QED
  BY <1>1, <1>4, <1>5, <1>6, <1>8, <1>9, MoveKeeps DEF RunnerStates

LEMMA RunnerExitKeeps ==
    ASSUME IInv, NEW p \in Level, RunnerExit(p)
    PROVE  IInv'
<1>1. /\ rpc[p] = "done" /\ Goto(p, "exited") /\ ends' = [ends EXCEPT ![Runner(p)] = {}]
      /\ UNCHANGED <<res, stage, code, buffer, todo, eof>>
  BY DEF RunnerExit, UnchangedData
<1>2. /\ rpc' \in [Level -> RunnerStates] /\ rpc'[p] = "exited"
      /\ \A q \in Level : q # p => rpc'[q] = rpc[q]
  BY <1>1, NewPc DEF IInv, TypeOK, RunnerStates
<1>3. /\ ends' \in [Proc -> SUBSET End] /\ ends'[Runner(p)] = {}
      /\ \A q \in Level : q # p => ends'[Runner(q)] = ends[Runner(q)]
      /\ \A s \in Stage : ends'[Command(s)] = ends[Command(s)]
  <2>1. {} \in SUBSET End
    OBVIOUS
  <2>2. ends \in [Proc -> SUBSET End]
    BY DEF IInv, TypeOK
  <2>. QED
    BY <1>1, <2>1, <2>2, NewRunnerEnds
<1>4. TypeOK'
  BY <1>1, <1>2, <1>3 DEF IInv, TypeOK
<1>5. ASSUME NEW q \in Level
      PROVE  (NoLeft(q)' <=> NoLeft(q)) /\ (LeftEnded(q) => LeftEnded(q)')
  <2>1. q # 1 => q - 1 \in Level
    BY LevelFacts
  <2>. QED
    BY <1>1, <1>2, <2>1 DEF NoLeft, LeftEnded, StageEnded
<1>6. ASSUME NEW q \in Level
      PROVE  LeftExists(q)' /\ RightExists(q)' /\ RunnerHolds(q, rpc'[q], ends'[Runner(q)])
  <2>1. LeftExists(q) /\ RightExists(q) /\ RunnerHolds(q, rpc[q], ends[Runner(q)])
    BY DEF IInv, Runners
  <2>2. res'[q] = res[q] /\ stage' = stage /\ code' = code
    BY <1>1
  <2>3. CASE q = p
    <3>1. LeftExists(q)'
      BY <1>2, <2>3 DEF LeftExists, Early, Between
    <3>2. RightExists(q)'
      BY <1>1, <1>2, <1>5, <2>1, <2>2, <2>3 DEF RightExists, Early, StageEnded
    <3>3. RunnerHolds(q, rpc'[q], ends'[Runner(q)])
      BY <1>2, <1>3, <2>3 DEF RunnerHolds
    <3>. QED
      BY <3>1, <3>2, <3>3
  <2>4. CASE q # p
    <3>1. rpc'[q] = rpc[q] /\ ends'[Runner(q)] = ends[Runner(q)]
      BY <1>2, <1>3, <2>4
    <3>2. LeftExists(q)'
      BY <1>5, <2>1, <3>1 DEF LeftExists
    <3>3. RightExists(q)'
      BY <1>5, <2>1, <2>2, <3>1 DEF RightExists, StageEnded
    <3>. QED
      BY <2>1, <3>1, <3>2, <3>3
  <2>. QED
    BY <2>3, <2>4
<1>7. Runners'
  BY <1>6 DEF Runners
<1>8. ASSUME NEW s \in Stage
      PROVE  CommandHolds(s, stage'[s], ends'[Command(s)]) /\ EofIsFinal(s)' /\ SigpipeOnly(s)'
  <2>1. CommandHolds(s, stage[s], ends[Command(s)]) /\ EofIsFinal(s) /\ SigpipeOnly(s)
    BY DEF IInv, Commands
  <2>2. (s > 1 => s - 1 \in Level) /\ (s < N => s \in Level)
    BY StageFacts
  <2>3. EofIsFinal(s)'
    BY <1>1, <1>2, <1>5, <2>1, <2>2 DEF EofIsFinal, Quiet, StageEnded
  <2>4. SigpipeOnly(s)'
    BY <1>1, <1>2, <2>1, <2>2 DEF SigpipeOnly, StageEnded
  <2>. QED
    BY <1>1, <1>3, <2>1, <2>3, <2>4
<1>9. Commands'
  BY <1>8 DEF Commands
<1>. QED
  BY <1>4, <1>7, <1>9 DEF IInv

(* The first fork for the innermost level: its child is the first command. *)
LEMMA ForkFirstKeeps ==
    ASSUME IInv, rpc[1] = "fork1", Goto(1, "closewrite"),
           stage' = [stage EXCEPT ![1] = "setup"],
           ends' = [ends EXCEPT ![Command(1)] = ends[Runner(1)]],
           UNCHANGED <<res, code, buffer, todo, eof>>
    PROVE  IInv'
<1>1. 1 \in Level /\ 1 \in Stage
  BY PipelineAssumption DEF Level, Stage
<1>2. /\ rpc' \in [Level -> RunnerStates] /\ rpc'[1] = "closewrite"
      /\ \A q \in Level : q # 1 => rpc'[q] = rpc[q]
  BY <1>1, NewPc DEF IInv, TypeOK, RunnerStates
<1>3. /\ ends' \in [Proc -> SUBSET End] /\ ends'[Command(1)] = ends[Runner(1)]
      /\ \A t \in Stage : t # 1 => ends'[Command(t)] = ends[Command(t)]
      /\ \A q \in Level : ends'[Runner(q)] = ends[Runner(q)]
  BY <1>1, EndsTyped, NewCommandEnds DEF IInv, TypeOK
<1>4. /\ stage' \in [Stage -> StageStates] /\ stage'[1] = "setup"
      /\ \A t \in Stage : t # 1 => stage'[t] = stage[t]
  BY <1>1 DEF IInv, TypeOK, StageStates
<1>5. TypeOK'
  BY <1>2, <1>3, <1>4 DEF IInv, TypeOK
<1>6. LeftExists(1) /\ RightExists(1) /\ RunnerHolds(1, "fork1", ends[Runner(1)])
  BY <1>1 DEF IInv, Runners
<1>7. stage[1] = "none"
  BY <1>6 DEF LeftExists, NoLeft, Early
<1>8. ASSUME NEW q \in Level
      PROVE  LeftExists(q)' /\ RightExists(q)' /\ RunnerHolds(q, rpc'[q], ends'[Runner(q)])
  <2>1. LeftExists(q) /\ RightExists(q) /\ RunnerHolds(q, rpc[q], ends[Runner(q)])
    BY DEF IInv, Runners
  <2>2. q + 1 \in Stage /\ q + 1 # 1 /\ stage'[q + 1] = stage[q + 1]
    BY <1>4, LevelFacts
  <2>3. res'[q] = res[q] /\ code' = code /\ ends'[Runner(q)] = ends[Runner(q)]
    BY <1>3
  <2>4. CASE q = 1
    <3>1. LeftExists(1)'
      BY <1>2, <1>4 DEF LeftExists, NoLeft, Early
    <3>2. RightExists(1)'
      BY <1>2, <1>6, <2>2, <2>3, <2>4 DEF RightExists, Early
    <3>3. RunnerHolds(1, "closewrite", ends[Runner(1)])
      BY <1>6 DEF RunnerHolds
    <3>. QED
      BY <1>2, <2>3, <2>4, <3>1, <3>2, <3>3
  <2>5. CASE q # 1
    <3>1. rpc'[q] = rpc[q] /\ q - 1 \in Level
      BY <1>2, <2>5, LevelFacts
    <3>2. (NoLeft(q)' <=> NoLeft(q)) /\ (LeftEnded(q)' <=> LeftEnded(q))
      BY <1>2, <2>5, <3>1 DEF NoLeft, LeftEnded
    <3>3. LeftExists(q)'
      BY <2>1, <3>1, <3>2 DEF LeftExists
    <3>4. RightExists(q)'
      BY <2>1, <2>2, <2>3, <3>1, <3>2 DEF RightExists, StageEnded
    <3>. QED
      BY <2>1, <2>3, <3>1, <3>3, <3>4
  <2>. QED
    BY <2>4, <2>5
<1>9. Runners'
  BY <1>8 DEF Runners
<1>10. ASSUME NEW s \in Stage
       PROVE  CommandHolds(s, stage'[s], ends'[Command(s)]) /\ EofIsFinal(s)' /\ SigpipeOnly(s)'
  <2>1. CommandHolds(s, stage[s], ends[Command(s)]) /\ EofIsFinal(s) /\ SigpipeOnly(s)
    BY DEF IInv, Commands
  <2>2. /\ s \in Nat /\ s >= 1 /\ s <= N /\ N \in Nat
        /\ s < N => s \in Level /\ s + 1 \in Stage
        /\ s > 1 => s - 1 \in Level
    BY StageFacts
  <2>3. ~eof[s]
    <3>1. SUFFICES ASSUME eof[s] PROVE FALSE
      OBVIOUS
    <3>2. /\ s > 1 /\ LeftEnded(s - 1)
          /\ \A q \in Level : q < s - 1 => rpc[q] \in {"none", "exited"}
      BY <2>1, <3>1 DEF EofIsFinal
    <3>3. ~(1 < s - 1)
      BY <1>1, <3>2
    <3>4. s - 1 = 1
      BY <2>2, <3>2, <3>3
    <3>5. StageEnded(1)
      BY <3>2, <3>4 DEF LeftEnded
    <3>. QED
      BY <1>7, <3>5 DEF StageEnded
  <2>4. EofIsFinal(s)'
    BY <2>3 DEF EofIsFinal
  <2>5. CASE s = 1
    <3>1. CommandHolds(1, "setup", ends[Runner(1)])
      <4>1. \A q \in Level : q = 1 \/ q > 1
        BY LevelFacts
      <4>. QED
        BY <1>6, <4>1 DEF RunnerHolds, CommandHolds
    <3>2. SigpipeOnly(1)'
      BY <1>4 DEF SigpipeOnly
    <3>. QED
      BY <1>3, <1>4, <2>4, <2>5, <3>1, <3>2
  <2>6. CASE s # 1
    <3>1. stage'[s] = stage[s] /\ ends'[Command(s)] = ends[Command(s)]
      BY <1>3, <1>4, <2>6
    <3>2. s < N => s + 1 \in Stage /\ s + 1 # 1 /\ stage'[s + 1] = stage[s + 1] /\ rpc'[s] = rpc[s]
      BY <1>2, <1>4, <2>2, <2>6
    <3>3. SigpipeOnly(s)'
      BY <2>1, <3>1, <3>2 DEF SigpipeOnly, StageEnded
    <3>. QED
      BY <2>1, <2>4, <3>1, <3>3
  <2>. QED
    BY <2>5, <2>6
<1>11. Commands'
  BY <1>10 DEF Commands
<1>. QED
  BY <1>5, <1>9, <1>11 DEF IInv

(* The first fork for an outer level: its child is the runner of the next one. *)
LEMMA ForkRunnerKeeps ==
    ASSUME IInv, NEW p \in Level, NEW o \in Level, o = p - 1, rpc[p] = "fork1",
           rpc' = [q \in Level |-> IF q = p THEN "closewrite"
                                   ELSE IF q = o THEN "setup" ELSE rpc[q]],
           ends' = [ends EXCEPT ![Runner(o)] = ends[Runner(p)]],
           UNCHANGED <<stage, res, code, buffer, todo, eof>>
    PROVE  IInv'
<1>1. /\ p \in Nat /\ o \in Nat /\ o # p /\ p # 1 /\ o < p
      /\ \A q \in Level : q \in Nat /\ q >= 1
  BY LevelFacts
<1>2. /\ rpc' \in [Level -> RunnerStates] /\ rpc'[p] = "closewrite" /\ rpc'[o] = "setup"
      /\ \A q \in Level : q # p /\ q # o => rpc'[q] = rpc[q]
  BY <1>1 DEF IInv, TypeOK, RunnerStates
<1>3. /\ ends' \in [Proc -> SUBSET End] /\ ends'[Runner(o)] = ends[Runner(p)]
      /\ \A q \in Level : q # o => ends'[Runner(q)] = ends[Runner(q)]
      /\ \A s \in Stage : ends'[Command(s)] = ends[Command(s)]
  BY EndsTyped, NewRunnerEnds DEF IInv, TypeOK
<1>4. TypeOK'
  BY <1>2, <1>3 DEF IInv, TypeOK
<1>5. LeftExists(p) /\ RightExists(p) /\ RunnerHolds(p, "fork1", ends[Runner(p)])
  BY DEF IInv, Runners
<1>6. rpc[o] = "none"
  BY <1>1, <1>5 DEF LeftExists, NoLeft, Early
<1>7. LeftExists(o) /\ RightExists(o)
  BY DEF IInv, Runners
<1>8. ASSUME NEW q \in Level, q # p
      PROVE  (NoLeft(q)' <=> NoLeft(q)) /\ (LeftEnded(q)' <=> LeftEnded(q))
  <2>1. q # 1 => q - 1 \in Level /\ q - 1 # o
    BY <1>1, <1>8, LevelFacts
  <2>2. q # 1 => /\ (rpc'[q - 1] = "none") <=> (rpc[q - 1] = "none")
                 /\ (rpc'[q - 1] = "exited") <=> (rpc[q - 1] = "exited")
    BY <1>2, <2>1
  <2>. QED
    BY <2>2, LeftSame
<1>9. ASSUME NEW q \in Level
      PROVE  LeftExists(q)' /\ RightExists(q)' /\ RunnerHolds(q, rpc'[q], ends'[Runner(q)])
  <2>1. LeftExists(q) /\ RightExists(q) /\ RunnerHolds(q, rpc[q], ends[Runner(q)])
    BY DEF IInv, Runners
  <2>2. CASE q = p
    <3>1. LeftExists(p)'
      BY <1>1, <1>2 DEF LeftExists, NoLeft, Early
    <3>2. RightExists(p)'
      BY <1>2, <1>5 DEF RightExists, Early
    <3>3. RunnerHolds(p, "closewrite", ends[Runner(p)])
      BY <1>5 DEF RunnerHolds
    <3>. QED
      BY <1>1, <1>2, <1>3, <2>2, <3>1, <3>2, <3>3
  <2>3. CASE q = o
    <3>1. LeftExists(o)'
      BY <1>1, <1>2, <1>6, <1>7, <1>8 DEF LeftExists, Early, Between
    <3>2. RightExists(o)'
      BY <1>2, <1>6, <1>7 DEF RightExists, Early
    <3>3. \A r \in Level : /\ r < o => r < p
                           /\ r > o => r = p \/ r > p
      BY <1>1
    <3>4. RunnerHolds(o, "setup", ends[Runner(p)])
      BY <1>1, <1>5, <3>3 DEF RunnerHolds
    <3>. QED
      BY <1>2, <1>3, <2>3, <3>1, <3>2, <3>4
  <2>4. CASE q # p /\ q # o
    <3>1. rpc'[q] = rpc[q] /\ ends'[Runner(q)] = ends[Runner(q)]
      BY <1>2, <1>3, <2>4
    <3>2. LeftExists(q)'
      BY <1>8, <2>1, <2>4, <3>1 DEF LeftExists
    <3>3. RightExists(q)'
      BY <1>8, <2>1, <2>4, <3>1 DEF RightExists, StageEnded
    <3>. QED
      BY <2>1, <3>1, <3>2, <3>3
  <2>. QED
    BY <2>2, <2>3, <2>4
<1>10. Runners'
  BY <1>9 DEF Runners
<1>11. ASSUME NEW s \in Stage
       PROVE  CommandHolds(s, stage'[s], ends'[Command(s)]) /\ EofIsFinal(s)' /\ SigpipeOnly(s)'
  <2>1. CommandHolds(s, stage[s], ends[Command(s)]) /\ EofIsFinal(s) /\ SigpipeOnly(s)
    BY DEF IInv, Commands
  <2>2. /\ s \in Nat /\ s >= 1 /\ s <= N /\ N \in Nat
        /\ s < N => s \in Level
        /\ s > 1 => s - 1 \in Level
    BY StageFacts
  <2>3. ASSUME eof[s]
        PROVE  s <= p
    <3>1. /\ s > 1 /\ LeftEnded(s - 1)
          /\ \A q \in Level : q < s - 1 => rpc[q] \in {"none", "exited"}
      BY <2>1, <2>3 DEF EofIsFinal
    <3>2. ~(p < s - 1)
      BY <3>1
    <3>3. s - 1 # p
      BY <1>1, <1>6, <3>1 DEF LeftEnded
    <3>. QED
      BY <1>1, <2>2, <3>2, <3>3
  <2>4. EofIsFinal(s)'
    <3>1. SUFFICES ASSUME eof[s] PROVE EofIsFinal(s)'
      BY DEF EofIsFinal
    <3>2. s <= p /\ s > 1 /\ s - 1 \in Level /\ s - 1 # p
      BY <1>1, <2>1, <2>2, <2>3, <3>1 DEF EofIsFinal
    <3>3. LeftEnded(s - 1)' <=> LeftEnded(s - 1)
      BY <1>8, <3>2
    <3>4. \A q \in Level : q < s - 1 => q # p /\ q # o
      BY <1>1, <2>2, <3>2
    <3>5. \A q \in Level : q < s - 1 => rpc'[q] = rpc[q]
      BY <1>2, <3>4
    <3>. QED
      BY <2>1, <3>1, <3>3, <3>5 DEF EofIsFinal, Quiet, StageEnded
  <2>5. s < N => rpc'[s] = rpc[s] \/ rpc[s] \in {"none", "fork1"}
    BY <1>2, <1>6, <2>2
  <2>6. SigpipeOnly(s)'
    BY <2>1, <2>5 DEF SigpipeOnly, StageEnded
  <2>. QED
    BY <1>3, <2>1, <2>4, <2>6
<1>12. Commands'
  BY <1>11 DEF Commands
<1>. QED
  BY <1>4, <1>10, <1>12 DEF IInv

(* The second fork: its child is the command that reads. *)
LEMMA ForkRightKeeps ==
    ASSUME IInv, NEW p \in Level, NEW r \in Stage, r = p + 1, rpc[p] = "fork2",
           Goto(p, "closeread"),
           stage' = [stage EXCEPT ![r] = "setup"],
           ends' = [ends EXCEPT ![Command(r)] = ends[Runner(p)]],
           UNCHANGED <<res, code, buffer, todo, eof>>
    PROVE  IInv'
<1>1. /\ p \in Nat /\ p >= 1 /\ r # 1 /\ r > 1 /\ r - 1 = p
      /\ \A q \in Level : q \in Nat /\ q >= 1 /\ q + 1 \in Stage /\ (q # p => q + 1 # r)
  BY LevelFacts
<1>2. /\ rpc' \in [Level -> RunnerStates] /\ rpc'[p] = "closeread"
      /\ \A q \in Level : q # p => rpc'[q] = rpc[q]
  BY NewPc DEF IInv, TypeOK, RunnerStates
<1>3. /\ ends' \in [Proc -> SUBSET End] /\ ends'[Command(r)] = ends[Runner(p)]
      /\ \A t \in Stage : t # r => ends'[Command(t)] = ends[Command(t)]
      /\ \A q \in Level : ends'[Runner(q)] = ends[Runner(q)]
  BY EndsTyped, NewCommandEnds DEF IInv, TypeOK
<1>4. /\ stage' \in [Stage -> StageStates] /\ stage'[r] = "setup"
      /\ \A t \in Stage : t # r => stage'[t] = stage[t]
  BY DEF IInv, TypeOK, StageStates
<1>5. TypeOK'
  BY <1>2, <1>3, <1>4 DEF IInv, TypeOK
<1>6. LeftExists(p) /\ RightExists(p) /\ RunnerHolds(p, "fork2", ends[Runner(p)])
  BY DEF IInv, Runners
<1>7. stage[r] = "none" /\ res[p] = 0
  BY <1>1, <1>6 DEF RightExists
<1>8. ASSUME NEW q \in Level
      PROVE  (NoLeft(q)' <=> NoLeft(q)) /\ (LeftEnded(q)' <=> LeftEnded(q))
  <2>1. q # 1 => q - 1 \in Level
    BY LevelFacts
  <2>2. q # 1 => /\ (rpc'[q - 1] = "none") <=> (rpc[q - 1] = "none")
                 /\ (rpc'[q - 1] = "exited") <=> (rpc[q - 1] = "exited")
    BY <1>2, <2>1
  <2>3. stage'[1] = stage[1]
    BY <1>1, <1>4, PipelineAssumption DEF Stage
  <2>. QED
    BY <2>2, <2>3, LeftSame
<1>9. ASSUME NEW q \in Level
      PROVE  LeftExists(q)' /\ RightExists(q)' /\ RunnerHolds(q, rpc'[q], ends'[Runner(q)])
  <2>1. LeftExists(q) /\ RightExists(q) /\ RunnerHolds(q, rpc[q], ends[Runner(q)])
    BY DEF IInv, Runners
  <2>2. CASE q = p
    <3>1. LeftExists(p)'
      BY <1>2, <1>6, <1>8 DEF LeftExists, Early, Between
    <3>2. RightExists(p)'
      BY <1>1, <1>2, <1>4, <1>7 DEF RightExists, Early
    <3>3. RunnerHolds(p, "closeread", ends[Runner(p)])
      BY <1>6 DEF RunnerHolds
    <3>. QED
      BY <1>2, <1>3, <2>2, <3>1, <3>2, <3>3
  <2>3. CASE q # p
    <3>1. /\ rpc'[q] = rpc[q] /\ ends'[Runner(q)] = ends[Runner(q)]
          /\ stage'[q + 1] = stage[q + 1] /\ res'[q] = res[q] /\ code' = code
      BY <1>1, <1>2, <1>3, <1>4, <2>3
    <3>2. LeftExists(q)'
      BY <1>8, <2>1, <3>1 DEF LeftExists
    <3>3. RightExists(q)'
      BY <1>8, <2>1, <3>1 DEF RightExists, StageEnded
    <3>. QED
      BY <2>1, <3>1, <3>2, <3>3
  <2>. QED
    BY <2>2, <2>3
<1>10. Runners'
  BY <1>9 DEF Runners
<1>11. ASSUME NEW s \in Stage
       PROVE  CommandHolds(s, stage'[s], ends'[Command(s)]) /\ EofIsFinal(s)' /\ SigpipeOnly(s)'
  <2>1. CommandHolds(s, stage[s], ends[Command(s)]) /\ EofIsFinal(s) /\ SigpipeOnly(s)
    BY DEF IInv, Commands
  <2>2. /\ s \in Nat /\ s >= 1 /\ s <= N /\ N \in Nat
        /\ s < N => s \in Level /\ s + 1 \in Stage
        /\ s > 1 => s - 1 \in Level
        /\ r \in Nat
    BY StageFacts
  <2>3. EofIsFinal(s)'
    <3>1. SUFFICES ASSUME eof[s] PROVE EofIsFinal(s)'
      BY DEF EofIsFinal
    <3>2. /\ s > 1 /\ stage[s] # "none" /\ buffer[s - 1] = 0 /\ LeftEnded(s - 1)
          /\ \A t \in Stage : t < s => Quiet(t)
          /\ \A q \in Level : q < s - 1 => rpc[q] \in {"none", "exited"}
      BY <2>1, <3>1 DEF EofIsFinal
    <3>3. ~(p < s - 1) /\ s # r
      BY <1>7, <3>2
    <3>4. s < r
      BY <1>1, <2>2, <3>3
    <3>5. \A t \in Stage : t < s => t # r /\ stage'[t] = stage[t]
      BY <1>4, <2>2, <3>4
    <3>6. \A q \in Level : q < s - 1 => rpc'[q] = rpc[q]
      BY <1>2, <3>3
    <3>7. LeftEnded(s - 1)' /\ stage'[s] = stage[s]
      BY <1>4, <1>8, <2>2, <3>2, <3>3
    <3>. QED
      BY <3>2, <3>5, <3>6, <3>7 DEF EofIsFinal, Quiet, StageEnded
  <2>4. CASE s = r
    <3>1. CommandHolds(r, "setup", ends[Runner(p)])
      <4>1. \A q \in Level : q >= r => q > p
        BY <1>1, <2>2
      <4>. QED
        BY <1>1, <1>6, <4>1 DEF RunnerHolds, CommandHolds
    <3>2. SigpipeOnly(r)'
      BY <1>4 DEF SigpipeOnly
    <3>. QED
      BY <1>3, <1>4, <2>3, <2>4, <3>1, <3>2
  <2>5. CASE s # r
    <3>1. stage'[s] = stage[s] /\ ends'[Command(s)] = ends[Command(s)]
      BY <1>3, <1>4, <2>5
    <3>2. SigpipeOnly(s)'
      <4>1. CASE s = p
        <5>1. stage[s] # "sigpipe"
          BY <1>1, <1>7, <2>1, <4>1 DEF SigpipeOnly, StageEnded
        <5>. QED
          BY <3>1, <5>1 DEF SigpipeOnly
      <4>2. CASE s # p
        <5>1. s < N => stage'[s + 1] = stage[s + 1] /\ rpc'[s] = rpc[s]
          BY <1>1, <1>2, <1>4, <2>2, <4>2
        <5>. QED
          BY <2>1, <3>1, <5>1 DEF SigpipeOnly, StageEnded
      <4>. QED
        BY <4>1, <4>2
    <3>. QED
      BY <2>1, <2>3, <3>1, <3>2
  <2>. QED
    BY <2>4, <2>5
<1>12. Commands'
  BY <1>11 DEF Commands
<1>. QED
  BY <1>5, <1>10, <1>12 DEF IInv

-----------------------------------------------------------------------------
(* A command goes on, or ends; no runner moves. *)
LEMMA StageKeeps ==
    ASSUME IInv, NEW s \in Stage, NEW x \in StageStates, NEW h \in SUBSET End,
           stage[s] \in {"setup", "run"}, x # "none",
           stage' = [stage EXCEPT ![s] = x],
           ends' = [ends EXCEPT ![Command(s)] = h],
           code' \in [Stage -> Status], \A t \in Stage : t # s => code'[t] = code[t],
           UNCHANGED <<rpc, res, buffer, todo, eof>>,
           CommandHolds(s, x, h),
           x = "sigpipe" =>
             /\ s < N
             /\ StageEnded(s + 1) \/ (stage[s + 1] = "none" /\ rpc[s] \in {"done", "exited"})
    PROVE  IInv'
<1>1. /\ ends' \in [Proc -> SUBSET End] /\ ends'[Command(s)] = h
      /\ \A t \in Stage : t # s => ends'[Command(t)] = ends[Command(t)]
      /\ \A q \in Level : ends'[Runner(q)] = ends[Runner(q)]
  BY NewCommandEnds DEF IInv, TypeOK
<1>2. /\ stage' \in [Stage -> StageStates] /\ stage'[s] = x
      /\ \A t \in Stage : t # s => stage'[t] = stage[t]
  BY DEF IInv, TypeOK
<1>3. TypeOK'
  BY <1>1, <1>2 DEF IInv, TypeOK
<1>4. /\ ~StageEnded(s) /\ ~Quiet(s)
      /\ \A t \in Stage : /\ (stage'[t] = "none") <=> (stage[t] = "none")
                         /\ stage[t] \in {"exited", "sigpipe", "killed"} =>
                              stage'[t] \in {"exited", "sigpipe", "killed"}
  BY <1>2 DEF StageEnded, Quiet
<1>5. 1 \in Stage
  BY PipelineAssumption DEF Stage
<1>6. ASSUME NEW q \in Level
      PROVE  (NoLeft(q)' <=> NoLeft(q)) /\ (LeftEnded(q) => LeftEnded(q)')
  BY <1>4, <1>5 DEF NoLeft, LeftEnded, StageEnded
<1>7. ASSUME NEW q \in Level
      PROVE  LeftExists(q)' /\ RightExists(q)' /\ RunnerHolds(q, rpc'[q], ends'[Runner(q)])
  <2>1. LeftExists(q) /\ RightExists(q) /\ RunnerHolds(q, rpc[q], ends[Runner(q)])
    BY DEF IInv, Runners
  <2>2. q + 1 \in Stage
    BY LevelFacts
  <2>3. rpc' = rpc /\ res' = res /\ ends'[Runner(q)] = ends[Runner(q)]
    BY <1>1
  <2>4. LeftExists(q)'
    BY <1>6, <2>1, <2>3 DEF LeftExists
  <2>5. RightExists(q)'
    <3>1. CASE q + 1 = s
      <4>1. rpc[q] \in {"closeread", "wait1", "wait2"} \/ rpc[q] \notin {"done", "exited"}
        BY <1>4, <2>1, <3>1 DEF RightExists
      <4>2. stage'[q + 1] # "none" /\ stage[q + 1] # "none"
        BY <1>2, <3>1
      <4>3. rpc[q] \notin {"done", "exited"}
        BY <1>4, <2>1, <3>1, <4>2 DEF RightExists
      <4>. QED
        BY <1>6, <2>1, <2>3, <4>2, <4>3 DEF RightExists
    <3>2. CASE q + 1 # s
      <4>1. stage'[q + 1] = stage[q + 1] /\ code'[q + 1] = code[q + 1]
        BY <1>2, <2>2, <3>2
      <4>. QED
        BY <1>6, <2>1, <2>3, <4>1 DEF RightExists, StageEnded
    <3>. QED
      BY <3>1, <3>2
  <2>. QED
    BY <2>1, <2>3, <2>4, <2>5
<1>8. Runners'
  BY <1>7 DEF Runners
<1>9. ASSUME NEW t \in Stage
      PROVE  CommandHolds(t, stage'[t], ends'[Command(t)]) /\ EofIsFinal(t)' /\ SigpipeOnly(t)'
  <2>1. CommandHolds(t, stage[t], ends[Command(t)]) /\ EofIsFinal(t) /\ SigpipeOnly(t)
    BY DEF IInv, Commands
  <2>2. /\ t \in Nat /\ t >= 1 /\ t <= N /\ N \in Nat
        /\ t < N => t + 1 \in Stage
        /\ t > 1 => t - 1 \in Level
    BY StageFacts
  <2>3. EofIsFinal(t)'
    BY <1>4, <1>6, <2>1, <2>2 DEF EofIsFinal, Quiet, StageEnded
  <2>4. CommandHolds(t, stage'[t], ends'[Command(t)])
    BY <1>1, <1>2, <2>1
  <2>5. SigpipeOnly(t)'
    <3>1. SUFFICES ASSUME stage'[t] = "sigpipe" PROVE SigpipeOnly(t)'
      BY DEF SigpipeOnly
    <3>2. t < N /\ (StageEnded(t + 1) \/ (stage[t + 1] = "none" /\ rpc[t] \in {"done", "exited"}))
      <4>1. CASE t = s
        BY <1>2, <3>1, <4>1
      <4>2. CASE t # s
        BY <1>2, <2>1, <3>1, <4>2 DEF SigpipeOnly
      <4>. QED
        BY <4>1, <4>2
    <3>3. t + 1 \in Stage
      BY <2>2, <3>2
    <3>4. StageEnded(t + 1)' \/ (stage'[t + 1] = "none" /\ rpc'[t] \in {"done", "exited"})
      BY <1>4, <3>2, <3>3 DEF StageEnded
    <3>. QED
      BY <3>2, <3>4 DEF SigpipeOnly
  <2>. QED
    BY <2>3, <2>4, <2>5
<1>10. Commands'
  BY <1>9 DEF Commands
<1>. QED
  BY <1>3, <1>8, <1>10 DEF IInv

(* Text moves, and nothing else. *)
LEMMA DataKeeps ==
    ASSUME IInv, UNCHANGED <<rpc, res, stage, code, ends>>, TypeOK',
           \A s \in Stage : EofIsFinal(s)'
    PROVE  IInv'
<1>1. ASSUME NEW q \in Level
      PROVE  (NoLeft(q)' <=> NoLeft(q)) /\ (LeftEnded(q)' <=> LeftEnded(q))
  BY DEF NoLeft, LeftEnded, StageEnded
<1>2. ASSUME NEW q \in Level
      PROVE  LeftExists(q)' /\ RightExists(q)' /\ RunnerHolds(q, rpc'[q], ends'[Runner(q)])
  <2>1. LeftExists(q) /\ RightExists(q) /\ RunnerHolds(q, rpc[q], ends[Runner(q)])
    BY DEF IInv, Runners
  <2>2. LeftExists(q)'
    BY <1>1, <2>1 DEF LeftExists
  <2>3. RightExists(q)'
    BY <1>1, <2>1 DEF RightExists, StageEnded
  <2>. QED
    BY <2>1, <2>2, <2>3
<1>3. ASSUME NEW s \in Stage
      PROVE  CommandHolds(s, stage'[s], ends'[Command(s)]) /\ SigpipeOnly(s)'
  BY DEF IInv, Commands, SigpipeOnly, StageEnded
<1>. QED
  BY <1>2, <1>3 DEF IInv, Runners, Commands

LEMMA StageSetupKeeps ==
    ASSUME IInv, NEW s \in Stage, StageSetup(s)
    PROVE  IInv'
<1>. DEFINE h == ends[Command(s)] \ (IF s = 1 THEN {R(1)} ELSE {W(s - 1)})
<1>1. /\ stage[s] = "setup" /\ stage' = [stage EXCEPT ![s] = "run"]
      /\ ends' = [ends EXCEPT ![Command(s)] = h]
      /\ UNCHANGED <<rpc, res, code, buffer, todo, eof>>
  BY DEF StageSetup, UnchangedData
<1>2. h \in SUBSET End
  BY EndsTyped DEF IInv, TypeOK
<1>3. CommandHolds(s, "setup", ends[Command(s)])
  BY <1>1 DEF IInv, Commands
<1>4. /\ s \in Nat /\ s >= 1 /\ (s > 1 => s # 1 /\ s - 1 \in Level)
      /\ \A q \in Level : q \in Nat /\ (q >= s => q # s - 1)
  BY StageFacts, LevelFacts
<1>5. /\ \A q \in Level : q >= s => W(q) # R(1) /\ W(q) # W(s - 1)
      /\ R(s - 1) # W(s - 1)
  BY <1>4 DEF R, W
<1>6. CommandHolds(s, "run", h)
  BY <1>3, <1>4, <1>5 DEF CommandHolds
<1>7. code' \in [Stage -> Status]
  BY <1>1 DEF IInv, TypeOK
<1>. HIDE DEF h
<1>. QED
  BY <1>1, <1>2, <1>6, <1>7, StageKeeps DEF StageStates

LEMMA EndStageKeeps ==
    ASSUME IInv, NEW s \in Stage, NEW how \in {"exited", "sigpipe", "killed"}, NEW rc \in Status,
           stage[s] = "run", EndStage(s, how, rc),
           how = "sigpipe" =>
             /\ s < N
             /\ StageEnded(s + 1) \/ (stage[s + 1] = "none" /\ rpc[s] \in {"done", "exited"})
    PROVE  IInv'
<1>. DEFINE h == {}
<1>1. /\ stage' = [stage EXCEPT ![s] = how] /\ ends' = [ends EXCEPT ![Command(s)] = h]
      /\ code' = [code EXCEPT ![s] = rc]
      /\ UNCHANGED <<rpc, res, buffer, todo, eof>>
  BY DEF EndStage
<1>2. h \in SUBSET End
  OBVIOUS
<1>3. code' \in [Stage -> Status] /\ \A t \in Stage : t # s => code'[t] = code[t]
  BY <1>1 DEF IInv, TypeOK
<1>4. CommandHolds(s, how, h)
  BY DEF CommandHolds
<1>5. how \in StageStates /\ how # "none"
  BY DEF StageStates
<1>. HIDE DEF h
<1>. QED
  BY <1>1, <1>2, <1>3, <1>4, <1>5, StageKeeps

LEMMA WriteKeeps ==
    ASSUME IInv, NEW s \in Stage, Write(s)
    PROVE  IInv'
<1>1. /\ s \in Nat /\ s >= 1 /\ s < N /\ s \in Level /\ s + 1 \in Stage
      /\ s > 1 => s - 1 \in Level /\ s # 1
      /\ stage[s] = "run"
  BY StageFacts DEF Write
<1>2. CASE /\ Held(R(s)) /\ buffer[s] < Capacity
           /\ buffer' = [buffer EXCEPT ![s] = @ + 1]
           /\ todo' = [todo EXCEPT ![s] = @ - 1]
           /\ UNCHANGED <<rpc, res, stage, code, ends, eof>>
  <2>1. buffer'\in [Level -> 0 .. Capacity] /\ todo' \in [Stage -> Nat]
    <3>1. buffer[s] \in 0 .. Capacity /\ todo[s] \in Nat /\ todo[s] > 0
      BY <1>1 DEF IInv, TypeOK, Write
    <3>2. buffer[s] + 1 \in 0 .. Capacity /\ todo[s] - 1 \in Nat
      BY <1>2, <3>1, PipelineAssumption
    <3>. QED
      BY <1>2, <3>2 DEF IInv, TypeOK
  <2>2. TypeOK'
    BY <1>2, <2>1 DEF IInv, TypeOK
  <2>3. ASSUME NEW t \in Stage
        PROVE  EofIsFinal(t)'
    <3>1. SUFFICES ASSUME eof[t] PROVE EofIsFinal(t)'
      BY <1>2 DEF EofIsFinal
    <3>2. EofIsFinal(t)
      BY DEF IInv, Commands
    <3>3. ~Quiet(s)
      BY <1>1 DEF Quiet, StageEnded
    <3>4. t # s + 1
      BY <1>1, <3>1, <3>2, <3>3 DEF EofIsFinal
    <3>5. t > 1 /\ t - 1 \in Level /\ t - 1 # s
      BY <1>1, <3>1, <3>2, <3>4, StageFacts DEF EofIsFinal
    <3>6. buffer'[t - 1] = buffer[t - 1]
      BY <1>2, <3>5 DEF IInv, TypeOK
    <3>. QED
      BY <1>2, <3>1, <3>2, <3>6 DEF EofIsFinal, Quiet, LeftEnded, StageEnded
  <2>. QED
    BY <1>2, <2>2, <2>3, DataKeeps
<1>3. CASE ~Held(R(s)) /\ EndStage(s, "sigpipe", 0)
  <2>1. \A q \in Level : R(s) \notin ends[Runner(q)]
    BY <1>3, Processes DEF Held
  <2>2. R(s) \notin ends[Command(s + 1)]
    BY <1>1, <1>3, Processes DEF Held
  <2>3. LeftExists(s) /\ RightExists(s) /\ RunnerHolds(s, rpc[s], ends[Runner(s)])
    BY <1>1 DEF IInv, Runners
  <2>4. CommandHolds(s + 1, stage[s + 1], ends[Command(s + 1)])
    BY <1>1 DEF IInv, Commands
  <2>5. stage[s + 1] \notin {"setup", "run"}
    BY <1>1, <2>2, <2>4 DEF CommandHolds
  <2>6. rpc[s] \notin {"fork1", "closewrite", "fork2", "closeread"}
    BY <1>1, <2>1, <2>3 DEF RunnerHolds
  <2>7. rpc[s] \notin Early
    <3>1. SUFFICES ASSUME rpc[s] \in Early PROVE FALSE
      OBVIOUS
    <3>2. NoLeft(s)
      BY <2>3, <3>1 DEF LeftExists
    <3>3. s # 1
      BY <1>1, <3>2 DEF NoLeft
    <3>4. s - 1 \in Level /\ (s - 1) + 1 = s
      BY <1>1, <3>3
    <3>5. rpc[s - 1] = "none" /\ RightExists(s - 1)
      BY <3>2, <3>3, <3>4 DEF NoLeft, IInv, Runners
    <3>. QED
      BY <1>1, <3>4, <3>5 DEF RightExists, Early
  <2>8. rpc[s] \in RunnerStates /\ stage[s + 1] \in StageStates
    BY <1>1 DEF IInv, TypeOK
  <2>9. StageEnded(s + 1) \/ (stage[s + 1] = "none" /\ rpc[s] \in {"done", "exited"})
    <3>1. CASE stage[s + 1] = "none"
      BY <2>3, <2>6, <2>7, <2>8, <3>1 DEF RightExists, RunnerStates, Early
    <3>2. CASE stage[s + 1] # "none"
      BY <2>5, <2>8, <3>2 DEF StageEnded, StageStates
    <3>. QED
      BY <3>1, <3>2
  <2>. QED
    BY <1>1, <1>3, <2>9, EndStageKeeps, PipelineAssumption
<1>. QED
  BY <1>2, <1>3 DEF Write

LEMMA ReadKeeps ==
    ASSUME IInv, NEW s \in Stage, Read(s)
    PROVE  IInv'
<1>1. /\ s \in Nat /\ s > 1 /\ s # 1 /\ s - 1 \in Level /\ s - 1 \in Stage /\ (s - 1) + 1 = s
      /\ stage[s] = "run" /\ ~eof[s]
      /\ UNCHANGED <<rpc, res, stage, code, ends>>
  BY StageFacts DEF Read
<1>2. CASE /\ buffer[s - 1] > 0
           /\ buffer' = [buffer EXCEPT ![s - 1] = @ - 1]
           /\ todo' = [todo EXCEPT ![s] = IF s = N THEN 0 ELSE 1]
           /\ UNCHANGED eof
  <2>1. buffer' \in [Level -> 0 .. Capacity] /\ todo' \in [Stage -> Nat]
    <3>1. buffer[s - 1] \in 0 .. Capacity
      BY <1>1 DEF IInv, TypeOK
    <3>2. buffer[s - 1] - 1 \in 0 .. Capacity
      BY <1>2, <3>1, PipelineAssumption
    <3>. QED
      BY <1>1, <1>2, <3>2 DEF IInv, TypeOK
  <2>2. TypeOK'
    BY <1>1, <1>2, <2>1 DEF IInv, TypeOK
  <2>3. ASSUME NEW t \in Stage
        PROVE  EofIsFinal(t)'
    <3>1. SUFFICES ASSUME eof[t] PROVE EofIsFinal(t)'
      BY <1>2 DEF EofIsFinal
    <3>2. EofIsFinal(t)
      BY DEF IInv, Commands
    <3>3. t > 1 /\ t - 1 \in Level /\ t - 1 # s - 1
      BY <1>1, <3>1, <3>2, StageFacts DEF EofIsFinal
    <3>4. buffer'[t - 1] = buffer[t - 1]
      BY <1>2, <3>3 DEF IInv, TypeOK
    <3>. QED
      BY <1>1, <1>2, <3>1, <3>2, <3>4 DEF EofIsFinal, Quiet, LeftEnded, StageEnded
  <2>. QED
    BY <1>1, <2>2, <2>3, DataKeeps
<1>3. CASE /\ buffer[s - 1] = 0 /\ ~Held(W(s - 1))
           /\ eof' = [eof EXCEPT ![s] = TRUE]
           /\ UNCHANGED <<buffer, todo>>
  <2>1. \A q \in Level : W(s - 1) \notin ends[Runner(q)]
    BY <1>3, Processes DEF Held
  <2>2. \A t \in Stage : W(s - 1) \notin ends[Command(t)]
    BY <1>3, Processes DEF Held
  <2>3. ASSUME NEW t \in Stage, t < s
        PROVE  Quiet(t)
    <3>1. CommandHolds(t, stage[t], ends[Command(t)])
      BY DEF IInv, Commands
    <3>2. s - 1 >= t
      BY <1>1, <2>3, StageFacts
    <3>3. stage[t] \notin {"setup", "run"}
      BY <1>1, <2>2, <3>1, <3>2 DEF CommandHolds
    <3>4. stage[t] \in StageStates
      BY DEF IInv, TypeOK
    <3>. QED
      BY <3>3, <3>4 DEF Quiet, StageEnded, StageStates
  <2>4. ASSUME NEW q \in Level, q < s - 1
        PROVE  rpc[q] \in {"none", "exited"}
    <3>1. RunnerHolds(q, rpc[q], ends[Runner(q)])
      BY DEF IInv, Runners
    <3>2. s - 1 > q
      BY <1>1, <2>4, LevelFacts
    <3>. QED
      BY <1>1, <2>1, <3>1, <3>2 DEF RunnerHolds
  <2>5. LeftEnded(s - 1)
    <3>1. LeftExists(s - 1) /\ RightExists(s - 1) /\ rpc[s - 1] \in RunnerStates
      BY <1>1 DEF IInv, TypeOK, Runners
    <3>2. CASE rpc[s - 1] \in {"done", "exited"}
      BY <1>1, <3>1, <3>2 DEF RightExists
    <3>3. CASE rpc[s - 1] \in {"closeread", "wait1", "wait2"}
      <4>1. ~NoLeft(s - 1)
        BY <3>1, <3>3 DEF LeftExists, Between
      <4>2. CASE s - 1 = 1
        <5>1. Quiet(1) /\ stage[1] # "none"
          BY <1>1, <2>3, <4>1, <4>2 DEF NoLeft
        <5>. QED
          BY <4>2, <5>1 DEF LeftEnded, Quiet
      <4>3. CASE s - 1 # 1
        <5>1. (s - 1) - 1 \in Level /\ (s - 1) - 1 < s - 1
          BY <1>1, <4>3, LevelFacts
        <5>2. rpc[(s - 1) - 1] \in {"none", "exited"}
          BY <2>4, <5>1
        <5>. QED
          BY <4>1, <4>3, <5>2 DEF LeftEnded, NoLeft
      <4>. QED
        BY <4>2, <4>3
    <3>4. CASE rpc[s - 1] \in Early \cup {"closewrite", "fork2"}
      BY <1>1, <3>1, <3>4 DEF RightExists
    <3>. QED
      BY <3>1, <3>2, <3>3, <3>4 DEF RunnerStates, Early
  <2>6. eof' \in [Stage -> BOOLEAN] /\ \A t \in Stage : t # s => eof'[t] = eof[t]
    BY <1>3 DEF IInv, TypeOK
  <2>7. TypeOK'
    BY <1>1, <1>3, <2>6 DEF IInv, TypeOK
  <2>8. ASSUME NEW t \in Stage
        PROVE  EofIsFinal(t)'
    <3>1. CASE t = s
      <4>1. LeftEnded(s - 1)' /\ \A u \in Stage : u < s => Quiet(u)'
        BY <1>1, <2>3, <2>5 DEF LeftEnded, Quiet, StageEnded
      <4>. QED
        BY <1>1, <1>3, <2>4, <3>1, <4>1 DEF EofIsFinal
    <3>2. CASE t # s
      <4>1. EofIsFinal(t) /\ eof'[t] = eof[t]
        BY <2>6, <3>2 DEF IInv, Commands
      <4>. QED
        BY <1>1, <1>3, <4>1 DEF EofIsFinal, Quiet, LeftEnded, StageEnded
    <3>. QED
      BY <3>1, <3>2
  <2>. QED
    BY <1>1, <2>7, <2>8, DataKeeps
<1>. QED
  BY <1>2, <1>3 DEF Read

-----------------------------------------------------------------------------
LEMMA InitIInv == Init => IInv
<1>. SUFFICES ASSUME Init PROVE IInv
  OBVIOUS
<1>1. Shell \in Level /\ \A p \in Level : p # Shell => p < Shell
  BY PipelineAssumption DEF Shell, Level
<1>2. TypeOK
  BY PipelineAssumption DEF Init, TypeOK, RunnerStates, StageStates
<1>3. ASSUME NEW p \in Level
      PROVE  LeftExists(p) /\ RightExists(p) /\ RunnerHolds(p, rpc[p], ends[Runner(p)])
  <2>1. /\ p \in Nat /\ p >= 1 /\ p \in Stage /\ p + 1 \in Stage /\ 1 \in Stage
        /\ p # 1 => p - 1 \in Level /\ p - 1 # Shell
    BY LevelFacts, <1>1, PipelineAssumption DEF Stage, Shell
  <2>2. rpc[p] \in {"none", "pipe"} /\ (rpc[p] = "pipe" => p = Shell)
    BY DEF Init
  <2>3. LeftExists(p)
    BY <2>1, <2>2 DEF Init, LeftExists, NoLeft, Early, Between
  <2>4. RightExists(p)
    BY <2>1, <2>2 DEF Init, RightExists, Early
  <2>5. ends[Runner(p)] = {}
    BY Processes DEF Init
  <2>6. \A q \in Level : ~(q > Shell)
    BY <1>1 DEF Shell, Level
  <2>7. RunnerHolds(p, rpc[p], ends[Runner(p)])
    BY <2>2, <2>5, <2>6 DEF RunnerHolds
  <2>. QED
    BY <2>3, <2>4, <2>7
<1>4. ASSUME NEW s \in Stage
      PROVE  CommandHolds(s, stage[s], ends[Command(s)]) /\ EofIsFinal(s) /\ SigpipeOnly(s)
  BY DEF Init, CommandHolds, EofIsFinal, SigpipeOnly
<1>. QED
  BY <1>2, <1>3, <1>4 DEF IInv, Runners, Commands

LEMMA RunnerStepKeeps ==
    ASSUME IInv, NEW p \in Level, RunnerStep(p)
    PROVE  IInv'
<1>1. CASE RunnerSetup(p)
  BY <1>1, RunnerSetupKeeps
<1>2. CASE Pipe(p)
  BY <1>2, PipeKeeps, GiveUpKeeps DEF Pipe
<1>3. CASE ForkLeft(p)
  <2>1. CASE GiveUp(p, ends[Runner(p)] \ {R(p), W(p)})
    BY <1>3, <2>1, GiveUpKeeps DEF ForkLeft
  <2>2. CASE p = 1 /\ ~GiveUp(p, ends[Runner(p)] \ {R(p), W(p)})
    <3>1. /\ rpc[1] = "fork1" /\ stage' = [stage EXCEPT ![1] = "setup"]
          /\ ends' = [ends EXCEPT ![Command(1)] = ends[Runner(1)]]
          /\ UNCHANGED <<res, code, buffer, todo, eof>>
      BY <1>3, <2>2 DEF ForkLeft, Left, UnchangedData
    <3>2. Goto(1, "closewrite")
      <4>1. rpc' = [q \in Level |-> IF q = 1 THEN "closewrite"
                                    ELSE IF q = 1 - 1 THEN "setup" ELSE rpc[q]]
        BY <1>3, <2>2 DEF ForkLeft
      <4>2. \A q \in Level : q # 1 - 1
        BY LevelFacts
      <4>. QED
        BY <4>1, <4>2 DEF Goto, IInv, TypeOK
    <3>. QED
      BY <3>1, <3>2, ForkFirstKeeps
  <2>3. CASE p # 1 /\ ~GiveUp(p, ends[Runner(p)] \ {R(p), W(p)})
    <3>1. p - 1 \in Level
      BY <2>3, LevelFacts
    <3>2. /\ rpc[p] = "fork1"
          /\ rpc' = [q \in Level |-> IF q = p THEN "closewrite"
                                     ELSE IF q = p - 1 THEN "setup" ELSE rpc[q]]
          /\ ends' = [ends EXCEPT ![Runner(p - 1)] = ends[Runner(p)]]
          /\ UNCHANGED <<stage, res, code, buffer, todo, eof>>
      BY <1>3, <2>3 DEF ForkLeft, Left, UnchangedData
    <3>. QED
      BY <3>1, <3>2, ForkRunnerKeeps
  <2>. QED
    BY <2>1, <2>2, <2>3
<1>4. CASE CloseWrite(p) \/ CloseRead(p)
  BY <1>4, CloseKeeps
<1>5. CASE ForkRight(p)
  <2>1. p + 1 \in Stage
    BY LevelFacts
  <2>2. CASE GiveUp(p, ends[Runner(p)] \ {R(p)})
    BY <1>5, <2>2, GiveUpKeeps DEF ForkRight
  <2>3. CASE ~GiveUp(p, ends[Runner(p)] \ {R(p)})
    BY <1>5, <2>1, <2>3, ForkRightKeeps DEF ForkRight, Right, UnchangedData
  <2>. QED
    BY <2>2, <2>3
<1>6. CASE WaitLeft(p)
  BY <1>6, WaitLeftKeeps
<1>7. CASE WaitRight(p)
  BY <1>7, WaitRightKeeps
<1>8. CASE RunnerExit(p)
  BY <1>8, RunnerExitKeeps
<1>. QED
  BY <1>1, <1>2, <1>3, <1>4, <1>5, <1>6, <1>7, <1>8 DEF RunnerStep

LEMMA StageStepKeeps ==
    ASSUME IInv, NEW s \in Stage, StageStep(s) \/ Quit(s)
    PROVE  IInv'
<1>1. CASE StageSetup(s)
  BY <1>1, StageSetupKeeps
<1>2. CASE Write(s)
  BY <1>2, WriteKeeps
<1>3. CASE Read(s)
  BY <1>3, ReadKeeps
<1>4. CASE Exit(s)
  BY <1>4, EndStageKeeps DEF Exit
<1>5. CASE Quit(s)
  BY <1>5, EndStageKeeps, PipelineAssumption DEF Quit
<1>. QED
  BY <1>1, <1>2, <1>3, <1>4, <1>5 DEF StageStep

LEMMA NextIInv == IInv /\ [Next]_vars => IInv'
<1>. SUFFICES ASSUME IInv, [Next]_vars PROVE IInv'
  OBVIOUS
<1>1. CASE UNCHANGED vars
  <2>1. UNCHANGED <<rpc, res, stage, code, ends, buffer, todo, eof>>
    BY <1>1 DEF vars
  <2>2. \A s \in Stage : EofIsFinal(s)
    BY DEF IInv, Commands
  <2>3. \A s \in Stage : EofIsFinal(s)'
    BY <2>1, <2>2 DEF EofIsFinal, Quiet, LeftEnded, StageEnded
  <2>4. TypeOK'
    BY <2>1 DEF IInv, TypeOK
  <2>. QED
    BY <2>1, <2>3, <2>4, DataKeeps
<1>2. CASE \E p \in Level : RunnerStep(p)
  BY <1>2, RunnerStepKeeps
<1>3. CASE \E s \in Stage : StageStep(s) \/ Quit(s)
  BY <1>3, StageStepKeeps
<1>. QED
  BY <1>1, <1>2, <1>3 DEF Next, Finished

LEMMA Invariant == Spec => []IInv
BY InitIInv, NextIInv, PTL DEF Spec

-----------------------------------------------------------------------------
(* Every process is at a point of exec_pipe, every end belongs to a level, and no pipe
   holds more than it can. *)
THEOREM TypeCorrect == Spec => []TypeOK
<1>1. IInv => TypeOK
  BY DEF IInv
<1>. QED
  BY <1>1, Invariant, PTL

(* A runner that waits or has returned holds no end of its pipe, for every number of
   commands and whichever call of pipe or fork failed. *)
THEOREM WaitsWithoutEnds == Spec => []WaitsEmptyHanded
<1>1. IInv => WaitsEmptyHanded
  BY DEF IInv, Runners, RunnerHolds, WaitsEmptyHanded
<1>. QED
  BY <1>1, Invariant, PTL

(* No command takes a missing writer for the end of its input: when it sees the end,
   no process is left that could write, at any level of the pipeline. *)
THEOREM EndOfInputIsTrue == Spec => []NoEarlyEof
<1>1. IInv => NoEarlyEof
  <2>. SUFFICES ASSUME IInv, NEW s \in Stage, eof[s]
                PROVE  /\ buffer[s - 1] = 0 /\ LeftEnded(s - 1)
                       /\ \A t \in 1 .. s - 1 : stage[t] = "none" \/ StageEnded(t)
    BY DEF NoEarlyEof
  <2>1. EofIsFinal(s)
    BY DEF IInv, Commands
  <2>2. \A t \in 1 .. s - 1 : t \in Stage /\ t < s
    BY StageFacts DEF Stage
  <2>. QED
    BY <2>1, <2>2 DEF EofIsFinal, Quiet
<1>. QED
  BY <1>1, Invariant, PTL

(* SIGPIPE comes from a reader that ended or could never be created. *)
THEOREM SigpipeIsDeserved == Spec => []NoSpuriousSigpipe
<1>1. IInv => NoSpuriousSigpipe
  BY DEF IInv, Commands, SigpipeOnly, NoSpuriousSigpipe
<1>. QED
  BY <1>1, Invariant, PTL

(* exec_pipe returns the status of its right command, and only when both its children
   have ended. *)
THEOREM StatusOfRight == Spec => []ReturnsStatusOfRight
<1>1. IInv => ReturnsStatusOfRight
  BY DEF IInv, Runners, RightExists, ReturnsStatusOfRight
<1>. QED
  BY <1>1, Invariant, PTL

=============================================================================
