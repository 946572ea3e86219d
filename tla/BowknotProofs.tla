----------------------------- MODULE BowknotProofs ----------------------------
(****************************************************************************)
(* Proofs about the instrumented kernel, for every program, every number of *)
(* tasks and every bound.                                                   *)
(****************************************************************************)
EXTENDS BowknotProps, FiniteSetTheorems, WellFoundedInduction, TLAPS

-----------------------------------------------------------------------------
(* The numbering of assign_pairmask_id. *)

\* A non-empty set of natural numbers has a least element.
LEMMA LeastElement ==
    ASSUME NEW S \in SUBSET Nat, S # {}
    PROVE  \E m \in S : \A n \in S : m <= n
<1> DEFINE Upto == {1..m : m \in S}
<1>1. Upto \subseteq FiniteSubsetsOf(Nat) /\ Upto # {}
  <2>1. ASSUME NEW m \in S
        PROVE  1..m \in FiniteSubsetsOf(Nat)
    <3>1. m \in Int /\ 1 \in Int
      OBVIOUS
    <3>2. IsFiniteSet(1..m)
      BY <3>1, FS_Interval
    <3>3. 1..m \in SUBSET Nat
      OBVIOUS
    <3> QED BY <3>2, <3>3 DEF FiniteSubsetsOf
  <2> QED BY <2>1
<1>2. PICK x \in Upto : \A y \in Upto : <<y, x>> \notin StrictSubsetOrdering(Nat)
  BY <1>1, FS_StrictSubsetOrderingWellFounded, WFMin
<1>3. PICK m \in S : x = 1..m
  OBVIOUS
<1>4. ASSUME NEW n \in S, n < m
      PROVE  FALSE
  <2>1. 1..n \subseteq 1..m /\ 1..n # 1..m
    <3>1. m \in 1..m /\ m \notin 1..n
      BY <1>4
    <3> QED BY <1>4, <3>1
  <2>2. 1..n \in SUBSET Nat /\ 1..m \in SUBSET Nat
    OBVIOUS
  <2>3. \A A, B \in SUBSET Nat :
            A \subseteq B /\ A # B => <<A, B>> \in StrictSubsetOrdering(Nat)
    BY DEF StrictSubsetOrdering
  <2>4. <<1..n, 1..m>> \in StrictSubsetOrdering(Nat)
    BY <2>1, <2>2, <2>3
  <2>5. 1..n \in Upto
    BY <1>4
  <2>6. <<1..n, x>> \notin StrictSubsetOrdering(Nat)
    BY <1>2, <2>5
  <2> QED BY <1>3, <2>4, <2>6
<1> QED BY <1>4

\* First is where an undo's entry stands: at an undo statement of the resource.
LEMMA FirstIsUndo ==
    ASSUME NEW f \in Func, NEW r \in Undo[f]
    PROVE  First[f][r] \in DOMAIN Body[f] /\ IsUndo(f, First[f][r], r)
<1> DEFINE P == {p \in DOMAIN Body[f] : IsUndo(f, p, r)}
<1>0. Body[f] \in Seq(Stmt)
  BY InstrumentAssumption
<1>1. P # {}
  BY DEF Undo
<1>2. P \in SUBSET Nat
  BY <1>0
<1>3. \E p \in P : \A q \in P : p <= q
  BY <1>1, <1>2, LeastElement
<1>4. First[f][r] = CHOOSE p \in DOMAIN Body[f] :
                /\ IsUndo(f, p, r)
                /\ \A q \in DOMAIN Body[f] : IsUndo(f, q, r) => p <= q
  BY DEF First
<1> QED BY <1>3, <1>4

\* insert_pairmask_stamps and the cleanup block tell two undos apart by their
\* bits: no two undos of a function have the same number.
THEOREM DistinctIds ==
    ASSUME NEW f \in Func, NEW r \in Undo[f], NEW s \in Undo[f], r # s
    PROVE  pairmask_id[f][r] # pairmask_id[f][s]
<1> DEFINE Before(x) == {y \in Undo[f] : NumberedBefore(f, y, x)}
<1>0. \A x \in Undo[f] : First[f][x] \in Nat
  <2>1. Body[f] \in Seq(Stmt)
    BY InstrumentAssumption
  <2> QED BY <2>1, FirstIsUndo
<1>1. \A x \in Undo[f] : pairmask_id[f][x] = Cardinality(Before(x)) + 1
  BY DEF pairmask_id
<1>2. First[f][r] # First[f][s]
  BY FirstIsUndo DEF IsUndo
<1>3. \A x \in Undo[f] : IsFiniteSet(Before(x)) /\ Cardinality(Before(x)) \in Nat
  <2>1. IsFiniteSet(Undo[f])
    <3>1. Undo[f] \in SUBSET Res
      BY DEF Undo
    <3> QED BY <3>1, FS_Subset, InstrumentAssumption
  <2> QED BY <2>1, FS_Subset, FS_CardinalityType
<1>4. ASSUME NEW x \in Undo[f], NEW y \in Undo[f], NumberedBefore(f, x, y)
      PROVE  Cardinality(Before(x)) # Cardinality(Before(y))
  <2>1. Before(x) \in SUBSET Before(y)
    BY <1>0, <1>4 DEF NumberedBefore
  <2>2. x \in Before(y) /\ x \notin Before(x)
    BY <1>0, <1>4 DEF NumberedBefore
  <2>3. Cardinality(Before(y)) = Cardinality(Before(x)) => Before(y) = Before(x)
    BY <1>3, <2>1, FS_Subset
  <2> QED BY <2>2, <2>3
<1>5. NumberedBefore(f, r, s) \/ NumberedBefore(f, s, r)
  <2>1. First[f][r] < First[f][s] \/ First[f][s] < First[f][r]
    BY <1>0, <1>2
  <2> QED BY <2>1 DEF NumberedBefore
<1>6. Cardinality(Before(r)) # Cardinality(Before(s))
  BY <1>4, <1>5
<1> HIDE DEF Before
<1> QED BY <1>1, <1>3, <1>6

-----------------------------------------------------------------------------
(* Type correctness. *)

\* Every statement of a function is a statement record at a natural number.
LEMMA Statements ==
    ASSUME NEW f \in Func, NEW p \in DOMAIN Body[f]
    PROVE  /\ p \in Nat
           /\ Body[f][p] \in Stmt
           /\ Body[f][p].op \notin {"goto", "ret"} => p + 1 \in DOMAIN Body[f]
           /\ Body[f][p].op \in {"if", "iferr", "cond", "goto"} => Body[f][p].k \in DOMAIN Body[f]
           /\ Body[f][p].op \in {"acq", "rel", "iferr", "cond"} => Body[f][p].r \in Res
           /\ Body[f][p].f \in Func \cup {NoFunc}
<1>1. Body[f] \in Seq(Stmt)
  BY InstrumentAssumption
<1>2. p \in Nat /\ Body[f][p] \in Stmt
  BY <1>1
<1> QED BY <1>2, InstrumentAssumption DEF Stmt

\* A function starts at its first statement.
LEMMA NewFrameFits ==
    ASSUME NEW f \in Func, NEW irq \in BOOLEAN
    PROVE  NewFrame(f, irq) \in FrameType /\ Placed(NewFrame(f, irq))
<1>1. Body[f] \in Seq(Stmt) /\ Body[f] # <<>>
  BY InstrumentAssumption
<1>2. 1 \in DOMAIN Body[f]
  BY <1>1
<1>3. Zero \in [Res -> Int]
  BY DEF Zero
<1>4. NewFrame(f, irq) \in FrameType
  BY <1>3 DEF NewFrame, NoFrame, FrameType, Phases
<1>5. /\ NewFrame(f, irq).fn = f /\ NewFrame(f, irq).pc = 1
      /\ NewFrame(f, irq).ph = "run" /\ NewFrame(f, irq).todo = {}
  BY DEF NewFrame, NoFrame
<1> QED BY <1>2, <1>4, <1>5 DEF Placed

\* The level above the top of a stack holds a frame record too.
LEMMA NoFrameFits == NoFrame \in FrameType
<1>1. Zero \in [Res -> Int]
  BY DEF Zero
<1> QED BY <1>1 DEF NoFrame, FrameType, Phases

\* What the frames of the stacks are after the top frame of t has changed.
LEMMA BecomesFits ==
    ASSUME TInv, NEW t \in Task, depth[t] > 0,
           NEW fr \in FrameType, Placed(fr), Becomes(t, fr), depth' = depth
    PROVE  /\ depth' \in [Task -> 0..MaxDepth]
           /\ frame' \in [Task -> [Level -> FrameType]]
           /\ \A u \in Task : \A d \in 1..depth'[u] : Placed(frame'[u][d])
<1>1. depth[t] \in Level /\ depth \in [Task -> 0..MaxDepth]
  BY BowknotAssumption DEF TInv, TypeOK, Level
<1>2. frame' = [frame EXCEPT ![t][depth[t]] = fr]
  BY DEF Becomes
<1> QED BY <1>1, <1>2 DEF TInv, TypeOK, Level

\* And after a frame has been put on the stack of t.
LEMMA PushFits ==
    ASSUME TInv, NEW t \in Task, NEW fr \in FrameType, depth[t] > 0 => Placed(fr),
           NEW f \in Func, NEW irq \in BOOLEAN, Push(t, fr, f, irq)
    PROVE  /\ depth' \in [Task -> 0..MaxDepth]
           /\ frame' \in [Task -> [Level -> FrameType]]
           /\ \A u \in Task : \A d \in 1..depth'[u] : Placed(frame'[u][d])
<1>1. depth[t] \in 0..MaxDepth /\ depth[t] + 1 \in Level /\ depth \in [Task -> 0..MaxDepth]
  BY BowknotAssumption DEF TInv, TypeOK, Level, Push
<1>2. NewFrame(f, irq) \in FrameType /\ Placed(NewFrame(f, irq))
  BY NewFrameFits
<1>3. /\ depth' = [depth EXCEPT ![t] = @ + 1]
      /\ frame' = [frame EXCEPT ![t] =
            [d \in Level |-> IF d = depth[t] + 1 THEN NewFrame(f, irq)
                             ELSE IF d = depth[t] THEN fr ELSE @[d]]]
  BY DEF Push
<1> HIDE DEF NewFrame
<1> QED BY <1>1, <1>2, <1>3, BowknotAssumption DEF TInv, TypeOK, Level

\* And after the top frame of t has been taken off.
LEMMA PopFits ==
    ASSUME TInv, NEW t \in Task, depth[t] > 0,
           NEW fr \in FrameType, depth[t] > 1 => Placed(fr), Pop(t, fr)
    PROVE  /\ depth' \in [Task -> 0..MaxDepth]
           /\ frame' \in [Task -> [Level -> FrameType]]
           /\ \A u \in Task : \A d \in 1..depth'[u] : Placed(frame'[u][d])
<1>1. depth[t] \in Level /\ depth[t] - 1 \in 0..MaxDepth /\ depth \in [Task -> 0..MaxDepth]
  BY BowknotAssumption DEF TInv, TypeOK, Level
<1>2. /\ depth' = [depth EXCEPT ![t] = @ - 1]
      /\ frame' = [frame EXCEPT ![t] =
            [d \in Level |-> IF d = depth[t] THEN NoFrame
                             ELSE IF d = depth[t] - 1 THEN fr ELSE @[d]]]
  BY DEF Pop
<1> QED BY <1>1, <1>2, NoFrameFits, BowknotAssumption DEF TInv, TypeOK, Level

\* A successful acquisition changes a frame's net and null and nothing else.
LEMMA GotFits ==
    ASSUME NEW fr \in FrameType, NEW r \in Res
    PROVE  /\ Got(fr, r) \in FrameType
           /\ Got(fr, r).net = [fr.net EXCEPT ![r] = 1]
           /\ Got(fr, r).null = fr.null \ {r}
           /\ Got(fr, r).fn = fr.fn /\ Got(fr, r).pc = fr.pc /\ Got(fr, r).ph = fr.ph
           /\ Got(fr, r).mask = fr.mask /\ Got(fr, r).todo = fr.todo /\ Got(fr, r).irq = fr.irq
<1>1. [fr.net EXCEPT ![r] = 1] \in [Res -> Int]
  BY DEF FrameType
<1> QED BY <1>1 DEF Got, FrameType

\* A failed acquisition changes a frame's null and nothing else.
LEMMA MissedFits ==
    ASSUME NEW fr \in FrameType, NEW r \in Res
    PROVE  /\ Missed(fr, r) \in FrameType
           /\ Missed(fr, r).net = fr.net
           /\ Missed(fr, r).null = fr.null \cup {r}
           /\ Missed(fr, r).fn = fr.fn /\ Missed(fr, r).pc = fr.pc /\ Missed(fr, r).ph = fr.ph
           /\ Missed(fr, r).mask = fr.mask /\ Missed(fr, r).todo = fr.todo
           /\ Missed(fr, r).irq = fr.irq
BY DEF Missed, FrameType

\* Releasing keeps the account of a frame a function to the integers.
LEMMA ReleasedFits ==
    ASSUME NEW fr \in FrameType, NEW r \in Res
    PROVE  Released(fr, r) \in [Res -> Int]
BY DEF Released, FrameType

\* The frame that runs is well formed and inside its function.
LEMMA TopFits ==
    ASSUME TInv, NEW t \in Task, depth[t] > 0
    PROVE  /\ Top(t) \in FrameType /\ Placed(Top(t))
           /\ Top(t).fn \in Func /\ Top(t).pc \in DOMAIN Body[Top(t).fn]
           /\ depth[t] \in Level
<1>1. depth[t] \in 0..MaxDepth
  BY DEF TInv, TypeOK
<1>2. depth[t] \in Level /\ depth[t] \in 1..depth[t]
  BY <1>1, BowknotAssumption DEF Level
<1> QED BY <1>2 DEF TInv, TypeOK, Top, Placed

\* So is the frame under it, before and after it is resumed.
LEMMA BelowFits ==
    ASSUME TInv, NEW t \in Task, depth[t] > 0
    PROVE  /\ Below(t) \in FrameType
           /\ Resumed(Below(t)) \in FrameType
           /\ depth[t] > 1 => Placed(Below(t)) /\ Placed(Resumed(Below(t)))
<1>1. depth[t] \in Level
  BY TopFits
<1>2. Below(t) \in FrameType /\ (depth[t] > 1 => Placed(Below(t)))
  <2>1. CASE depth[t] = 1
    BY <2>1, NoFrameFits DEF Below
  <2>2. CASE depth[t] # 1
    <3>1. depth[t] - 1 \in Level /\ depth[t] - 1 \in 1..depth[t]
      BY <1>1, <2>2, BowknotAssumption DEF Level
    <3> QED BY <2>2, <3>1 DEF Below, TInv, TypeOK
  <2> QED BY <2>1, <2>2
<1>3. ASSUME NEW fr \in FrameType
      PROVE  Resumed(fr) \in FrameType /\ (Placed(fr) => Placed(Resumed(fr)))
  BY DEF Resumed, FrameType, Phases, Placed, Calling
<1> QED BY <1>2, <1>3

\* Steps that change the top frame of t only.
LEMMA BecomesTyped ==
    ASSUME TInv, NEW t \in Task, NEW fr \in FrameType, depth[t] > 0, Placed(fr),
           Becomes(t, fr), depth' = depth,
           hf' \in [Task -> BOOLEAN], owner' \in [Lock -> Task \cup {NoTask}],
           leak' \in [Task -> SUBSET Res], faults' \in 0..MaxFaults, irqs' \in 0..MaxIrqs
    PROVE  TInv'
BY BecomesFits DEF TInv, TypeOK

\* The owners of the locks stay well typed.
LEMMA OwnerTyped ==
    ASSUME TInv, NEW t \in Task, NEW r
    PROVE  /\ Take(t, r) => owner' \in [Lock -> Task \cup {NoTask}]
           /\ Drop(r) => owner' \in [Lock -> Task \cup {NoTask}]
BY DEF TInv, TypeOK, Take, Drop


\* A kernel in which no task has entered is well formed.
LEMMA InitTyped == Init => TInv
<1> SUFFICES ASSUME Init PROVE TInv
  OBVIOUS
<1>1. depth \in [Task -> 0..MaxDepth] /\ \A t \in Task : 1..depth[t] = {}
  BY BowknotAssumption DEF Init
<1>2. frame \in [Task -> [Level -> FrameType]]
  BY NoFrameFits DEF Init
<1>3. /\ hf \in [Task -> BOOLEAN] /\ owner \in [Lock -> Task \cup {NoTask}]
      /\ leak \in [Task -> SUBSET Res] /\ faults \in 0..MaxFaults /\ irqs \in 0..MaxIrqs
  BY BowknotAssumption DEF Init
<1> QED BY <1>1, <1>2, <1>3 DEF TInv, TypeOK

\* The statements of the driver keep TInv.
LEMMA StatementsTyped ==
    ASSUME TInv, NEW t \in Task,
           \/ Acquire(t) \/ Release(t) \/ Work(t) \/ Branch(t)
           \/ SkipBlock(t) \/ AcquireInCondition(t)
    PROVE  TInv'
<1>1. depth[t] > 0
  BY DEF Acquire, Release, Work, Branch, SkipBlock, AcquireInCondition, Active
<1>2. /\ Top(t) \in FrameType /\ Placed(Top(t))
      /\ Top(t).fn \in Func /\ Top(t).pc \in DOMAIN Body[Top(t).fn]
  BY <1>1, TopFits
<1>3. /\ At(t) \in Stmt
      /\ At(t).op \in {"if", "iferr", "cond", "goto"} => At(t).k \in DOMAIN Body[Top(t).fn]
      /\ At(t).op \in {"if", "iferr", "cond", "goto"} => At(t).k \in Nat
      /\ At(t).op \in {"acq", "rel", "iferr", "cond"} => At(t).r \in Res
  BY <1>2, Statements DEF At
<1>4. UNCHANGED <<hf, owner, leak, faults, irqs>> =>
        /\ hf' \in [Task -> BOOLEAN] /\ owner' \in [Lock -> Task \cup {NoTask}]
        /\ leak' \in [Task -> SUBSET Res] /\ faults' \in 0..MaxFaults /\ irqs' \in 0..MaxIrqs
  BY DEF TInv, TypeOK
<1>5. UNCHANGED <<hf, leak, faults, irqs>> =>
        /\ hf' \in [Task -> BOOLEAN]
        /\ leak' \in [Task -> SUBSET Res] /\ faults' \in 0..MaxFaults /\ irqs' \in 0..MaxIrqs
  BY DEF TInv, TypeOK
<1>6. CASE Acquire(t)
  <2> DEFINE g == Got(Top(t), At(t).r)
             m == Missed(Top(t), At(t).r)
             fr1 == [g EXCEPT !.ph = "check"]
             fr2 == [m EXCEPT !.ph = "check"]
  <2>1. At(t).op = "acq" /\ depth' = depth /\ UNCHANGED <<hf, leak, faults, irqs>>
    BY <1>6 DEF Acquire
  <2>2. fr1 \in FrameType /\ Placed(fr1)
    <3>1. g \in FrameType /\ g.fn = Top(t).fn /\ g.pc = Top(t).pc /\ g.todo = Top(t).todo
      BY <1>2, <1>3, <2>1, GotFits
    <3> HIDE DEF g
    <3> QED BY <1>2, <2>1, <3>1 DEF FrameType, Phases, Placed, Calling, At
  <2>3. fr2 \in FrameType /\ Placed(fr2)
    <3>1. m \in FrameType /\ m.fn = Top(t).fn /\ m.pc = Top(t).pc /\ m.todo = Top(t).todo
      BY <1>2, <1>3, <2>1, MissedFits
    <3> HIDE DEF m
    <3> QED BY <1>2, <2>1, <3>1 DEF FrameType, Phases, Placed, Calling, At
  <2>4. owner' \in [Lock -> Task \cup {NoTask}]
    BY <1>6, OwnerTyped DEF Acquire, TInv, TypeOK
  <2>5. Becomes(t, fr1) \/ Becomes(t, fr2)
    BY <1>6 DEF Acquire
  <2> HIDE DEF fr1, fr2
  <2> QED BY <1>1, <1>5, <2>1, <2>2, <2>3, <2>4, <2>5, BecomesTyped
<1>7. CASE Release(t)
  <2> DEFINE n == Released(Top(t), At(t).r)
             fr == [Top(t) EXCEPT !.net = n, !.ph = "check"]
  <2>1. At(t).op = "rel" /\ depth' = depth /\ UNCHANGED <<hf, leak, faults, irqs>>
    BY <1>7 DEF Release
  <2>2. n \in [Res -> Int]
    BY <1>2, <1>3, <2>1, ReleasedFits
  <2>3. fr \in FrameType /\ Placed(fr)
    <3> HIDE DEF n
    <3> QED BY <1>2, <2>1, <2>2 DEF FrameType, Phases, Placed, Calling, At
  <2>4. owner' \in [Lock -> Task \cup {NoTask}]
    BY <1>7, OwnerTyped DEF Release
  <2>5. Becomes(t, fr)
    BY <1>7 DEF Release
  <2> HIDE DEF fr
  <2> QED BY <1>1, <1>5, <2>1, <2>3, <2>4, <2>5, BecomesTyped
<1>8. CASE Work(t)
  <2> DEFINE fr == [Top(t) EXCEPT !.ph = "check"]
  <2>1. fr \in FrameType /\ Placed(fr)
    BY <1>2, <1>8 DEF Work, FrameType, Phases, Placed, Calling, At
  <2>2. Becomes(t, fr) /\ UNCHANGED <<depth, hf, owner, leak, faults, irqs>>
    BY <1>8 DEF Work
  <2> HIDE DEF fr
  <2> QED BY <1>1, <1>4, <2>1, <2>2, BecomesTyped
<1>9. CASE Branch(t)
  <2> DEFINE fr == [Top(t) EXCEPT !.ph = "then"]
  <2>1. fr \in FrameType /\ Placed(fr)
    BY <1>2, <1>9 DEF Branch, FrameType, Phases, Placed, Calling, At
  <2>2. Becomes(t, fr) /\ UNCHANGED <<depth, hf, owner, leak, faults, irqs>>
    BY <1>9 DEF Branch
  <2> HIDE DEF fr
  <2> QED BY <1>1, <1>4, <2>1, <2>2, BecomesTyped
<1>10. CASE SkipBlock(t)
  <2> DEFINE fr == [Top(t) EXCEPT !.pc = At(t).k]
  <2>1. fr \in FrameType /\ Placed(fr)
    BY <1>2, <1>3, <1>10 DEF SkipBlock, Active, FrameType, Placed
  <2>2. Becomes(t, fr) /\ UNCHANGED <<depth, hf, owner, leak, faults, irqs>>
    BY <1>10 DEF SkipBlock
  <2> HIDE DEF fr
  <2> QED BY <1>1, <1>4, <2>1, <2>2, BecomesTyped
<1>11. CASE AcquireInCondition(t)
  <2> DEFINE g == Got(Top(t), At(t).r)
             m == Missed(Top(t), At(t).r)
             fr1 == [g EXCEPT !.pc = At(t).k]
             fr2 == [m EXCEPT !.ph = "then"]
  <2>1. /\ At(t).op = "cond" /\ Top(t).ph = "run"
        /\ depth' = depth /\ UNCHANGED <<hf, leak, faults, irqs>>
    BY <1>11 DEF AcquireInCondition, Active
  <2>2. fr1 \in FrameType /\ Placed(fr1)
    <3>1. /\ g \in FrameType /\ g.fn = Top(t).fn /\ g.pc = Top(t).pc
          /\ g.todo = Top(t).todo /\ g.ph = "run"
      BY <1>2, <1>3, <2>1, GotFits
    <3> HIDE DEF g
    <3> QED BY <1>2, <1>3, <2>1, <3>1 DEF FrameType, Phases, Placed
  <2>3. fr2 \in FrameType /\ Placed(fr2)
    <3>1. m \in FrameType /\ m.fn = Top(t).fn /\ m.pc = Top(t).pc /\ m.todo = Top(t).todo
      BY <1>2, <1>3, <2>1, MissedFits
    <3> HIDE DEF m
    <3> QED BY <1>2, <2>1, <3>1 DEF FrameType, Phases, Placed, Calling, At
  <2>4. owner' \in [Lock -> Task \cup {NoTask}]
    BY <1>11, OwnerTyped DEF AcquireInCondition, TInv, TypeOK
  <2>5. Becomes(t, fr1) \/ Becomes(t, fr2)
    BY <1>11 DEF AcquireInCondition
  <2> HIDE DEF fr1, fr2
  <2> QED BY <1>1, <1>5, <2>1, <2>2, <2>3, <2>4, <2>5, BecomesTyped
<1> QED BY <1>6, <1>7, <1>8, <1>9, <1>10, <1>11

\* The calls, and the returns that follow them, keep TInv.
LEMMA CallsTyped ==
    ASSUME TInv, NEW t \in Task,
           Enter(t) \/ Interrupt(t) \/ Call(t) \/ Return(t) \/ UndoByCall(t) \/ Leave(t)
             \/ FaultInReturn(t)
    PROVE  TInv'
<1>0. SUFFICES /\ /\ depth' \in [Task -> 0..MaxDepth]
                  /\ frame' \in [Task -> [Level -> FrameType]]
                  /\ \A u \in Task : \A d \in 1..depth'[u] : Placed(frame'[u][d])
               /\ hf' \in [Task -> BOOLEAN]
               /\ owner' \in [Lock -> Task \cup {NoTask}]
               /\ leak' \in [Task -> SUBSET Res]
               /\ faults' \in 0..MaxFaults
               /\ irqs' \in 0..MaxIrqs
  BY DEF TInv, TypeOK
<1>1. /\ hf' \in [Task -> BOOLEAN]
      /\ owner' \in [Lock -> Task \cup {NoTask}]
      /\ leak' \in [Task -> SUBSET Res]
      /\ faults' \in 0..MaxFaults
      /\ irqs' \in 0..MaxIrqs
  <2>1. hf' = hf \/ (\E b \in BOOLEAN : hf' = [hf EXCEPT ![t] = b])
    BY DEF Enter, Interrupt, Call, Return, UndoByCall, Leave, FaultInReturn
  <2>2. leak' = leak \/ (\E s \in SUBSET Res : leak' = [leak EXCEPT ![t] = s])
    <3>1. \A s \in SUBSET Res, q \in SUBSET Res : s \cup q \in SUBSET Res
      OBVIOUS
    <3>2. leak[t] \in SUBSET Res /\ {r \in Res : Top(t).net[r] # 0} \in SUBSET Res
      BY DEF TInv, TypeOK
    <3> QED BY <3>1, <3>2 DEF Enter, Interrupt, Call, Return, UndoByCall, Leave, FaultInReturn
  <2>3. faults' = faults \/ (faults < MaxFaults /\ faults' = faults + 1)
    BY DEF Enter, Interrupt, Call, Return, UndoByCall, Leave, FaultInReturn
  <2>4. irqs' = irqs \/ (irqs < MaxIrqs /\ irqs' = irqs + 1)
    BY DEF Enter, Interrupt, Call, Return, UndoByCall, Leave, FaultInReturn
  <2>5. owner' = owner
    BY DEF Enter, Interrupt, Call, Return, UndoByCall, Leave, FaultInReturn
  <2>6. hf' \in [Task -> BOOLEAN]
    BY <2>1 DEF TInv, TypeOK
  <2>7. leak' \in [Task -> SUBSET Res]
    BY <2>2 DEF TInv, TypeOK
  <2>8. faults' \in 0..MaxFaults
    BY <2>3, BowknotAssumption DEF TInv, TypeOK
  <2>9. irqs' \in 0..MaxIrqs
    BY <2>4, BowknotAssumption DEF TInv, TypeOK
  <2> QED BY <2>5, <2>6, <2>7, <2>8, <2>9 DEF TInv, TypeOK
<1>2. CASE Enter(t)
  <2>1. PICK f \in Entry : depth[t] = 0 /\ Push(t, NoFrame, f, FALSE)
    BY <1>2 DEF Enter
  <2>2. f \in Func /\ ~(depth[t] > 0) /\ FALSE \in BOOLEAN
    BY <2>1, BowknotAssumption
  <2> QED BY <1>1, <2>1, <2>2, PushFits, NoFrameFits
<1>3. CASE Interrupt(t)
  <2> DEFINE fr == IF depth[t] = 0 THEN NoFrame ELSE Top(t)
  <2>1. fr \in FrameType /\ (depth[t] > 0 => Placed(fr))
    BY NoFrameFits, TopFits DEF TInv, TypeOK
  <2>2. PICK f \in IrqEntry : Push(t, fr, f, TRUE)
    BY <1>3 DEF Interrupt
  <2>3. f \in Func
    BY BowknotAssumption
  <2> HIDE DEF fr
  <2> QED BY <1>1, <2>1, <2>2, <2>3, PushFits
<1>4. CASE Call(t)
  <2> DEFINE fr == [Top(t) EXCEPT !.ph = "call"]
  <2>1. depth[t] > 0 /\ At(t).op \in {"acq", "rel", "work"} /\ At(t).f # NoFunc
    BY <1>4 DEF Call, Active
  <2>2. /\ Top(t) \in FrameType /\ Placed(Top(t))
        /\ At(t).f \in Func
    BY <2>1, TopFits, Statements DEF At
  <2>3. fr \in FrameType /\ Placed(fr)
    BY <2>1, <2>2 DEF FrameType, Phases, Placed, Calling, At
  <2>4. Push(t, fr, At(t).f, Top(t).irq) /\ Top(t).irq \in BOOLEAN
    BY <1>4, <2>2 DEF Call, FrameType
  <2> HIDE DEF fr
  <2> QED BY <1>1, <2>2, <2>3, <2>4, PushFits
<1>5. CASE Return(t)
  <2>1. depth[t] > 0
    BY <1>5 DEF Return, Active
  <2> DEFINE fr == Below(t)
             err == At(t).k = 1
             net == Plus(fr.net, Top(t).net)
             null == Outcome(fr, err)
             back == [Resumed(fr) EXCEPT !.net = net, !.null = null]
  <2>2. /\ fr \in FrameType /\ Resumed(fr) \in FrameType
        /\ depth[t] > 1 => Placed(fr) /\ Placed(Resumed(fr))
    BY <2>1, BelowFits
  <2>3. CASE fr.ph \in {"call", "ucall"}
    <3>1. Pop(t, back)
      BY <1>5, <2>3 DEF Return
    <3>2. net \in [Res -> Int]
      BY <2>1, <2>2, TopFits DEF Plus, FrameType
    <3>3. null \subseteq Res
      <4>1. Placed(fr)
        BY <2>1, <2>2, <2>3 DEF Below, NoFrame, TInv, TypeOK
      <4>2. Calling(fr).op = "acq" => Calling(fr).r \in Res
        BY <4>1, Statements DEF Placed, Calling
      <4>3. fr.null \subseteq Res /\ (err \/ ~err)
        BY <2>2 DEF FrameType
      <4> HIDE DEF err, fr
      <4> QED BY <4>2, <4>3 DEF Outcome
    <3>4. back \in FrameType /\ (depth[t] > 1 => Placed(back))
      <4> HIDE DEF net, null, fr
      <4> QED BY <2>2, <3>2, <3>3 DEF FrameType, Placed, Calling
    <3> HIDE DEF back
    <3> QED BY <1>1, <2>1, <3>1, <3>4, PopFits
  <2>4. CASE fr.ph \notin {"call", "ucall"}
    <3>1. Pop(t, fr)
      BY <1>5, <2>4 DEF Return
    <3> HIDE DEF fr
    <3> QED BY <1>1, <2>1, <2>2, <3>1, PopFits
  <2> QED BY <2>3, <2>4
<1>6. CASE UndoByCall(t)
  <2>1. PICK r \in Res :
           /\ Undoes(t, r)
           /\ Callee(Top(t).fn, r) # NoFunc
           /\ Push(t, [Top(t) EXCEPT !.ph = "ucall", !.pc = First[Top(t).fn][r],
                                     !.todo = @ \ {r}],
                   Callee(Top(t).fn, r), Top(t).irq)
    BY <1>6 DEF UndoByCall
  <2> DEFINE fr == [Top(t) EXCEPT !.ph = "ucall", !.pc = First[Top(t).fn][r], !.todo = @ \ {r}]
  <2>2. depth[t] > 0 /\ r \in Top(t).todo
    BY <2>1 DEF Undoes, Active, IsNext
  <2>3. Top(t) \in FrameType /\ Placed(Top(t))
    BY <2>2, TopFits
  <2>4. r \in Undo[Top(t).fn] /\ Top(t).fn \in Func
    BY <2>2, <2>3 DEF Placed
  <2>5. /\ First[Top(t).fn][r] \in DOMAIN Body[Top(t).fn]
        /\ IsUndo(Top(t).fn, First[Top(t).fn][r], r)
    BY <2>4, FirstIsUndo
  <2>6. First[Top(t).fn][r] \in Nat /\ Callee(Top(t).fn, r) \in Func
    BY <2>1, <2>4, <2>5, Statements DEF Callee
  <2>7. fr \in FrameType /\ Placed(fr)
    BY <2>3, <2>5, <2>6 DEF FrameType, Phases, Placed, Calling, IsUndo
  <2>8. Top(t).irq \in BOOLEAN
    BY <2>3 DEF FrameType
  <2>9. Push(t, fr, Callee(Top(t).fn, r), Top(t).irq)
    BY <2>1
  <2> HIDE DEF fr
  <2> QED BY <1>1, <2>6, <2>7, <2>8, <2>9, PushFits
<1>7. CASE Leave(t) \/ FaultInReturn(t)
  <2>1. depth[t] > 0 /\ Pop(t, Resumed(Below(t)))
    BY <1>7 DEF Leave, FaultInReturn, Active
  <2> QED BY <1>1, <2>1, BelowFits, PopFits
<1> QED BY <1>2, <1>3, <1>4, <1>5, <1>6, <1>7

\* A stamp leaves a mask a mask.
LEMMA StampFits ==
    ASSUME NEW f \in Func, NEW p, NEW mask \in SUBSET (1..Width)
    PROVE  /\ StampAfter(f, p, mask) \in SUBSET (1..Width)
           /\ StampInThen(f, p, mask) \in SUBSET (1..Width)
<1>1. ASSUME NEW id
      PROVE  /\ hecaton_set_bit(mask, id) \in SUBSET (1..Width)
             /\ hecaton_unset_bit(mask, id) \in SUBSET (1..Width)
  BY DEF hecaton_set_bit, hecaton_unset_bit
<1> QED BY <1>1 DEF StampAfter, StampInThen

\* The steps of the inserted text, and the faults, keep TInv.
LEMMA InsertedTyped ==
    ASSUME TInv, NEW t \in Task,
           \/ Pass(t) \/ PassBrace(t) \/ Cleanup(t) \/ CleanupOfClosing(t) \/ UndoOne(t)
           \/ Fault(t) \/ FaultInCondition(t) \/ UndoFault(t)
    PROVE  TInv'
<1>1. depth[t] > 0 /\ depth' = depth
  BY DEF Pass, PassBrace, Cleanup, CleanupOfClosing, UndoOne, Fault, FaultInCondition,
     UndoFault, Undoes, Active
<1>2. /\ Top(t) \in FrameType /\ Placed(Top(t))
      /\ Top(t).fn \in Func /\ Top(t).pc \in DOMAIN Body[Top(t).fn]
  BY <1>1, TopFits
<1>3. /\ At(t).op \notin {"goto", "ret"} => Top(t).pc + 1 \in DOMAIN Body[Top(t).fn]
      /\ Top(t).pc \in Nat
      /\ At(t).op \in {"if", "iferr", "cond", "goto"} => At(t).k \in DOMAIN Body[Top(t).fn]
      /\ At(t).op \in {"if", "iferr", "cond", "goto"} => At(t).k \in Nat
  BY <1>2, Statements DEF At
<1>4. /\ owner' \in [Lock -> Task \cup {NoTask}] /\ leak' \in [Task -> SUBSET Res]
      /\ irqs' \in 0..MaxIrqs
  <2>1. owner' = owner \/ \E r \in Res : Drop(r)
    BY DEF Pass, PassBrace, Cleanup, CleanupOfClosing, UndoOne, Fault, FaultInCondition, UndoFault
  <2>2. leak' = leak /\ irqs' = irqs
    BY DEF Pass, PassBrace, Cleanup, CleanupOfClosing, UndoOne, Fault, FaultInCondition, UndoFault
  <2> QED BY <2>1, <2>2, OwnerTyped DEF TInv, TypeOK
<1>5. hf' \in [Task -> BOOLEAN] /\ faults' \in 0..MaxFaults
  <2>1. hf' = hf \/ (\E b \in BOOLEAN : hf' = [hf EXCEPT ![t] = b])
    BY DEF Pass, PassBrace, Cleanup, CleanupOfClosing, UndoOne, Fault, FaultInCondition, UndoFault
  <2>2. faults' = faults \/ (faults < MaxFaults /\ faults' = faults + 1)
    BY DEF Pass, PassBrace, Cleanup, CleanupOfClosing, UndoOne, Fault, FaultInCondition, UndoFault
  <2>3. hf' \in [Task -> BOOLEAN]
    BY <2>1 DEF TInv, TypeOK
  <2>4. faults' \in 0..MaxFaults
    BY <2>2, BowknotAssumption DEF TInv, TypeOK
  <2> QED BY <2>3, <2>4
<1>6. SUFFICES \E fr \in FrameType : Placed(fr) /\ Becomes(t, fr)
  BY <1>1, <1>4, <1>5, BecomesTyped
<1>7. CASE Pass(t) \/ PassBrace(t)
  <2> DEFINE m1 == StampAfter(Top(t).fn, Top(t).pc, Top(t).mask)
             m2 == StampInThen(Top(t).fn, Top(t).pc, Top(t).mask)
             fr1 == [Top(t) EXCEPT !.mask = m1, !.pc = @ + 1, !.ph = "run"]
             fr2 == [Top(t) EXCEPT !.mask = m2, !.pc = @ + 1, !.ph = "run"]
  <2>1. m1 \in SUBSET (1..Width) /\ m2 \in SUBSET (1..Width)
    BY <1>2, StampFits DEF FrameType
  <2>2. At(t).op \notin {"goto", "ret"}
    BY <1>2, <1>7 DEF Pass, PassBrace, Active, Placed, Calling, At
  <2>3. ASSUME NEW m \in SUBSET (1..Width)
        PROVE  /\ [Top(t) EXCEPT !.mask = m, !.pc = @ + 1, !.ph = "run"] \in FrameType
               /\ Placed([Top(t) EXCEPT !.mask = m, !.pc = @ + 1, !.ph = "run"])
    <3> DEFINE fr == [Top(t) EXCEPT !.mask = m, !.pc = @ + 1, !.ph = "run"]
    <3>0. Top(t).pc + 1 \in Nat /\ "run" \in Phases
      BY <1>3 DEF Phases
    <3>1. fr \in FrameType
      BY <1>2, <3>0 DEF FrameType
    <3>2. /\ fr.fn = Top(t).fn /\ fr.pc = Top(t).pc + 1 /\ fr.ph = "run"
          /\ fr.todo = Top(t).todo
      BY <1>2 DEF FrameType
    <3> HIDE DEF fr
    <3>3. Placed(fr)
      BY <1>2, <1>3, <2>2, <3>2 DEF Placed
    <3> QED BY <3>1, <3>3 DEF fr
  <2>4. Becomes(t, fr1) \/ Becomes(t, fr2)
    BY <1>7 DEF Pass, PassBrace
  <2> QED BY <2>1, <2>3, <2>4
<1>8. CASE Cleanup(t)
  <2> DEFINE fr == [Top(t) EXCEPT !.ph = "undo", !.todo = Marked(Top(t))]
  <2>1. Marked(Top(t)) \subseteq Undo[Top(t).fn] /\ Undo[Top(t).fn] \subseteq Res
    BY <1>2 DEF Marked, Undo
  <2>2. fr \in FrameType /\ Placed(fr)
    <3> HIDE DEF Marked
    <3> QED BY <1>2, <2>1 DEF FrameType, Phases, Placed
  <2>3. Becomes(t, fr)
    BY <1>8 DEF Cleanup
  <2> QED BY <2>2, <2>3
<1>9. CASE CleanupOfClosing(t)
  <2> DEFINE fr == [Top(t) EXCEPT !.ph = "dying"]
  <2>1. fr \in FrameType /\ Placed(fr)
    BY <1>2 DEF FrameType, Phases, Placed
  <2>2. Becomes(t, fr)
    BY <1>9 DEF CleanupOfClosing
  <2> QED BY <2>1, <2>2
<1>10. CASE UndoOne(t) \/ UndoFault(t)
  <2>1. PICK r \in Res :
           \/ Becomes(t, [Top(t) EXCEPT !.net = Released(Top(t), r), !.todo = @ \ {r}])
           \/ Becomes(t, [Top(t) EXCEPT !.todo = @ \ {r}])
    BY <1>10 DEF UndoOne, UndoFault
  <2>2. Top(t).ph = "undo"
    BY <1>10 DEF UndoOne, UndoFault, Undoes, Active
  <2> DEFINE n == Released(Top(t), r)
             fr1 == [Top(t) EXCEPT !.net = n, !.todo = @ \ {r}]
             fr2 == [Top(t) EXCEPT !.todo = @ \ {r}]
  <2>3. n \in [Res -> Int]
    BY <1>2, ReleasedFits
  <2>4. fr1 \in FrameType /\ Placed(fr1)
    <3> HIDE DEF n
    <3> QED BY <1>2, <2>2, <2>3 DEF FrameType, Placed
  <2>5. fr2 \in FrameType /\ Placed(fr2)
    BY <1>2, <2>2 DEF FrameType, Placed
  <2> QED BY <2>1, <2>4, <2>5
<1>11. CASE Fault(t)
  <2> DEFINE fr == [Top(t) EXCEPT !.ph = "check"]
  <2>1. At(t).op \in {"acq", "rel", "work"} /\ Becomes(t, fr)
    BY <1>11 DEF Fault
  <2>2. fr \in FrameType /\ Placed(fr)
    BY <1>2, <2>1 DEF FrameType, Phases, Placed, Calling, At
  <2> QED BY <2>1, <2>2
<1>12. CASE FaultInCondition(t)
  <2> DEFINE fr1 == [Top(t) EXCEPT !.ph = "then"]
             fr2 == [Top(t) EXCEPT !.pc = At(t).k]
  <2>1. /\ At(t).op \in {"if", "iferr", "cond"} /\ Top(t).ph = "run"
        /\ Becomes(t, fr1) \/ Becomes(t, fr2)
    BY <1>12 DEF FaultInCondition, Active
  <2>2. fr1 \in FrameType /\ Placed(fr1)
    BY <1>2, <2>1 DEF FrameType, Phases, Placed, Calling, At
  <2>3. fr2 \in FrameType /\ Placed(fr2)
    BY <1>2, <1>3, <2>1 DEF FrameType, Placed
  <2> QED BY <2>1, <2>2, <2>3
<1> QED BY <1>7, <1>8, <1>9, <1>10, <1>11, <1>12

\* kernel_restart keeps TInv.
LEMMA RestartTyped ==
    ASSUME TInv, NEW t \in Task, Restart(t)
    PROVE  TInv'
<1>1. depth' \in [Task -> 0..MaxDepth] /\ \A u \in Task : 1..depth'[u] = {}
  BY BowknotAssumption DEF Restart
<1>2. frame' \in [Task -> [Level -> FrameType]]
  BY NoFrameFits DEF Restart
<1>3. /\ hf' \in [Task -> BOOLEAN] /\ owner' \in [Lock -> Task \cup {NoTask}]
      /\ leak' \in [Task -> SUBSET Res] /\ faults' \in 0..MaxFaults /\ irqs' \in 0..MaxIrqs
  BY DEF Restart, TInv, TypeOK
<1> QED BY <1>1, <1>2, <1>3 DEF TInv, TypeOK

\* Every step keeps TInv.
LEMMA StepTyped == TInv /\ [Next]_vars => TInv'
<1> SUFFICES ASSUME TInv, [Next]_vars PROVE TInv'
  OBVIOUS
<1>1. CASE UNCHANGED vars
  <2>1. /\ depth' = depth /\ frame' = frame /\ hf' = hf /\ owner' = owner
        /\ leak' = leak /\ faults' = faults /\ irqs' = irqs
    BY <1>1 DEF vars
  <2>2. TypeOK'
    BY <2>1 DEF TInv, TypeOK
  <2>3. \A t \in Task : \A d \in 1..depth'[t] : Placed(frame'[t][d])
    BY <2>1 DEF TInv
  <2> QED BY <2>2, <2>3 DEF TInv
<1>2. CASE Next
  <2>1. PICK t \in Task : Enter(t) \/ Step(t) \/ Surprise(t)
    BY <1>2 DEF Next
  <2> QED BY <2>1, StatementsTyped, CallsTyped, InsertedTyped, RestartTyped DEF Step, Surprise
<1> QED BY <1>1, <1>2

\* The type invariant: whatever the program, its faults and its interrupts,
\* the frames of the instrumented kernel stay well formed.
THEOREM TypeCorrect == Spec => []TypeOK
<1>1. TInv => TypeOK
  BY DEF TInv
<1> QED BY <1>1, InitTyped, StepTyped, PTL DEF Spec

\* And every frame stays inside the text of its function.
THEOREM PlacedCorrect == Spec => []TInv
BY InitTyped, StepTyped, PTL DEF Spec

-----------------------------------------------------------------------------
(* The mask mirrors the holdings: one frame. *)

\* A pairmask_id is a positive number: the first undo has bit 1.
LEMMA IdsAreNumbers ==
    ASSUME NEW f \in Func, NEW r \in Undo[f]
    PROVE  pairmask_id[f][r] \in Nat \ {0}
<1> DEFINE S == {s \in Undo[f] : NumberedBefore(f, s, r)}
<1>1. Undo[f] \in SUBSET Res
  BY DEF Undo
<1>2. IsFiniteSet(S)
  BY <1>1, FS_Subset, InstrumentAssumption
<1>3. Cardinality(S) \in Nat
  BY <1>2, FS_CardinalityType
<1>4. pairmask_id[f][r] = Cardinality(S) + 1
  BY DEF pairmask_id
<1> QED BY <1>3, <1>4

\* What each kind of statement's stamp does to the bit of every undo.
LEMMA StampChecks ==
    ASSUME NEW f \in Func, NEW p \in DOMAIN Body[f], NEW mask, NEW s \in Undo[f]
    PROVE  LET new == hecaton_check_bit(StampAfter(f, p, mask), pairmask_id[f][s])
               old == hecaton_check_bit(mask, pairmask_id[f][s])
           IN  /\ Body[f][p].op = "acq" =>
                    (new <=> old \/ (s = Body[f][p].r /\ Fits(f, s)))
               /\ Body[f][p].op = "rel" =>
                    (new <=> old /\ ~(s = Body[f][p].r /\ s \in Outer))
               /\ Body[f][p].op \notin {"acq", "rel"} => (new <=> old)
<1> DEFINE r == Body[f][p].r
<1>1. \A x \in Undo[f] : pairmask_id[f][x] \in Nat \ {0}
  BY IdsAreNumbers
<1>2. r \in Undo[f] /\ r # s => pairmask_id[f][r] # pairmask_id[f][s]
  BY DistinctIds
<1>3. CASE Body[f][p].op = "acq"
  <2>1. CASE r \in Undo[f]
    <3>1. StampAfter(f, p, mask) = mask \cup ({pairmask_id[f][r]} \cap 1..Width)
      BY <1>3, <2>1 DEF StampAfter, hecaton_set_bit
    <3> QED BY <1>1, <1>2, <1>3, <2>1, <3>1, InstrumentAssumption DEF hecaton_check_bit, Fits
  <2>2. CASE r \notin Undo[f]
    BY <1>3, <2>2 DEF StampAfter
  <2> QED BY <2>1, <2>2
<1>4. CASE Body[f][p].op = "rel"
  <2>1. CASE r \in Undo[f] \cap Outer
    <3>1. StampAfter(f, p, mask) = mask \ {pairmask_id[f][r]}
      BY <1>4, <2>1 DEF StampAfter, hecaton_unset_bit
    <3> QED BY <1>1, <1>2, <1>4, <2>1, <3>1 DEF hecaton_check_bit
  <2>2. CASE r \notin Undo[f] \cap Outer
    BY <1>4, <2>2 DEF StampAfter
  <2> QED BY <2>1, <2>2
<1>5. CASE Body[f][p].op \notin {"acq", "rel"}
  BY <1>5 DEF StampAfter
<1> QED BY <1>3, <1>4, <1>5

\* An acquisition, successful or not, followed by its stamp keeps mask and
\* account in step.  fr is the frame before the statement, new after it.
LEMMA AcquireMirrors ==
    ASSUME NEW fr \in FrameType, Placed(fr), Mirrors(fr, fr.mask),
           NEW new \in FrameType, new.fn = fr.fn,
           NEW p \in DOMAIN Body[fr.fn], Body[fr.fn][p].op = "acq",
           NEW r \in Res, r = Body[fr.fn][p].r,
           \/ new.net = [fr.net EXCEPT ![r] = 1] /\ new.null = fr.null \ {r}
           \/ /\ new.net = fr.net /\ fr.net[r] # 1
              /\ new.null = fr.null \cup {r} /\ r \in Tolerant
    PROVE  Mirrors(new, StampAfter(fr.fn, p, fr.mask))
<1> DEFINE m == StampAfter(fr.fn, p, fr.mask)
<1>1. fr.fn \in Func
  BY DEF Placed
<1>2. SUFFICES ASSUME NEW s \in Undo[fr.fn]
               PROVE  LET c == hecaton_check_bit(m, pairmask_id[fr.fn][s]) IN
                      /\ new.net[s] = 1 /\ Fits(fr.fn, s) => c
                      /\ s \in Outer /\ c => Undoable(new, s)
  BY DEF Mirrors
<1>3. LET c == hecaton_check_bit(m, pairmask_id[fr.fn][s])
          o == hecaton_check_bit(fr.mask, pairmask_id[fr.fn][s])
      IN  /\ c <=> o \/ (s = r /\ Fits(fr.fn, s))
          /\ fr.net[s] = 1 /\ Fits(fr.fn, s) => o
          /\ s \in Outer /\ o => Undoable(fr, s)
  BY <1>1, StampChecks DEF Mirrors
<1>4. s \in Res
  BY <1>1 DEF Undo
<1>5. fr.net \in [Res -> Int]
  BY DEF FrameType
<1> HIDE DEF m
<1>6. CASE s = r
  <2>1. Undoable(new, s)
    BY <1>4, <1>5, <1>6 DEF Undoable
  <2>2. new.net[s] = 1 /\ Fits(fr.fn, s) => hecaton_check_bit(m, pairmask_id[fr.fn][s])
    BY <1>3, <1>6
  <2> QED BY <2>1, <2>2
<1>7. CASE s # r
  <2>1. new.net[s] = fr.net[s] /\ (s \in new.null <=> s \in fr.null)
    BY <1>4, <1>5, <1>7
  <2> QED BY <1>3, <1>7, <2>1 DEF Undoable
<1> QED BY <1>6, <1>7

\* A release, followed by its stamp, keeps mask and account in step.
LEMMA ReleaseMirrors ==
    ASSUME NEW fr \in FrameType, Placed(fr), Mirrors(fr, fr.mask),
           NEW new \in FrameType, new.fn = fr.fn,
           NEW p \in DOMAIN Body[fr.fn], Body[fr.fn][p].op = "rel",
           NEW r \in Res, r = Body[fr.fn][p].r,
           new.null = fr.null, fr.net[r] <= 1,
           \/ new.net = [fr.net EXCEPT ![r] = @ - 1]
           \/ new.net = fr.net /\ fr.net[r] # 1
    PROVE  Mirrors(new, StampAfter(fr.fn, p, fr.mask))
<1> DEFINE m == StampAfter(fr.fn, p, fr.mask)
<1>1. fr.fn \in Func
  BY DEF Placed
<1>2. SUFFICES ASSUME NEW s \in Undo[fr.fn]
               PROVE  LET c == hecaton_check_bit(m, pairmask_id[fr.fn][s]) IN
                      /\ new.net[s] = 1 /\ Fits(fr.fn, s) => c
                      /\ s \in Outer /\ c => Undoable(new, s)
  BY DEF Mirrors
<1>3. LET c == hecaton_check_bit(m, pairmask_id[fr.fn][s])
          o == hecaton_check_bit(fr.mask, pairmask_id[fr.fn][s])
      IN  /\ c <=> o /\ ~(s = r /\ s \in Outer)
          /\ fr.net[s] = 1 /\ Fits(fr.fn, s) => o
          /\ s \in Outer /\ o => Undoable(fr, s)
  BY <1>1, StampChecks DEF Mirrors
<1>4. s \in Res
  BY <1>1 DEF Undo
<1>5. fr.net \in [Res -> Int]
  BY DEF FrameType
<1> HIDE DEF m
<1>6. CASE s = r
  <2>1. new.net[s] # 1
    BY <1>4, <1>5, <1>6
  <2> QED BY <1>3, <1>6, <2>1
<1>7. CASE s # r
  <2>1. new.net[s] = fr.net[s] /\ (s \in new.null <=> s \in fr.null)
    BY <1>4, <1>5, <1>7
  <2> QED BY <1>3, <1>7, <2>1 DEF Undoable
<1> QED BY <1>6, <1>7

\* So does a statement that touches no resource.
LEMMA WorkMirrors ==
    ASSUME NEW fr \in FrameType, Placed(fr), Mirrors(fr, fr.mask),
           NEW new \in FrameType, new.fn = fr.fn, new.net = fr.net, new.null = fr.null,
           NEW p \in DOMAIN Body[fr.fn], Body[fr.fn][p].op \notin {"acq", "rel"}
    PROVE  Mirrors(new, StampAfter(fr.fn, p, fr.mask))
<1>1. StampAfter(fr.fn, p, fr.mask) = fr.mask
  BY DEF StampAfter
<1> QED BY <1>1 DEF Mirrors, Undoable

\* A frame that is not running does not depend on hf.
LEMMA WaitingOK ==
    ASSUME NEW fr, NEW h, NEW g, fr.irq \/ fr.ph \in {"call", "ucall"}, FrameOK(fr, h)
    PROVE  FrameOK(fr, g)
<1>1. fr.irq => Settled(fr, h) = Settled(fr, g)
  BY DEF Settled
<1>2. fr.irq => fr.ph \in {"run", "check", "then", "call"}
  BY DEF FrameOK
<1> QED BY <1>1, <1>2 DEF FrameOK

-----------------------------------------------------------------------------
(* The mask mirrors the holdings: the stacks. *)

\* A frame under the top one is as IInv says, also when hf changes under it.
LEMMA LowerOK ==
    ASSUME IInv, NEW t \in Task, NEW d \in 1..depth[t], d # depth[t],
           NEW h \in BOOLEAN, h = hf[t] \/ ~Top(t).irq
    PROVE  FrameOK(frame[t][d], h)
<1>0. depth[t] \in 0..MaxDepth /\ MaxDepth \in Nat
  BY BowknotAssumption DEF IInv, TInv, TypeOK
<1>1. depth[t] \in Nat /\ d + 1 \in 1..depth[t] /\ depth[t] \in 1..depth[t]
  BY <1>0
<1>2. FrameOK(frame[t][d], hf[t])
  BY DEF IInv
<1>3. CASE ~Top(t).irq
  <2>1. ~frame[t][d].irq /\ ~frame[t][d + 1].irq
    BY <1>1, <1>3 DEF IInv, Top
  <2>2. frame[t][d].ph \in {"call", "ucall"}
    BY <2>1 DEF IInv, Linked, Stacked
  <2> QED BY <1>2, <2>2, WaitingOK
<1> QED BY <1>2, <1>3

\* The second half of IInv.
Stacks ==
    /\ \A t \in Task : \A d, e \in 1..depth[t] : d <= e /\ frame[t][d].irq => frame[t][e].irq
    /\ \A t \in Task : \A d \in 1..depth[t] : FrameOK(frame[t][d], hf[t]) /\ Linked(t, d)

\* The other tasks' stacks stand still.
LEMMA OthersOK ==
    ASSUME IInv, NEW t \in Task, NEW u \in Task, u # t,
           depth'[u] = depth[u], frame'[u] = frame[u], hf'[u] = hf[u]
    PROVE  /\ \A d, e \in 1..depth'[u] : d <= e /\ frame'[u][d].irq => frame'[u][e].irq
           /\ \A d \in 1..depth'[u] : FrameOK(frame'[u][d], hf'[u]) /\ Linked(u, d)'
BY DEF IInv, Linked, Stacked

\* A step that changes the top frame of t.
LEMMA BecomesOK ==
    ASSUME IInv, TInv', NEW t \in Task, depth[t] > 0, depth' = depth,
           NEW fr, Becomes(t, fr), fr.irq = Top(t).irq, fr.fn = Top(t).fn,
           fr.ph \notin {"call", "ucall"}, FrameOK(fr, hf'[t]),
           hf'[t] = hf[t] \/ ~Top(t).irq, \A u \in Task \ {t} : hf'[u] = hf[u]
    PROVE  Stacks'
<1>0. depth[t] \in Level /\ depth[t] \in 1..depth[t] /\ depth \in [Task -> 0..MaxDepth]
  BY TopFits DEF IInv, TInv, TypeOK, Level
<1>1. /\ frame' = [frame EXCEPT ![t][depth[t]] = fr]
      /\ frame \in [Task -> [Level -> FrameType]]
  BY DEF Becomes, IInv, TInv, TypeOK
<1>2. /\ \A d \in Level : frame'[t][d] = IF d = depth[t] THEN fr ELSE frame[t][d]
      /\ \A u \in Task : u # t => frame'[u] = frame[u]
  BY <1>0, <1>1
<1>3. 1..depth[t] \subseteq Level
  BY <1>0, BowknotAssumption DEF Level
<1>4. hf'[t] \in BOOLEAN
  BY DEF TInv, TypeOK
<1>5. ASSUME NEW d \in 1..depth[t], NEW e \in 1..depth[t], d <= e, frame'[t][d].irq
      PROVE  frame'[t][e].irq
  BY <1>2, <1>3, <1>5 DEF IInv, Top
<1>6. ASSUME NEW d \in 1..depth[t]
      PROVE  FrameOK(frame'[t][d], hf'[t])
  BY <1>2, <1>3, <1>4, LowerOK
<1>7. ASSUME NEW d \in 1..depth[t]
      PROVE  Linked(t, d)'
  <2>1. CASE d = depth[t]
    BY <1>2, <1>3, <2>1 DEF Linked, Stacked
  <2>2. CASE d # depth[t]
    <3>1. d + 1 \in 1..depth[t] /\ Linked(t, d)
      BY <1>0, <2>2 DEF IInv, Level
    <3>2. frame'[t][d] = frame[t][d]
      BY <1>2, <1>3, <2>2
    <3>3. frame'[t][d + 1].irq = frame[t][d + 1].irq /\ frame'[t][d + 1].fn = frame[t][d + 1].fn
      BY <1>2, <1>3, <3>1 DEF Top
    <3> QED BY <2>2, <3>1, <3>2, <3>3 DEF Linked, Stacked
  <2> QED BY <2>1, <2>2
<1>8. ASSUME NEW u \in Task, u # t
      PROVE  /\ \A d, e \in 1..depth'[u] : d <= e /\ frame'[u][d].irq => frame'[u][e].irq
             /\ \A d \in 1..depth'[u] : FrameOK(frame'[u][d], hf'[u]) /\ Linked(u, d)'
  BY <1>2, <1>8, OthersOK
<1> QED BY <1>5, <1>6, <1>7, <1>8 DEF Stacks

\* A step that puts a frame on the stack of t.
LEMMA PushOK ==
    ASSUME IInv, TInv', NEW t \in Task, NEW fr, NEW f \in Func, NEW irq \in BOOLEAN,
           Push(t, fr, f, irq),
           depth[t] > 0 =>
              /\ fr.irq = Top(t).irq /\ fr.fn = Top(t).fn
              /\ FrameOK(fr, hf'[t])
              /\ fr.irq => irq
              /\ fr.ph \in {"call", "ucall"} <=> (fr.irq <=> irq)
              /\ fr.ph = "ucall" => f \in Closing,
           irq \/ ~hf'[t],
           hf'[t] = hf[t] \/ ~Top(t).irq \/ depth[t] = 0, \A u \in Task \ {t} : hf'[u] = hf[u]
    PROVE  Stacks'
<1> DEFINE new == NewFrame(f, irq)
<1>0. /\ depth[t] \in 0..MaxDepth /\ depth[t] + 1 \in Level
      /\ depth \in [Task -> 0..MaxDepth] /\ MaxDepth \in Nat
  BY BowknotAssumption DEF IInv, TInv, TypeOK, Level, Push
<1>1. /\ depth' = [depth EXCEPT ![t] = @ + 1]
      /\ frame' = [frame EXCEPT ![t] =
            [d \in Level |-> IF d = depth[t] + 1 THEN new
                             ELSE IF d = depth[t] THEN fr ELSE @[d]]]
      /\ frame \in [Task -> [Level -> FrameType]]
  BY DEF Push, IInv, TInv, TypeOK
<1>2. /\ new.irq = irq /\ new.ph = "run" /\ new.mask = {} /\ new.null = {}
      /\ new.fn = f /\ new.net = Zero
  BY DEF NewFrame, NoFrame
<1> HIDE DEF new
<1>3. /\ \A d \in Level : frame'[t][d] = IF d = depth[t] + 1 THEN new
                                         ELSE IF d = depth[t] THEN fr ELSE frame[t][d]
      /\ \A u \in Task : u # t => frame'[u] = frame[u] /\ depth'[u] = depth[u]
      /\ depth'[t] = depth[t] + 1
  BY <1>0, <1>1
<1>4. 1..depth'[t] \subseteq Level /\ hf'[t] \in BOOLEAN
  BY <1>0, <1>3 DEF Level, TInv, TypeOK
<1>5. FrameOK(new, hf'[t])
  <2>1. \A r \in Res : new.net[r] = 0
    BY <1>2 DEF Zero
  <2>2. Undo[f] \subseteq Res
    BY DEF Undo
  <2>3. Mirrors(new, new.mask)
    BY <1>2, <2>1, <2>2 DEF Mirrors, hecaton_check_bit
  <2> QED BY <1>2, <2>1, <2>3 DEF FrameOK
<1>6. ASSUME NEW d \in 1..depth'[t], NEW e \in 1..depth'[t], d <= e, frame'[t][d].irq
      PROVE  frame'[t][e].irq
  <2>1. CASE e = depth[t] + 1
    <3>1. CASE d = depth[t] + 1
      BY <1>6, <2>1, <3>1
    <3>2. CASE d = depth[t]
      BY <1>0, <1>2, <1>3, <1>4, <1>6, <2>1, <3>2
    <3>3. CASE d # depth[t] + 1 /\ d # depth[t]
      <4>1. d \in 1..depth[t] /\ depth[t] \in 1..depth[t] /\ depth[t] > 0 /\ d <= depth[t]
        BY <1>0, <1>3, <3>3
      <4>2. Top(t).irq
        BY <1>3, <1>4, <1>6, <3>3, <4>1 DEF IInv, Top
      <4> QED BY <1>2, <1>3, <1>4, <2>1, <4>1, <4>2
    <3> QED BY <3>1, <3>2, <3>3
  <2>2. CASE e # depth[t] + 1
    <3>1. d \in 1..depth[t] /\ e \in 1..depth[t] /\ depth[t] > 0
      BY <1>0, <1>3, <1>6, <2>2
    <3>2. frame'[t][d].irq = frame[t][d].irq /\ frame'[t][e].irq = frame[t][e].irq
      BY <1>0, <1>3, <1>4, <3>1 DEF Top
    <3> QED BY <1>6, <3>1, <3>2 DEF IInv
  <2> QED BY <2>1, <2>2
<1>7. ASSUME NEW d \in 1..depth'[t]
      PROVE  FrameOK(frame'[t][d], hf'[t])
  <2>1. CASE d = depth[t] + 1
    BY <1>3, <1>4, <1>5, <2>1
  <2>2. CASE d = depth[t]
    BY <1>0, <1>3, <1>4, <2>2
  <2>3. CASE d # depth[t] + 1 /\ d # depth[t]
    <3>1. d \in 1..depth[t] /\ depth[t] # 0
      BY <1>0, <1>3, <2>3
    <3> QED BY <1>3, <1>4, <2>3, <3>1, LowerOK
  <2> QED BY <2>1, <2>2, <2>3
<1>8. ASSUME NEW d \in 1..depth'[t]
      PROVE  Linked(t, d)'
  <2>1. CASE d = depth[t] + 1
    BY <1>2, <1>3, <1>4, <2>1 DEF Linked, Stacked
  <2>2. CASE d = depth[t]
    <3>1. frame'[t][d] = fr /\ frame'[t][d + 1] = new /\ depth[t] > 0 /\ d # depth'[t]
      BY <1>0, <1>3, <1>4, <2>2
    <3> QED BY <1>2, <3>1 DEF Linked, Stacked
  <2>3. CASE d # depth[t] + 1 /\ d # depth[t]
    <3>1. d \in 1..depth[t] /\ d + 1 \in 1..depth[t] /\ depth[t] > 0 /\ d # depth'[t]
      BY <1>0, <1>3, <2>3
    <3>2. Linked(t, d)
      BY <3>1 DEF IInv
    <3>3. frame'[t][d] = frame[t][d]
      BY <1>3, <1>4, <2>3
    <3>4. frame'[t][d + 1].irq = frame[t][d + 1].irq /\ frame'[t][d + 1].fn = frame[t][d + 1].fn
      <4>1. d + 1 \in Level /\ d + 1 # depth[t] + 1
        BY <1>0, <2>3, <3>1 DEF Level
      <4> QED BY <1>3, <3>1, <4>1 DEF Top
    <3> QED BY <2>3, <3>1, <3>2, <3>3, <3>4 DEF Linked, Stacked
  <2> QED BY <2>1, <2>2, <2>3
<1>9. ASSUME NEW u \in Task, u # t
      PROVE  /\ \A d, e \in 1..depth'[u] : d <= e /\ frame'[u][d].irq => frame'[u][e].irq
             /\ \A d \in 1..depth'[u] : FrameOK(frame'[u][d], hf'[u]) /\ Linked(u, d)'
  BY <1>3, <1>9, OthersOK
<1> QED BY <1>6, <1>7, <1>8, <1>9 DEF Stacks

\* A step that takes the top frame off the stack of t.
LEMMA PopOK ==
    ASSUME IInv, TInv', NEW t \in Task, depth[t] > 0, NEW fr, Pop(t, fr),
           depth[t] > 1 =>
              /\ fr.irq = Below(t).irq /\ fr.fn = Below(t).fn
              /\ fr.ph \notin {"call", "ucall"} /\ FrameOK(fr, hf'[t]),
           hf'[t] = hf[t] \/ ~Top(t).irq, \A u \in Task \ {t} : hf'[u] = hf[u]
    PROVE  Stacks'
<1>0. depth[t] \in Level /\ depth \in [Task -> 0..MaxDepth] /\ MaxDepth \in Nat
  BY TopFits, BowknotAssumption DEF IInv, TInv, TypeOK
<1>1. /\ depth' = [depth EXCEPT ![t] = @ - 1]
      /\ frame' = [frame EXCEPT ![t] =
            [d \in Level |-> IF d = depth[t] THEN NoFrame
                             ELSE IF d = depth[t] - 1 THEN fr ELSE @[d]]]
      /\ frame \in [Task -> [Level -> FrameType]]
  BY DEF Pop, IInv, TInv, TypeOK
<1>2. /\ \A d \in Level : frame'[t][d] = IF d = depth[t] THEN NoFrame
                                         ELSE IF d = depth[t] - 1 THEN fr ELSE frame[t][d]
      /\ \A u \in Task : u # t => frame'[u] = frame[u] /\ depth'[u] = depth[u]
      /\ depth'[t] = depth[t] - 1
  BY <1>0, <1>1
<1>3. 1..depth'[t] \subseteq Level /\ 1..depth[t] \subseteq Level /\ hf'[t] \in BOOLEAN
  BY <1>0, <1>2 DEF Level, TInv, TypeOK
<1>4. depth[t] > 1 => Below(t) = frame[t][depth[t] - 1]
  BY <1>0 DEF Below
<1>5. ASSUME NEW d \in 1..depth'[t]
      PROVE  /\ d \in 1..depth[t] /\ d # depth[t] /\ depth[t] > 1
             /\ frame'[t][d] = IF d = depth[t] - 1 THEN fr ELSE frame[t][d]
             /\ frame'[t][d].irq = frame[t][d].irq /\ frame'[t][d].fn = frame[t][d].fn
  <2>1. d \in 1..depth[t] /\ d # depth[t] /\ depth[t] > 1 /\ d \in Level
    BY <1>0, <1>2, <1>3 DEF Level
  <2> QED BY <1>2, <1>4, <2>1
<1>6. ASSUME NEW d \in 1..depth'[t], NEW e \in 1..depth'[t], d <= e, frame'[t][d].irq
      PROVE  frame'[t][e].irq
  BY <1>5, <1>6 DEF IInv
<1>7. ASSUME NEW d \in 1..depth'[t]
      PROVE  FrameOK(frame'[t][d], hf'[t])
  BY <1>3, <1>5, LowerOK
<1>8. ASSUME NEW d \in 1..depth'[t]
      PROVE  Linked(t, d)'
  <2>1. CASE d = depth'[t]
    BY <1>2, <1>5, <2>1 DEF Linked, Stacked
  <2>2. CASE d # depth'[t]
    <3>1. d + 1 \in 1..depth'[t] /\ Linked(t, d) /\ d # depth[t]
      BY <1>0, <1>2, <1>5, <2>2 DEF IInv, Level
    <3>2. frame'[t][d] = frame[t][d]
      BY <1>2, <1>5, <2>2
    <3> QED BY <1>5, <2>2, <3>1, <3>2 DEF Linked, Stacked
  <2> QED BY <2>1, <2>2
<1>9. ASSUME NEW u \in Task, u # t
      PROVE  /\ \A d, e \in 1..depth'[u] : d <= e /\ frame'[u][d].irq => frame'[u][e].irq
             /\ \A d \in 1..depth'[u] : FrameOK(frame'[u][d], hf'[u]) /\ Linked(u, d)'
  BY <1>2, <1>9, OthersOK
<1> QED BY <1>6, <1>7, <1>8, <1>9 DEF Stacks

-----------------------------------------------------------------------------
(* The mask mirrors the holdings: the actions. *)

\* What IInv says of the frame that runs.
LEMMA TopOK ==
    ASSUME IInv, NEW t \in Task, depth[t] > 0
    PROVE  /\ Top(t) \in FrameType /\ Placed(Top(t)) /\ FrameOK(Top(t), hf[t])
           /\ Top(t).ph \notin {"call", "ucall"}
           /\ Top(t).fn \in Func /\ Top(t).pc \in DOMAIN Body[Top(t).fn]
           /\ hf[t] \in BOOLEAN
<1>1. depth[t] \in 0..MaxDepth /\ MaxDepth \in Nat
  BY BowknotAssumption DEF IInv, TInv, TypeOK
<1>2. depth[t] \in 1..depth[t]
  BY <1>1
<1> QED BY <1>2, TopFits DEF IInv, Top, Linked, Stacked, TInv, TypeOK

\* A statement of the driver that is done leaves a frame as IInv has it.
LEMMA DoneOK ==
    ASSUME NEW fr \in FrameType, NEW h \in BOOLEAN, FrameOK(fr, h), fr.ph = "run",
           NEW new \in FrameType, new.fn = fr.fn, new.pc = fr.pc, new.mask = fr.mask,
           new.irq = fr.irq, new.ph = "check",
           \A r \in Res : new.net[r] <= 1 /\ (r \in new.null => new.net[r] # 1),
           Mirrors(new, StampAfter(fr.fn, fr.pc, fr.mask))
    PROVE  FrameOK(new, h)
<1>1. ~(h /\ ~new.irq)
  BY DEF FrameOK
<1>2. Settled(new, h) = StampAfter(fr.fn, fr.pc, fr.mask)
  BY <1>1 DEF Settled
<1> QED BY <1>2 DEF FrameOK

\* An acquisition made by a statement of the frame's own keeps IInv.
LEMMA AcquireOK ==
    ASSUME Sheltered, IInv, TInv', NEW t \in Task, Acquire(t)
    PROVE  Stacks'
<1> DEFINE r == At(t).r
           g == Got(Top(t), r)
           m == Missed(Top(t), r)
           fr1 == [g EXCEPT !.ph = "check"]
           fr2 == [m EXCEPT !.ph = "check"]
<1>1. /\ depth[t] > 0 /\ Top(t).ph = "run" /\ At(t).op = "acq"
      /\ Disciplined(Top(t), At(t))
      /\ Becomes(t, fr1) \/ (r \in CanFail /\ Becomes(t, fr2))
      /\ depth' = depth /\ hf' = hf
  BY DEF Acquire, Active
<1>2. /\ Top(t) \in FrameType /\ Placed(Top(t)) /\ FrameOK(Top(t), hf[t])
      /\ Top(t).fn \in Func /\ Top(t).pc \in DOMAIN Body[Top(t).fn] /\ hf[t] \in BOOLEAN
  BY <1>1, TopOK
<1>3. r \in Res /\ Body[Top(t).fn][Top(t).pc].op = "acq" /\ r = Body[Top(t).fn][Top(t).pc].r
  BY <1>1, <1>2, Statements DEF At
<1>4. Top(t).net[r] = 0 /\ Top(t).net \in [Res -> Int]
  BY <1>1, <1>2 DEF Disciplined, FrameType
<1>5. /\ Mirrors(Top(t), Top(t).mask)
      /\ \A s \in Res : Top(t).net[s] <= 1 /\ (s \in Top(t).null => Top(t).net[s] # 1)
      /\ Top(t).ph = "run"
  BY <1>1, <1>2 DEF FrameOK
<1>6. FrameOK(fr1, hf[t]) /\ fr1.irq = Top(t).irq /\ fr1.fn = Top(t).fn /\ fr1.ph = "check"
  <2>1. /\ g \in FrameType /\ g.net = [Top(t).net EXCEPT ![r] = 1] /\ g.null = Top(t).null \ {r}
        /\ g.fn = Top(t).fn /\ g.pc = Top(t).pc /\ g.mask = Top(t).mask /\ g.irq = Top(t).irq
    BY <1>2, <1>3, GotFits
  <2> HIDE DEF g
  <2>2. /\ fr1 \in FrameType /\ fr1.ph = "check"
        /\ fr1.net = [Top(t).net EXCEPT ![r] = 1] /\ fr1.null = Top(t).null \ {r}
        /\ fr1.fn = Top(t).fn /\ fr1.pc = Top(t).pc /\ fr1.mask = Top(t).mask
        /\ fr1.irq = Top(t).irq
    BY <2>1 DEF FrameType, Phases
  <2> HIDE DEF fr1, r
  <2>3. Mirrors(fr1, StampAfter(Top(t).fn, Top(t).pc, Top(t).mask))
    BY <1>2, <1>3, <1>5, <2>2, AcquireMirrors
  <2>4. \A s \in Res : fr1.net[s] <= 1 /\ (s \in fr1.null => fr1.net[s] # 1)
    BY <1>4, <1>5, <2>2
  <2>5. FrameOK(fr1, hf[t])
    BY <1>2, <1>5, <2>2, <2>3, <2>4, DoneOK
  <2> QED BY <2>2, <2>5
<1>7. ASSUME r \in CanFail
      PROVE  FrameOK(fr2, hf[t]) /\ fr2.irq = Top(t).irq /\ fr2.fn = Top(t).fn /\ fr2.ph = "check"
  <2>1. /\ m \in FrameType /\ m.net = Top(t).net /\ m.null = Top(t).null \cup {r}
        /\ m.fn = Top(t).fn /\ m.pc = Top(t).pc /\ m.mask = Top(t).mask /\ m.irq = Top(t).irq
    BY <1>2, <1>3, MissedFits
  <2> HIDE DEF m
  <2>2. /\ fr2 \in FrameType /\ fr2.ph = "check"
        /\ fr2.net = Top(t).net /\ fr2.null = Top(t).null \cup {r}
        /\ fr2.fn = Top(t).fn /\ fr2.pc = Top(t).pc /\ fr2.mask = Top(t).mask
        /\ fr2.irq = Top(t).irq
    BY <2>1 DEF FrameType, Phases
  <2>3. r \in Tolerant /\ Top(t).net[r] # 1
    BY <1>4, <1>7 DEF Sheltered
  <2> HIDE DEF fr2, r
  <2>4. Mirrors(fr2, StampAfter(Top(t).fn, Top(t).pc, Top(t).mask))
    BY <1>2, <1>3, <1>5, <2>2, <2>3, AcquireMirrors
  <2>5. \A s \in Res : fr2.net[s] <= 1 /\ (s \in fr2.null => fr2.net[s] # 1)
    BY <1>4, <1>5, <2>2
  <2>6. FrameOK(fr2, hf[t])
    BY <1>2, <1>5, <2>2, <2>4, <2>5, DoneOK
  <2> QED BY <2>2, <2>6
<1> HIDE DEF fr1, fr2, r
<1>8. Becomes(t, fr1) \/ (r \in CanFail /\ Becomes(t, fr2))
  BY <1>1
<1> QED BY <1>1, <1>6, <1>7, <1>8, BecomesOK

\* So does a release made by a statement of the frame's own.
LEMMA ReleaseOK ==
    ASSUME IInv, TInv', NEW t \in Task, Release(t)
    PROVE  Stacks'
<1> DEFINE r == At(t).r
           n == Released(Top(t), r)
           fr == [Top(t) EXCEPT !.net = n, !.ph = "check"]
<1>1. /\ depth[t] > 0 /\ Top(t).ph = "run" /\ At(t).op = "rel"
      /\ Disciplined(Top(t), At(t)) /\ Becomes(t, fr)
      /\ depth' = depth /\ hf' = hf
  BY DEF Release, Active
<1>2. /\ Top(t) \in FrameType /\ Placed(Top(t)) /\ FrameOK(Top(t), hf[t])
      /\ Top(t).fn \in Func /\ Top(t).pc \in DOMAIN Body[Top(t).fn] /\ hf[t] \in BOOLEAN
  BY <1>1, TopOK
<1>3. r \in Res /\ Body[Top(t).fn][Top(t).pc].op = "rel" /\ r = Body[Top(t).fn][Top(t).pc].r
  BY <1>1, <1>2, Statements DEF At
<1>4. /\ Mirrors(Top(t), Top(t).mask) /\ Top(t).net \in [Res -> Int]
      /\ \A s \in Res : Top(t).net[s] <= 1 /\ (s \in Top(t).null => Top(t).net[s] # 1)
  BY <1>1, <1>2 DEF FrameOK, FrameType
<1>5. n \in [Res -> Int]
  BY <1>2, <1>3, ReleasedFits
<1>6. \/ n = [Top(t).net EXCEPT ![r] = @ - 1]
      \/ n = Top(t).net /\ Top(t).net[r] # 1
  BY <1>3, <1>4 DEF Released
<1> HIDE DEF n
<1>7. /\ fr \in FrameType /\ fr.net = n /\ fr.null = Top(t).null /\ fr.ph = "check"
      /\ fr.fn = Top(t).fn /\ fr.pc = Top(t).pc /\ fr.mask = Top(t).mask /\ fr.irq = Top(t).irq
  BY <1>2, <1>5 DEF FrameType, Phases
<1> HIDE DEF fr, r
<1>8. Mirrors(fr, StampAfter(Top(t).fn, Top(t).pc, Top(t).mask))
  BY <1>2, <1>3, <1>4, <1>6, <1>7, ReleaseMirrors
<1>9. \A s \in Res : fr.net[s] <= 1 /\ (s \in fr.null => fr.net[s] # 1)
  <2> SUFFICES ASSUME NEW s \in Res
               PROVE  fr.net[s] <= 1 /\ (s \in fr.null => fr.net[s] # 1)
    OBVIOUS
  <2>1. fr.net[s] = Top(t).net[s] \/ fr.net[s] = Top(t).net[s] - 1
    BY <1>3, <1>4, <1>6, <1>7
  <2>2. Top(t).net[s] \in Int /\ Top(t).net[s] <= 1 /\ (s \in Top(t).null => Top(t).net[s] # 1)
    BY <1>4
  <2> QED BY <1>7, <2>1, <2>2
<1>10. FrameOK(fr, hf[t])
  BY <1>1, <1>2, <1>7, <1>8, <1>9, DoneOK
<1> QED BY <1>1, <1>7, <1>10, BecomesOK

\* So do work and the branches.
LEMMA PlainOK ==
    ASSUME IInv, TInv', NEW t \in Task, Work(t) \/ Branch(t) \/ SkipBlock(t)
    PROVE  Stacks'
<1>1. /\ depth[t] > 0 /\ Top(t).ph = "run" /\ depth' = depth /\ hf' = hf
  BY DEF Work, Branch, SkipBlock, Active
<1>2. /\ Top(t) \in FrameType /\ Placed(Top(t)) /\ FrameOK(Top(t), hf[t])
      /\ Top(t).fn \in Func /\ Top(t).pc \in DOMAIN Body[Top(t).fn] /\ hf[t] \in BOOLEAN
  BY <1>1, TopOK
<1>3. /\ Mirrors(Top(t), Top(t).mask)
      /\ \A s \in Res : Top(t).net[s] <= 1 /\ (s \in Top(t).null => Top(t).net[s] # 1)
      /\ ~(hf[t] /\ ~Top(t).irq)
  BY <1>1, <1>2 DEF FrameOK
<1>4. CASE Work(t)
  <2> DEFINE fr == [Top(t) EXCEPT !.ph = "check"]
  <2>1. /\ fr \in FrameType /\ fr.net = Top(t).net /\ fr.null = Top(t).null /\ fr.ph = "check"
        /\ fr.fn = Top(t).fn /\ fr.pc = Top(t).pc /\ fr.mask = Top(t).mask
        /\ fr.irq = Top(t).irq
    BY <1>2 DEF FrameType, Phases
  <2>2. Becomes(t, fr) /\ Body[Top(t).fn][Top(t).pc].op \notin {"acq", "rel"}
    BY <1>4 DEF Work, At
  <2> HIDE DEF fr
  <2>3. Mirrors(fr, StampAfter(Top(t).fn, Top(t).pc, Top(t).mask))
    BY <1>2, <1>3, <2>1, <2>2, WorkMirrors
  <2>4. FrameOK(fr, hf[t])
    BY <1>1, <1>2, <1>3, <2>1, <2>3, DoneOK
  <2> QED BY <1>1, <2>1, <2>2, <2>4, BecomesOK
<1>5. CASE Branch(t) \/ SkipBlock(t)
  <2> PICK fr : /\ Becomes(t, fr)
                /\ fr = [Top(t) EXCEPT !.ph = "then"] \/ fr = [Top(t) EXCEPT !.pc = At(t).k]
    BY <1>5 DEF Branch, SkipBlock
  <2>1. /\ fr.net = Top(t).net /\ fr.null = Top(t).null /\ fr.ph \in {"run", "then"}
        /\ fr.fn = Top(t).fn /\ fr.mask = Top(t).mask /\ fr.irq = Top(t).irq
    BY <1>1, <1>2 DEF FrameType
  <2>2. FrameOK(fr, hf[t])
    <3>1. Mirrors(fr, fr.mask)
      BY <1>3, <2>1 DEF Mirrors, Undoable
    <3> QED BY <1>3, <2>1, <3>1 DEF FrameOK
  <2> QED BY <1>1, <2>1, <2>2, BecomesOK
<1> QED BY <1>4, <1>5

\* A fault in a statement an hgoto follows keeps IInv.
LEMMA FaultOK ==
    ASSUME IInv, TInv', NEW t \in Task, Fault(t)
    PROVE  Stacks'
<1> DEFINE fr == [Top(t) EXCEPT !.ph = "check"]
<1>1. /\ depth[t] > 0 /\ Top(t).ph = "run" /\ ~Top(t).irq /\ Becomes(t, fr)
      /\ depth' = depth /\ hf' = [hf EXCEPT ![t] = TRUE]
  BY DEF Fault, Active, InIrq
<1>2. Top(t) \in FrameType /\ FrameOK(Top(t), hf[t]) /\ hf \in [Task -> BOOLEAN]
  BY <1>1, TopOK DEF IInv, TInv, TypeOK
<1>3. hf'[t] = TRUE /\ \A u \in Task \ {t} : hf'[u] = hf[u]
  BY <1>1, <1>2
<1>4. /\ fr.net = Top(t).net /\ fr.null = Top(t).null /\ fr.ph = "check"
      /\ fr.fn = Top(t).fn /\ fr.mask = Top(t).mask /\ fr.irq = Top(t).irq
  BY <1>2 DEF FrameType
<1>5. Becomes(t, fr)
  BY <1>1
<1> HIDE DEF fr
<1>6. Mirrors(fr, Settled(fr, TRUE))
  BY <1>1, <1>2, <1>4 DEF FrameOK, Settled, Mirrors, Undoable
<1>7. FrameOK(fr, TRUE)
  BY <1>1, <1>2, <1>4, <1>6 DEF FrameOK
<1> QED BY <1>1, <1>3, <1>4, <1>5, <1>7, BecomesOK

\* The hgotos that lead on, and the stamps behind them, keep IInv.
LEMMA PassOK ==
    ASSUME Sheltered, IInv, TInv', NEW t \in Task, Pass(t) \/ PassBrace(t)
    PROVE  Stacks'
<1>1. /\ depth[t] > 0 /\ Top(t).ph \in {"check", "then"} /\ ~(hf[t] /\ ~Top(t).irq)
      /\ depth' = depth /\ hf' = hf
  BY DEF Pass, PassBrace, Active, hgoto, InIrq
<1>2. /\ Top(t) \in FrameType /\ Placed(Top(t)) /\ FrameOK(Top(t), hf[t])
      /\ Top(t).fn \in Func /\ Top(t).pc \in DOMAIN Body[Top(t).fn] /\ hf[t] \in BOOLEAN
  BY <1>1, TopOK
<1> DEFINE mask == IF Top(t).ph = "check"
                   THEN StampAfter(Top(t).fn, Top(t).pc, Top(t).mask)
                   ELSE StampInThen(Top(t).fn, Top(t).pc, Top(t).mask)
           fr == [Top(t) EXCEPT !.mask = mask, !.pc = @ + 1, !.ph = "run"]
<1>3. Mirrors(Top(t), mask)
  <2>1. CASE Top(t).ph = "check"
    BY <1>1, <1>2, <2>1 DEF FrameOK, Settled
  <2>2. CASE Top(t).ph = "then"
    <3>1. Body[Top(t).fn][Top(t).pc].op # "cond"
      BY <1>2 DEF Sheltered
    <3>2. mask = Top(t).mask
      BY <2>2, <3>1 DEF StampInThen
    <3> QED BY <1>2, <2>2, <3>2 DEF FrameOK
  <2> QED BY <1>1, <2>1, <2>2
<1>4. /\ fr.net = Top(t).net /\ fr.null = Top(t).null /\ fr.ph = "run"
      /\ fr.fn = Top(t).fn /\ fr.mask = mask /\ fr.irq = Top(t).irq
  BY <1>2 DEF FrameType
<1>5. Becomes(t, fr)
  BY <1>1 DEF Pass, PassBrace, Active
<1> HIDE DEF fr
<1>6. Mirrors(fr, fr.mask)
  BY <1>3, <1>4 DEF Mirrors, Undoable
<1>7. FrameOK(fr, hf[t])
  BY <1>1, <1>2, <1>4, <1>6 DEF FrameOK
<1> QED BY <1>1, <1>4, <1>5, <1>7, BecomesOK

\* The hgotos that lead to the cleanup block keep IInv.
LEMMA CleanupOK ==
    ASSUME IInv, TInv', NEW t \in Task, Cleanup(t) \/ CleanupOfClosing(t)
    PROVE  Stacks'
<1>1. /\ depth[t] > 0 /\ Top(t).ph \in {"check", "then"} /\ hf[t] /\ ~Top(t).irq
      /\ depth' = depth
  BY DEF Cleanup, CleanupOfClosing, Active, hgoto, InIrq
<1>2. Top(t) \in FrameType /\ FrameOK(Top(t), hf[t]) /\ hf \in [Task -> BOOLEAN]
  BY <1>1, TopOK DEF IInv, TInv, TypeOK
<1>3. Mirrors(Top(t), Top(t).mask)
  BY <1>1, <1>2 DEF FrameOK, Settled
<1>4. CASE Cleanup(t)
  <2> DEFINE fr == [Top(t) EXCEPT !.ph = "undo", !.todo = Marked(Top(t))]
  <2>1. Becomes(t, fr) /\ Top(t).fn \notin Closing /\ hf' = [hf EXCEPT ![t] = FALSE]
    BY <1>4 DEF Cleanup
  <2>2. hf'[t] = FALSE /\ \A u \in Task \ {t} : hf'[u] = hf[u]
    BY <1>2, <2>1
  <2>3. /\ fr.net = Top(t).net /\ fr.null = Top(t).null /\ fr.ph = "undo"
        /\ fr.fn = Top(t).fn /\ fr.irq = Top(t).irq /\ fr.todo = Marked(Top(t))
    BY <1>2 DEF FrameType
  <2>4. Becomes(t, fr)
    BY <2>1
  <2> HIDE DEF fr
  <2>5. OnCourse(fr)
    BY <1>3, <2>3 DEF OnCourse, Mirrors, Marked, Undoable
  <2>6. FrameOK(fr, FALSE)
    BY <1>1, <1>2, <2>1, <2>3, <2>5 DEF FrameOK
  <2> QED BY <1>1, <2>2, <2>3, <2>4, <2>6, BecomesOK
<1>5. CASE CleanupOfClosing(t)
  <2> DEFINE fr == [Top(t) EXCEPT !.ph = "dying"]
  <2>1. Becomes(t, fr) /\ hf' = hf
    BY <1>5 DEF CleanupOfClosing
  <2>2. /\ fr.net = Top(t).net /\ fr.null = Top(t).null /\ fr.ph = "dying"
        /\ fr.fn = Top(t).fn /\ fr.irq = Top(t).irq
    BY <1>2 DEF FrameType
  <2> HIDE DEF fr
  <2>3. FrameOK(fr, hf[t])
    BY <1>1, <1>2, <2>2 DEF FrameOK
  <2> QED BY <1>1, <2>1, <2>2, <2>3, BecomesOK
<1> QED BY <1>4, <1>5

\* An undo statement of the cleanup block keeps IInv.
LEMMA UndoOK ==
    ASSUME IInv, TInv', NEW t \in Task, UndoOne(t)
    PROVE  Stacks'
<1> PICK r \in Res : /\ Undoes(t, r)
                     /\ Callee(Top(t).fn, r) = NoFunc
                     /\ Becomes(t, [Top(t) EXCEPT !.net = Released(Top(t), r),
                                                  !.todo = @ \ {r}])
                     /\ Drop(r)
  BY Zenon DEF UndoOne
<1> DEFINE n == Released(Top(t), r)
           fr == [Top(t) EXCEPT !.net = n, !.todo = @ \ {r}]
<1>1. depth[t] > 0 /\ Top(t).ph = "undo" /\ depth' = depth /\ hf' = hf
  BY DEF UndoOne, Undoes, Active
<1>2. Top(t) \in FrameType /\ Placed(Top(t)) /\ FrameOK(Top(t), hf[t])
  BY <1>1, TopOK
<1>3. /\ OnCourse(Top(t)) /\ Top(t).fn \notin Closing
      /\ \A s \in Res : Top(t).net[s] <= 1 /\ (s \in Top(t).null => Top(t).net[s] # 1)
      /\ ~(hf[t] /\ ~Top(t).irq) /\ ~Top(t).irq
  BY <1>1, <1>2 DEF FrameOK
<1>4. Top(t).net \in [Res -> Int]
  BY <1>2 DEF FrameType
<1>5. \A s \in Res : /\ s # r => n[s] = Top(t).net[s]
                     /\ n[s] <= 1 /\ (s \in Top(t).null => n[s] # 1)
                     /\ n[r] # 1
  <2>1. \/ n = [Top(t).net EXCEPT ![r] = @ - 1]
        \/ n = Top(t).net /\ r \in Top(t).null
    BY DEF Released
  <2> HIDE DEF n
  <2> SUFFICES ASSUME NEW s \in Res
               PROVE  /\ s # r => n[s] = Top(t).net[s]
                      /\ n[s] <= 1 /\ (s \in Top(t).null => n[s] # 1)
                      /\ n[r] # 1
    OBVIOUS
  <2>2. /\ Top(t).net[s] \in Int /\ Top(t).net[s] <= 1
        /\ s \in Top(t).null => Top(t).net[s] # 1
        /\ Top(t).net[r] \in Int /\ Top(t).net[r] <= 1
        /\ r \in Top(t).null => Top(t).net[r] # 1
    BY <1>3, <1>4
  <2> QED BY <1>4, <2>1, <2>2
<1> HIDE DEF n
<1>6. /\ fr.net = n /\ fr.null = Top(t).null /\ fr.ph = "undo"
      /\ fr.fn = Top(t).fn /\ fr.irq = Top(t).irq /\ fr.todo = Top(t).todo \ {r}
  BY <1>1, <1>2 DEF FrameType
<1>7. Becomes(t, fr)
  BY DEF n
<1> HIDE DEF fr
<1>8. OnCourse(fr)
  <2> SUFFICES ASSUME NEW s \in Undo[fr.fn]
               PROVE  /\ fr.net[s] = 1 /\ Fits(fr.fn, s) => s \in fr.todo
                      /\ s \in Outer \cap fr.todo => Undoable(fr, s)
    BY DEF OnCourse
  <2>1. s \in Res
    BY <1>2, <1>6 DEF Undo, Placed
  <2>2. /\ Top(t).net[s] = 1 /\ Fits(fr.fn, s) => s \in Top(t).todo
        /\ s \in Outer \cap Top(t).todo => Undoable(Top(t), s)
    BY <1>1, <1>3, <1>6 DEF OnCourse
  <2>3. s # r => n[s] = Top(t).net[s]
    BY <1>5, <2>1
  <2>4. n[r] # 1
    BY <1>5
  <2> QED BY <1>6, <2>2, <2>3, <2>4 DEF Undoable
<1>9. FrameOK(fr, hf[t])
  BY <1>3, <1>5, <1>6, <1>8 DEF FrameOK
<1> QED BY <1>1, <1>6, <1>7, <1>9, BecomesOK

\* Calls, system calls and interrupts keep IInv.
LEMMA CallOK ==
    ASSUME IInv, TInv', NEW t \in Task, Call(t) \/ Enter(t) \/ Interrupt(t)
    PROVE  Stacks'
<1>1. CASE Call(t)
  <2> DEFINE fr == [Top(t) EXCEPT !.ph = "call"]
  <2>1. /\ depth[t] > 0 /\ Top(t).ph = "run" /\ hf' = hf
        /\ At(t).f # NoFunc /\ Disciplined(Top(t), At(t))
        /\ Push(t, fr, At(t).f, Top(t).irq)
    BY <1>1 DEF Call, Active
  <2>2. /\ Top(t) \in FrameType /\ FrameOK(Top(t), hf[t]) /\ Top(t).irq \in BOOLEAN
        /\ At(t).f \in Func
    BY <2>1, TopOK, Statements DEF At, FrameType
  <2>3. /\ fr.net = Top(t).net /\ fr.null = Top(t).null /\ fr.ph = "call" /\ fr.pc = Top(t).pc
        /\ fr.fn = Top(t).fn /\ fr.mask = Top(t).mask /\ fr.irq = Top(t).irq
    BY <2>2 DEF FrameType
  <2>4. Push(t, fr, At(t).f, Top(t).irq)
    BY <2>1
  <2> HIDE DEF fr
  <2>5. Disciplined(fr, Calling(fr))
    BY <2>1, <2>3 DEF Disciplined, Calling, At
  <2>6. Mirrors(fr, fr.mask)
    BY <2>1, <2>2, <2>3 DEF FrameOK, Mirrors, Undoable
  <2>7. FrameOK(fr, hf[t]) /\ ~(hf[t] /\ ~Top(t).irq)
    BY <2>1, <2>2, <2>3, <2>5, <2>6 DEF FrameOK
  <2> QED BY <2>1, <2>2, <2>3, <2>4, <2>7, PushOK
<1>2. CASE Enter(t)
  <2>1. PICK f \in Entry : Push(t, NoFrame, f, FALSE)
    BY <1>2 DEF Enter
  <2>2. /\ depth[t] = 0 /\ ~(depth[t] > 0) /\ f \in Func
        /\ hf' = [hf EXCEPT ![t] = FALSE] /\ hf \in [Task -> BOOLEAN]
    BY <1>2, BowknotAssumption DEF Enter, IInv, TInv, TypeOK
  <2>3. hf'[t] = FALSE /\ \A u \in Task \ {t} : hf'[u] = hf[u]
    BY <2>2
  <2> QED BY <2>1, <2>2, <2>3, PushOK
<1>3. CASE Interrupt(t)
  <2> DEFINE fr == IF depth[t] = 0 THEN NoFrame ELSE Top(t)
  <2>1. PICK f \in IrqEntry : Push(t, fr, f, TRUE)
    BY <1>3 DEF Interrupt
  <2>2. f \in Func /\ hf' = hf /\ (depth[t] > 0 => ~Top(t).irq)
    BY <1>3, BowknotAssumption DEF Interrupt, InIrq
  <2>3. depth[t] > 0 =>
          /\ fr = Top(t) /\ FrameOK(fr, hf[t]) /\ fr.ph \notin {"call", "ucall"}
    BY TopOK
  <2> HIDE DEF fr
  <2> QED BY <2>1, <2>2, <2>3, PushOK
<1> QED BY <1>1, <1>2, <1>3

\* A cleanup block that calls a closing function keeps IInv.
LEMMA UndoByCallOK ==
    ASSUME Sheltered, IInv, TInv', NEW t \in Task, UndoByCall(t)
    PROVE  Stacks'
<1> PICK r \in Res :
           /\ Undoes(t, r)
           /\ Callee(Top(t).fn, r) # NoFunc
           /\ Push(t, [Top(t) EXCEPT !.ph = "ucall", !.pc = First[Top(t).fn][r],
                                     !.todo = @ \ {r}],
                   Callee(Top(t).fn, r), Top(t).irq)
  BY Zenon DEF UndoByCall
<1> DEFINE f == Callee(Top(t).fn, r)
           fr == [Top(t) EXCEPT !.ph = "ucall", !.pc = First[Top(t).fn][r], !.todo = @ \ {r}]
<1>1. /\ depth[t] > 0 /\ Top(t).ph = "undo" /\ hf' = hf /\ r \in Top(t).todo
  BY DEF UndoByCall, Undoes, Active, IsNext
<1>2. Top(t) \in FrameType /\ Placed(Top(t)) /\ FrameOK(Top(t), hf[t])
  BY <1>1, TopOK
<1>3. r \in Undo[Top(t).fn] /\ Top(t).fn \in Func
  BY <1>1, <1>2 DEF Placed
<1>4. /\ First[Top(t).fn][r] \in DOMAIN Body[Top(t).fn]
      /\ Body[Top(t).fn][First[Top(t).fn][r]].op = "rel"
      /\ Body[Top(t).fn][First[Top(t).fn][r]].r = r
  BY <1>3, FirstIsUndo DEF IsUndo
<1>5. f \in Func /\ f \in Closing
  <2>1. f # NoFunc
    OBVIOUS
  <2>2. f = Body[Top(t).fn][First[Top(t).fn][r]].f
    BY DEF Callee
  <2> HIDE DEF f
  <2> QED BY <1>3, <1>4, <2>1, <2>2, InstrumentAssumption DEF Sheltered
<1>6. /\ fr.net = Top(t).net /\ fr.null = Top(t).null /\ fr.ph = "ucall"
      /\ fr.pc = First[Top(t).fn][r] /\ fr.todo = Top(t).todo \ {r}
      /\ fr.fn = Top(t).fn /\ fr.irq = Top(t).irq
  BY <1>2 DEF FrameType
<1>7. Push(t, fr, f, Top(t).irq) /\ Top(t).irq \in BOOLEAN
  BY <1>2 DEF FrameType
<1> HIDE DEF fr, f
<1>8. Calling(fr).r = r
  BY <1>4, <1>6 DEF Calling
<1>9. OnCourse(fr)
  BY <1>1, <1>2, <1>6, <1>8 DEF FrameOK, OnCourse, Undoable
<1>10. ~Top(t).irq /\ ~hf[t] /\ FrameOK(fr, hf[t])
  BY <1>1, <1>2, <1>6, <1>8, <1>9 DEF FrameOK
<1> QED BY <1>1, <1>5, <1>6, <1>7, <1>10, PushOK

\* What IInv says of the frame under the one that runs.
LEMMA BelowOK ==
    ASSUME IInv, NEW t \in Task, depth[t] > 1
    PROVE  /\ Below(t) \in FrameType /\ Placed(Below(t)) /\ FrameOK(Below(t), hf[t])
           /\ Below(t).irq => Top(t).irq
           /\ Below(t).ph \in {"call", "ucall"} <=> (Below(t).irq <=> Top(t).irq)
           /\ Below(t).ph = "ucall" => Top(t).fn \in Closing
<1> DEFINE d == depth[t] - 1
<1>1. depth[t] \in 0..MaxDepth /\ MaxDepth \in Nat
  BY BowknotAssumption DEF IInv, TInv, TypeOK
<1>2. /\ d \in 1..depth[t] /\ depth[t] \in 1..depth[t] /\ d <= depth[t] /\ d # depth[t]
      /\ d + 1 = depth[t] /\ depth[t] # 1 /\ depth[t] > 0
  BY <1>1
<1>3. Below(t) = frame[t][d] /\ Top(t) = frame[t][depth[t]]
  BY <1>2 DEF Below, Top
<1> HIDE DEF d
<1>4. FrameOK(frame[t][d], hf[t]) /\ Linked(t, d)
  BY <1>2 DEF IInv
<1>5. frame[t][d].irq => frame[t][depth[t]].irq
  BY <1>2 DEF IInv
<1>6. Below(t) \in FrameType /\ Placed(Below(t))
  BY <1>2, BelowFits DEF IInv
<1> QED BY <1>2, <1>3, <1>4, <1>5, <1>6 DEF Linked, Stacked

\* The account of a frame once what it called has acquired r.
LEMMA PlusOne ==
    ASSUME NEW m \in [Res -> Int], NEW r \in Res, m[r] = 0
    PROVE  Plus(m, [Zero EXCEPT ![r] = 1]) = [m EXCEPT ![r] = 1]
<1> DEFINE n == [Zero EXCEPT ![r] = 1]
<1>1. \A s \in Res : n[s] = IF s = r THEN 1 ELSE 0
  BY DEF Zero
<1> HIDE DEF n
<1>2. \A s \in Res : Plus(m, n)[s] = IF s = r THEN 1 ELSE m[s]
  BY <1>1 DEF Plus
<1>3. Plus(m, n) = [m EXCEPT ![r] = 1]
  BY <1>2 DEF Plus
<1> QED BY <1>3 DEF n

\* The same for a call that has released r.
LEMMA PlusMinusOne ==
    ASSUME NEW m \in [Res -> Int], NEW r \in Res
    PROVE  Plus(m, [Zero EXCEPT ![r] = -1]) = [m EXCEPT ![r] = @ - 1]
<1> DEFINE n == [Zero EXCEPT ![r] = -1]
<1>1. \A s \in Res : n[s] = IF s = r THEN -1 ELSE 0
  BY DEF Zero
<1> HIDE DEF n
<1>2. \A s \in Res : Plus(m, n)[s] = IF s = r THEN m[s] - 1 ELSE m[s]
  BY <1>1 DEF Plus
<1>3. Plus(m, n) = [m EXCEPT ![r] = @ - 1]
  BY <1>2 DEF Plus
<1> QED BY <1>3 DEF n

\* A call that neither acquired nor released changes no account.
LEMMA PlusZero ==
    ASSUME NEW m \in [Res -> Int]
    PROVE  Plus(m, Zero) = m
BY DEF Plus, Zero

\* A call that returns to the statement that made it leaves a frame as IInv has it.
LEMMA ReturnToCall ==
    ASSUME Sheltered, NEW h \in BOOLEAN, NEW fr \in FrameType, Placed(fr), FrameOK(fr, h),
           fr.ph = "call", ~(h /\ ~fr.irq), NEW net \in [Res -> Int], NEW err \in BOOLEAN,
           Delivers(Calling(fr), net, err),
           NEW new \in FrameType, new.fn = fr.fn, new.pc = fr.pc, new.mask = fr.mask,
           new.irq = fr.irq, new.ph = "check",
           new.net = Plus(fr.net, net), new.null = Outcome(fr, err)
    PROVE  FrameOK(new, h)
<1> DEFINE r == Calling(fr).r
<1>1. fr.fn \in Func /\ fr.pc \in DOMAIN Body[fr.fn] /\ Calling(fr).op \in {"acq", "rel", "work"}
  BY DEF Placed
<1>2. /\ fr.net \in [Res -> Int]
      /\ Calling(fr) = Body[fr.fn][fr.pc]
      /\ Calling(fr).op \in {"acq", "rel"} => r \in Res
  BY <1>1, Statements DEF FrameType, Calling
<1>3. /\ Mirrors(fr, fr.mask) /\ Disciplined(fr, Calling(fr))
      /\ \A s \in Res : fr.net[s] <= 1 /\ (s \in fr.null => fr.net[s] # 1)
  BY DEF FrameOK
<1>4. Settled(new, h) = StampAfter(fr.fn, fr.pc, fr.mask)
  BY DEF Settled
<1>5. SUFFICES /\ \A s \in Res : new.net[s] <= 1 /\ (s \in new.null => new.net[s] # 1)
               /\ Mirrors(new, StampAfter(fr.fn, fr.pc, fr.mask))
  BY <1>4 DEF FrameOK
<1>6. CASE Calling(fr).op = "acq"
  <2>1. fr.net[r] = 0 /\ fr.net[r] # 1
    BY <1>3, <1>6 DEF Disciplined
  <2>2. \/ new.net = [fr.net EXCEPT ![r] = 1] /\ new.null = fr.null \ {r}
        \/ /\ new.net = fr.net /\ new.null = fr.null \cup {r} /\ r \in Tolerant
    <3>1. CASE err
      <4>1. net = Zero /\ r \in CanFail
        BY <1>6, <3>1 DEF Delivers
      <4>2. new.net = fr.net
        BY <1>2, <4>1, PlusZero
      <4>3. r \in Tolerant /\ new.null = fr.null \cup {r}
        BY <1>6, <3>1, <4>1 DEF Sheltered, Outcome
      <4> QED BY <4>2, <4>3
    <3>2. CASE ~err
      <4>1. net = [Zero EXCEPT ![r] = 1]
        BY <1>6, <3>2 DEF Delivers
      <4>2. new.net = [fr.net EXCEPT ![r] = 1]
        BY <1>2, <1>6, <2>1, <4>1, PlusOne
      <4>3. new.null = fr.null \ {r}
        BY <1>6, <3>2 DEF Outcome
      <4> QED BY <4>2, <4>3
    <3> QED BY <3>1, <3>2
  <2>3. r \in Res /\ Body[fr.fn][fr.pc].op = "acq" /\ r = Body[fr.fn][fr.pc].r
    BY <1>2, <1>6
  <2> HIDE DEF r
  <2>4. Mirrors(new, StampAfter(fr.fn, fr.pc, fr.mask))
    BY <1>1, <1>3, <2>1, <2>2, <2>3, AcquireMirrors
  <2>5. ASSUME NEW s \in Res
        PROVE  new.net[s] <= 1 /\ (s \in new.null => new.net[s] # 1)
    BY <1>2, <1>3, <2>1, <2>2
  <2> QED BY <2>4, <2>5
<1>7. CASE Calling(fr).op = "rel"
  <2>1. net = [Zero EXCEPT ![r] = -1] /\ r \in Res
    BY <1>2, <1>7 DEF Delivers
  <2>2. new.net = [fr.net EXCEPT ![r] = @ - 1]
    BY <1>2, <2>1, PlusMinusOne
  <2>3. new.null = fr.null
    BY <1>7 DEF Outcome
  <2>4. Body[fr.fn][fr.pc].op = "rel" /\ r = Body[fr.fn][fr.pc].r /\ fr.net[r] <= 1
    BY <1>2, <1>3, <1>7, <2>1
  <2> HIDE DEF r
  <2>5. Mirrors(new, StampAfter(fr.fn, fr.pc, fr.mask))
    BY <1>1, <1>3, <2>1, <2>2, <2>3, <2>4, ReleaseMirrors
  <2>6. ASSUME NEW s \in Res
        PROVE  new.net[s] <= 1 /\ (s \in new.null => new.net[s] # 1)
    <3>1. /\ fr.net[s] \in Int /\ fr.net[s] <= 1 /\ (s \in fr.null => fr.net[s] # 1)
          /\ new.net[s] = fr.net[s] \/ new.net[s] = fr.net[s] - 1
      BY <1>2, <1>3, <2>2
    <3> QED BY <2>3, <3>1
  <2> QED BY <2>5, <2>6
<1>8. CASE Calling(fr).op = "work"
  <2>1. net = Zero /\ new.null = fr.null
    BY <1>8 DEF Delivers, Outcome
  <2>2. new.net = fr.net
    BY <1>2, <2>1, PlusZero
  <2>3. Body[fr.fn][fr.pc].op \notin {"acq", "rel"}
    BY <1>2, <1>8
  <2>4. Mirrors(new, StampAfter(fr.fn, fr.pc, fr.mask))
    BY <1>1, <1>3, <2>1, <2>2, <2>3, WorkMirrors
  <2> QED BY <1>3, <2>1, <2>2, <2>4
<1> QED BY <1>1, <1>6, <1>7, <1>8

\* So does a call that returns to the cleanup block that made it.
LEMMA ReturnToCleanup ==
    ASSUME NEW h \in BOOLEAN, NEW fr \in FrameType, Placed(fr), FrameOK(fr, h),
           fr.ph = "ucall", ~(h /\ ~fr.irq), NEW net \in [Res -> Int], NEW err \in BOOLEAN,
           Delivers(Calling(fr), net, err),
           NEW new, new.fn = fr.fn, new.irq = fr.irq, new.ph = "undo", new.todo = fr.todo,
           new.net = Plus(fr.net, net), new.null = Outcome(fr, err)
    PROVE  FrameOK(new, h)
<1> DEFINE r == Calling(fr).r
<1>1. fr.fn \in Func /\ fr.pc \in DOMAIN Body[fr.fn] /\ Calling(fr).op = "rel"
  BY DEF Placed
<1>2. fr.net \in [Res -> Int] /\ r \in Res
  BY <1>1, Statements DEF FrameType, Calling
<1>3. /\ OnCourse(fr) /\ fr.fn \notin Closing /\ r \notin fr.todo /\ ~fr.irq
      /\ \A s \in Res : fr.net[s] <= 1 /\ (s \in fr.null => fr.net[s] # 1)
  BY DEF FrameOK
<1>4. net = [Zero EXCEPT ![r] = -1] /\ new.null = fr.null
  BY <1>1 DEF Delivers, Outcome
<1>5. new.net = [fr.net EXCEPT ![r] = @ - 1]
  BY <1>2, <1>4, PlusMinusOne
<1> HIDE DEF r
<1>6. ASSUME NEW s \in Res
      PROVE  /\ new.net[s] <= 1 /\ (s \in new.null => new.net[s] # 1)
             /\ s = r => new.net[s] # 1
             /\ s # r => new.net[s] = fr.net[s]
  <2>1. /\ fr.net[s] \in Int /\ fr.net[s] <= 1 /\ (s \in fr.null => fr.net[s] # 1)
        /\ new.net[s] = IF s = r THEN fr.net[s] - 1 ELSE fr.net[s]
    BY <1>2, <1>3, <1>5
  <2> QED BY <1>4, <2>1
<1>7. OnCourse(new)
  <2> SUFFICES ASSUME NEW s \in Undo[fr.fn]
               PROVE  /\ new.net[s] = 1 /\ Fits(fr.fn, s) => s \in new.todo
                      /\ s \in Outer \cap new.todo => Undoable(new, s)
    BY DEF OnCourse
  <2>1. s \in Res
    BY <1>1 DEF Undo
  <2>2. /\ fr.net[s] = 1 /\ Fits(fr.fn, s) => s \in fr.todo \/ r = s
        /\ s \in Outer \cap fr.todo => Undoable(fr, s)
    BY <1>3 DEF OnCourse, r
  <2> QED BY <1>3, <1>4, <1>6, <2>1, <2>2 DEF Undoable
<1> QED BY <1>3, <1>6, <1>7 DEF FrameOK

\* A function that returns keeps IInv.
LEMMA ReturnOK ==
    ASSUME Sheltered, IInv, TInv', NEW t \in Task, Return(t)
    PROVE  Stacks'
<1> DEFINE fr == Below(t)
           err == At(t).k = 1
           net == Plus(fr.net, Top(t).net)
           null == Outcome(fr, err)
           back == [Resumed(fr) EXCEPT !.net = net, !.null = null]
<1>1. depth[t] > 0 /\ Top(t).ph = "run" /\ hf' = hf
  BY DEF Return, Active
<1>2. /\ Top(t) \in FrameType /\ FrameOK(Top(t), hf[t]) /\ hf[t] \in BOOLEAN
  BY <1>1, TopOK
<1>3. ~(hf[t] /\ ~Top(t).irq) /\ Top(t).net \in [Res -> Int]
  BY <1>1, <1>2 DEF FrameOK, FrameType
<1>4. depth[t] > 1 =>
        /\ fr \in FrameType /\ Placed(fr) /\ FrameOK(fr, hf[t])
        /\ fr.ph \in {"call", "ucall"} => (fr.irq <=> Top(t).irq)
  BY BelowOK
<1>5. CASE fr.ph \in {"call", "ucall"}
  <2>1. Delivers(Calling(fr), Top(t).net, err) /\ Pop(t, back)
    BY <1>5 DEF Return
  <2>2. ASSUME depth[t] > 1
        PROVE  /\ back.irq = fr.irq /\ back.fn = fr.fn
               /\ back.ph \notin {"call", "ucall"} /\ FrameOK(back, hf[t])
    <3>1. /\ fr \in FrameType /\ Placed(fr) /\ FrameOK(fr, hf[t])
          /\ ~(hf[t] /\ ~fr.irq) /\ err \in BOOLEAN
      BY <1>3, <1>4, <1>5, <2>2
    <3>2. CASE fr.ph = "call"
      <4>1. net \in [Res -> Int]
        BY <1>3, <3>1 DEF Plus, FrameType
      <4>2. null \subseteq Res
        <5>1. Calling(fr).op = "acq" => Calling(fr).r \in Res
          BY <3>1, Statements DEF Placed, Calling
        <5>2. fr.null \subseteq Res
          BY <3>1 DEF FrameType
        <5> HIDE DEF fr, err
        <5> QED BY <3>1, <5>1, <5>2 DEF Outcome
      <4>3. Resumed(fr) = [fr EXCEPT !.ph = "check"]
        BY <3>2 DEF Resumed
      <4>4. Delivers(Calling(fr), Top(t).net, err) /\ net = Plus(fr.net, Top(t).net)
             /\ null = Outcome(fr, err)
        BY <2>1
      <4> HIDE DEF fr, net, null, err
      <4>5. /\ back \in FrameType /\ back.fn = fr.fn /\ back.pc = fr.pc /\ back.mask = fr.mask
            /\ back.irq = fr.irq /\ back.ph = "check" /\ back.net = net /\ back.null = null
        BY <3>1, <4>1, <4>2, <4>3 DEF FrameType, Phases
      <4> HIDE DEF back
      <4>6. FrameOK(back, hf[t])
        BY <1>2, <1>3, <3>1, <3>2, <4>4, <4>5, ReturnToCall
      <4> QED BY <4>5, <4>6
    <3>3. CASE fr.ph = "ucall"
      <4>1. Resumed(fr) = [fr EXCEPT !.ph = "undo"]
        BY <3>3 DEF Resumed
      <4>2. Delivers(Calling(fr), Top(t).net, err) /\ net = Plus(fr.net, Top(t).net)
             /\ null = Outcome(fr, err)
        BY <2>1
      <4> HIDE DEF fr, net, null, err
      <4>3. /\ back.fn = fr.fn /\ back.todo = fr.todo
            /\ back.irq = fr.irq /\ back.ph = "undo" /\ back.net = net /\ back.null = null
        BY <3>1, <4>1 DEF FrameType
      <4> HIDE DEF back
      <4>4. FrameOK(back, hf[t])
        BY <1>2, <1>3, <3>1, <3>3, <4>2, <4>3, ReturnToCleanup
      <4> QED BY <4>3, <4>4
    <3> QED BY <1>5, <3>2, <3>3
  <2> HIDE DEF back
  <2> QED BY <1>1, <2>1, <2>2, PopOK
<1>6. CASE fr.ph \notin {"call", "ucall"}
  <2>1. Pop(t, fr)
    BY <1>6 DEF Return
  <2> QED BY <1>1, <1>4, <1>6, <2>1, PopOK
<1> QED BY <1>5, <1>6

\* A cleanup block that is done, its caller being next, keeps IInv.
LEMMA LeaveOK ==
    ASSUME IInv, TInv', NEW t \in Task, Leave(t)
    PROVE  Stacks'
<1> DEFINE fr == Resumed(Below(t))
<1>1. /\ depth[t] > 0 /\ Top(t).ph = "undo" /\ hf' = [hf EXCEPT ![t] = TRUE]
      /\ Pop(t, fr)
  BY DEF Leave, Active
<1>2. FrameOK(Top(t), hf[t]) /\ hf \in [Task -> BOOLEAN]
  BY <1>1, TopOK DEF IInv, TInv, TypeOK
<1>3. hf'[t] = TRUE /\ \A u \in Task \ {t} : hf'[u] = hf[u]
  BY <1>1, <1>2
<1>4. ~Top(t).irq /\ Top(t).fn \notin Closing
  BY <1>1, <1>2 DEF FrameOK
<1>5. ASSUME depth[t] > 1
      PROVE  /\ fr.irq = Below(t).irq /\ fr.fn = Below(t).fn
             /\ fr.ph \notin {"call", "ucall"} /\ FrameOK(fr, TRUE)
  <2>1. /\ Below(t) \in FrameType /\ FrameOK(Below(t), hf[t])
        /\ ~Below(t).irq /\ Below(t).ph = "call"
    BY <1>4, <1>5, BelowOK
  <2>2. fr = [Below(t) EXCEPT !.ph = "check"]
    BY <2>1 DEF Resumed
  <2>3. /\ fr.fn = Below(t).fn /\ fr.irq = Below(t).irq /\ fr.ph = "check"
        /\ fr.mask = Below(t).mask /\ fr.net = Below(t).net /\ fr.null = Below(t).null
    BY <2>1, <2>2 DEF FrameType
  <2> HIDE DEF fr
  <2>4. Mirrors(fr, Settled(fr, TRUE))
    BY <2>1, <2>3 DEF FrameOK, Settled, Mirrors, Undoable
  <2> QED BY <2>1, <2>3, <2>4 DEF FrameOK
<1> HIDE DEF fr
<1> QED BY <1>1, <1>3, <1>4, <1>5, PopOK

\* IInv holds in a kernel in which no task has entered.
LEMMA InitOK == Init => IInv
<1> SUFFICES ASSUME Init PROVE IInv
  OBVIOUS
<1>1. \A t \in Task : 1..depth[t] = {}
  BY DEF Init
<1> QED BY <1>1, InitTyped DEF IInv

\* Every step of a sheltered program keeps IInv: one lemma above per action.
LEMMA StepOK == Sheltered /\ IInv /\ [Next]_vars => IInv'
<1> SUFFICES ASSUME Sheltered, IInv, [Next]_vars PROVE IInv'
  OBVIOUS
<1>1. TInv'
  BY StepTyped DEF IInv
<1>2. SUFFICES Stacks'
  BY <1>1 DEF IInv, Stacks
<1>3. CASE UNCHANGED vars
  <2>1. UNCHANGED <<depth, frame, hf>>
    BY <1>3 DEF vars
  <2>2. ASSUME NEW t \in Task, NEW d \in 1..depth[t]
        PROVE  Linked(t, d)'
    <3>1. Linked(t, d)
      BY DEF IInv
    <3> QED BY <2>1, <3>1 DEF Linked, Stacked
  <2>3. \A t \in Task : \A d \in 1..depth'[t] : FrameOK(frame'[t][d], hf'[t])
    BY <2>1 DEF IInv
  <2>4. \A t \in Task : \A d, e \in 1..depth'[t] : d <= e /\ frame'[t][d].irq => frame'[t][e].irq
    BY <2>1 DEF IInv
  <2> QED BY <2>1, <2>2, <2>3, <2>4 DEF Stacks
<1>4. ASSUME NEW t \in Task, Enter(t) \/ Step(t) \/ Surprise(t)
      PROVE  Stacks'
  <2>1. ~AcquireInCondition(t) /\ ~FaultInCondition(t) /\ ~FaultInReturn(t)
    <3>1. ASSUME depth[t] > 0
          PROVE  /\ At(t).op # "cond"
                 /\ <<Top(t).fn, Top(t).pc>> \in CanFault => At(t).op \in {"acq", "rel", "work"}
      BY <3>1, TopOK DEF Sheltered, At
    <3> QED BY <3>1 DEF AcquireInCondition, FaultInCondition, FaultInReturn, Active
  <2>2. ~UndoFault(t)
    BY DEF UndoFault, Sheltered
  <2>3. CASE Restart(t)
    <3>1. \A u \in Task : 1..depth'[u] = {}
      BY <2>3 DEF Restart
    <3> QED BY <3>1 DEF Stacks
  <2>4. CASE Enter(t) \/ Call(t) \/ Interrupt(t) \/ UndoByCall(t) \/ Return(t) \/ Leave(t)
    BY <1>1, <2>4, CallOK, UndoByCallOK, ReturnOK, LeaveOK
  <2>5. CASE Acquire(t) \/ Release(t) \/ Work(t) \/ Branch(t) \/ SkipBlock(t)
    BY <1>1, <2>5, AcquireOK, ReleaseOK, PlainOK
  <2>6. CASE Fault(t) \/ Pass(t) \/ PassBrace(t) \/ Cleanup(t) \/ CleanupOfClosing(t) \/ UndoOne(t)
    BY <1>1, <2>6, FaultOK, PassOK, CleanupOK, UndoOK
  <2> QED BY <1>4, <2>1, <2>2, <2>3, <2>4, <2>5, <2>6 DEF Step, Surprise
<1>5. CASE Next
  BY <1>4, <1>5 DEF Next
<1> QED BY <1>3, <1>5

\* In every sheltered program IInv always holds.
LEMMA ShelteredInvariant == ASSUME Sheltered PROVE Spec => []IInv
BY InitOK, StepOK, PTL DEF Spec

\* insert_pairmask_stamps with insert_gotos: in a sheltered program the pair
\* mask always tells what a frame has done and not yet undone.
THEOREM MaskCorrect ==
    ASSUME Sheltered
    PROVE  Spec => []MaskMirrorsHoldings
<1>1. IInv => MaskMirrorsHoldings
  BY DEF IInv, FrameOK, MaskMirrorsHoldings
<1> QED BY <1>1, ShelteredInvariant, PTL

\* generate_cleanup_str: what a cleanup block of a sheltered program has still
\* to undo is what its frame still holds.
THEOREM CleanupCorrect ==
    ASSUME Sheltered
    PROVE  Spec => []CleanupOnCourse
<1>1. IInv => CleanupOnCourse
  BY DEF IInv, FrameOK, CleanupOnCourse
<1> QED BY <1>1, ShelteredInvariant, PTL

\* insert_gotos: in a sheltered program no statement follows a fault before its
\* frame has been cleaned up.
THEOREM FaultStopsCorrect ==
    ASSUME Sheltered
    PROVE  Spec => []FaultStopsTask
<1>1. IInv => FaultStopsTask
  BY DEF IInv, FrameOK, FaultStopsTask
<1> QED BY <1>1, ShelteredInvariant, PTL
===============================================================================
