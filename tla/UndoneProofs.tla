----------------------------- MODULE UndoneProofs -----------------------------
(****************************************************************************)
(* What the instrumented kernel promises, first without any condition on    *)
(* the program or on where it faults: until the first fault the             *)
(* instrumentation does nothing, interrupts never notice it, and a bit of   *)
(* the mask is set for a reason.  Then that half executed functions are     *)
(* undone: in a program that is sheltered and covered, no cleanup block     *)
(* leaves anything behind.                                                  *)
(*                                                                          *)
(* And the accounts of whole stacks, for every such driver whose functions  *)
(* release for a caller only what it has them release: the locks are held   *)
(* by the tasks whose frames account for them.  The accounts are running    *)
(* totals over a stack.  That they are what the recursive definition says   *)
(* follows by a minimal counterexample, from then on only the recurrence is *)
(* used: a step changes the last frame or two, so all totals but the last   *)
(* stay what they were.                                                     *)
(*                                                                          *)
(* Last the refinement: the instrumented kernel implements calls that are   *)
(* all or nothing, each step of Bowknot being a step of AtomicCall, or none, *)
(* under the mapping of BowknotProps.  A call takes and gives what its frames *)
(* do, and what happens on top of it in an interrupt, or between its own    *)
(* frames, does not show.                                                   *)
(****************************************************************************)
EXTENDS BowknotProofs

-----------------------------------------------------------------------------
(* Where the frames come from after a step. *)

\* A step that changes the top frame of t leaves all others in place.
LEMMA FramesAfterBecomes ==
    ASSUME TInv, NEW t \in Task, depth[t] > 0, NEW fr, Becomes(t, fr), depth' = depth,
           NEW u \in Task, NEW d \in 1..depth'[u]
    PROVE  /\ d \in 1..depth[u]
           /\ frame'[u][d] = IF u = t /\ d = depth[t] THEN fr ELSE frame[u][d]
<1>1. /\ depth[u] \in 0..MaxDepth /\ depth[t] \in Level
      /\ frame \in [Task -> [Level -> FrameType]]
  BY TopFits DEF TInv, TypeOK
<1>2. d \in Level
  BY <1>1, BowknotAssumption DEF Level
<1>3. frame' = [frame EXCEPT ![t][depth[t]] = fr]
  BY DEF Becomes
<1> QED BY <1>1, <1>2, <1>3

\* One that puts a frame on the stack of t changes the one below it as well.
LEMMA FramesAfterPush ==
    ASSUME TInv, NEW t \in Task, NEW fr, NEW f, NEW irq, Push(t, fr, f, irq),
           NEW u \in Task, NEW d \in 1..depth'[u]
    PROVE  /\ depth'[t] = depth[t] + 1 /\ (u # t => depth'[u] = depth[u])
           /\ ~(u = t /\ d = depth[t] + 1) => d \in 1..depth[u]
           /\ frame'[u][d] = IF u = t /\ d = depth[t] + 1 THEN NewFrame(f, irq)
                             ELSE IF u = t /\ d = depth[t] THEN fr ELSE frame[u][d]
<1> DEFINE new == NewFrame(f, irq)
<1>1. /\ depth[u] \in 0..MaxDepth /\ depth[t] \in 0..MaxDepth /\ depth[t] < MaxDepth
      /\ frame \in [Task -> [Level -> FrameType]] /\ depth \in [Task -> 0..MaxDepth]
  BY DEF TInv, TypeOK, Push
<1>2. /\ depth' = [depth EXCEPT ![t] = @ + 1]
      /\ frame' = [frame EXCEPT ![t] =
            [e \in Level |-> IF e = depth[t] + 1 THEN new
                             ELSE IF e = depth[t] THEN fr ELSE @[e]]]
  BY DEF Push
<1> HIDE DEF new
<1>3. depth'[t] = depth[t] + 1 /\ (u # t => depth'[u] = depth[u])
  BY <1>1, <1>2
<1>4. d \in Level /\ (~(u = t /\ d = depth[t] + 1) => d \in 1..depth[u])
  BY <1>1, <1>3, BowknotAssumption DEF Level
<1>5. frame'[u][d] = IF u = t /\ d = depth[t] + 1 THEN new
                     ELSE IF u = t /\ d = depth[t] THEN fr ELSE frame[u][d]
  BY <1>1, <1>2, <1>4
<1> QED BY <1>3, <1>4, <1>5 DEF new

\* One that takes the top frame off changes the one that is then the top.
LEMMA FramesAfterPop ==
    ASSUME TInv, NEW t \in Task, depth[t] > 0, NEW fr, Pop(t, fr),
           NEW u \in Task, NEW d \in 1..depth'[u]
    PROVE  /\ depth'[t] = depth[t] - 1 /\ (u # t => depth'[u] = depth[u])
           /\ d \in 1..depth[u]
           /\ u = t => d # depth[t]
           /\ u = t /\ d = depth[t] - 1 => frame[u][d] = Below(t) /\ depth[t] > 1
           /\ frame'[u][d] = IF u = t /\ d = depth[t] - 1 THEN fr ELSE frame[u][d]
<1>1. /\ depth[u] \in 0..MaxDepth /\ depth[t] \in 1..MaxDepth
      /\ frame \in [Task -> [Level -> FrameType]] /\ depth \in [Task -> 0..MaxDepth]
  BY TopFits DEF TInv, TypeOK, Level
<1>2. /\ depth' = [depth EXCEPT ![t] = @ - 1]
      /\ frame' = [frame EXCEPT ![t] =
            [e \in Level |-> IF e = depth[t] THEN NoFrame
                             ELSE IF e = depth[t] - 1 THEN fr ELSE @[e]]]
  BY DEF Pop
<1>3. depth'[t] = depth[t] - 1 /\ (u # t => depth'[u] = depth[u])
  BY <1>1, <1>2
<1>4. /\ d \in Level /\ d \in 1..depth[u] /\ (u = t => d # depth[t])
      /\ u = t /\ d = depth[t] - 1 => depth[t] > 1
  BY <1>1, <1>3, BowknotAssumption DEF Level
<1>5. frame'[u][d] = IF u = t /\ d = depth[t] - 1 THEN fr ELSE frame[u][d]
  BY <1>1, <1>2, <1>4
<1>6. u = t /\ d = depth[t] - 1 => frame[u][d] = Below(t)
  BY <1>1, <1>4 DEF Below
<1> QED BY <1>3, <1>4, <1>5, <1>6

-----------------------------------------------------------------------------
(* Until the first fault. *)

\* No frame is in a cleanup block, or waits for what one calls.
Untouched(fr) == fr.ph \notin {"undo", "ucall", "dying"}

\* A step of t without a fault keeps every frame out of the cleanup blocks.
LEMMA UntouchedStep ==
    ASSUME TInv, FaultFreeUntouched, NEW t \in Task, Enter(t) \/ Step(t) \/ Surprise(t),
           faults' = 0
    PROVE  FaultFreeUntouched'
<1>1. /\ faults \in Nat /\ depth[t] \in Nat
      /\ hf \in [Task -> BOOLEAN]
  BY BowknotAssumption DEF TInv, TypeOK
<1>2. faults = 0 /\ (Enter(t) \/ Step(t) \/ Interrupt(t))
  <2>1. ~Fault(t) /\ ~FaultInCondition(t) /\ ~FaultInReturn(t) /\ ~UndoFault(t)
    <3>1. faults' # faults + 1
      BY <1>1
    <3> QED BY <3>1 DEF Fault, FaultInCondition, FaultInReturn, UndoFault
  <2>2. Enter(t) \/ Interrupt(t) => faults' = faults
    BY DEF Enter, Interrupt
  <2>3. Acquire(t) \/ Release(t) \/ Work(t) \/ Call(t) \/ Branch(t) \/ SkipBlock(t)
           \/ AcquireInCondition(t) \/ Return(t) => faults' = faults
    BY DEF Acquire, Release, Work, Call, Branch, SkipBlock, AcquireInCondition, Return
  <2>4. Pass(t) \/ PassBrace(t) \/ Cleanup(t) \/ CleanupOfClosing(t) \/ UndoOne(t)
           \/ UndoByCall(t) \/ Leave(t) \/ Restart(t) => faults' = faults
    BY DEF Pass, PassBrace, Cleanup, CleanupOfClosing, UndoOne, UndoByCall, Leave, Restart
  <2> QED BY <2>1, <2>2, <2>3, <2>4 DEF Step, Surprise
<1>3. /\ \A u \in Task : ~hf[u]
      /\ \A u \in Task : \A d \in 1..depth[u] : Untouched(frame[u][d])
      /\ depth[t] > 0 => Untouched(Top(t))
      /\ depth[t] > 1 => Untouched(Below(t))
  BY <1>1, <1>2 DEF FaultFreeUntouched, Untouched, Top, Below
<1>4. ~Active(t, "undo") /\ ~Active(t, "dying") /\ ~hgoto(t)
  BY <1>3 DEF Active, Untouched, hgoto
<1>5. /\ ~Cleanup(t) /\ ~CleanupOfClosing(t) /\ ~UndoOne(t) /\ ~UndoByCall(t)
      /\ ~Leave(t) /\ ~Restart(t)
  BY <1>4 DEF Cleanup, CleanupOfClosing, UndoOne, UndoByCall, Undoes, Leave, Restart
<1>6. SUFFICES /\ \A u \in Task : ~hf'[u]
               /\ \A u \in Task : \A d \in 1..depth'[u] : Untouched(frame'[u][d])
  BY DEF FaultFreeUntouched, Untouched
<1>7. depth[t] > 0 => Top(t) \in FrameType
  BY TopFits
<1>8. ASSUME NEW fr, depth[t] > 0, Becomes(t, fr), Untouched(fr), UNCHANGED <<depth, hf>>
      PROVE  /\ \A u \in Task : ~hf'[u]
             /\ \A u \in Task : \A d \in 1..depth'[u] : Untouched(frame'[u][d])
  BY <1>3, <1>8, FramesAfterBecomes
<1>9. ASSUME NEW fr, NEW f, NEW irq, Push(t, fr, f, irq), depth[t] > 0 => Untouched(fr)
      PROVE  \A u \in Task : \A d \in 1..depth'[u] : Untouched(frame'[u][d])
  <2>1. Untouched(NewFrame(f, irq))
    BY DEF NewFrame, NoFrame, Untouched
  <2> SUFFICES ASSUME NEW u \in Task, NEW d \in 1..depth'[u] PROVE Untouched(frame'[u][d])
    OBVIOUS
  <2>2. CASE u = t /\ d = depth[t] + 1
    BY <1>9, <2>1, <2>2, FramesAfterPush
  <2>3. CASE ~(u = t /\ d = depth[t] + 1)
    <3>1. d \in 1..depth[u]
      BY <1>9, <2>3, FramesAfterPush
    <3>2. u = t /\ d = depth[t] => depth[t] > 0
      BY <1>1, <3>1
    <3> QED BY <1>3, <1>9, <2>3, <3>1, <3>2, FramesAfterPush
  <2> QED BY <2>2, <2>3
<1>10. CASE Acquire(t) \/ Release(t) \/ Work(t) \/ Branch(t) \/ SkipBlock(t)
            \/ AcquireInCondition(t) \/ Pass(t) \/ PassBrace(t)
  <2>1. depth[t] > 0 /\ UNCHANGED <<depth, hf>>
    BY <1>10 DEF Acquire, Release, Work, Branch, SkipBlock, AcquireInCondition, Pass,
                 PassBrace, Active
  <2>2. \E fr : Becomes(t, fr) /\ fr.ph \in {"run", "check", "then"}
    <3>1. Top(t) \in FrameType
      BY <1>7, <2>1
    <3> DEFINE got == Got(Top(t), At(t).r)
               missed == Missed(Top(t), At(t).r)
               acquired == [got EXCEPT !.ph = "check"]
               failed == [missed EXCEPT !.ph = "check"]
               released == [Top(t) EXCEPT !.net = Released(Top(t), At(t).r), !.ph = "check"]
               done == [Top(t) EXCEPT !.ph = "check"]
               in == [Top(t) EXCEPT !.ph = "then"]
               on == [Top(t) EXCEPT !.pc = At(t).k]
               past == [got EXCEPT !.pc = At(t).k]
               denied == [missed EXCEPT !.ph = "then"]
               next == [Top(t) EXCEPT !.mask = StampAfter(Top(t).fn, Top(t).pc, @),
                                      !.pc = @ + 1, !.ph = "run"]
               inside == [Top(t) EXCEPT !.mask = StampInThen(Top(t).fn, Top(t).pc, @),
                                        !.pc = @ + 1, !.ph = "run"]
    <3>2. /\ acquired.ph = "check" /\ failed.ph = "check" /\ released.ph = "check"
          /\ done.ph = "check" /\ in.ph = "then" /\ denied.ph = "then"
          /\ on.ph = Top(t).ph /\ past.ph = Top(t).ph
          /\ next.ph = "run" /\ inside.ph = "run"
      BY <3>1 DEF Got, Missed, FrameType
    <3>3. \/ Becomes(t, acquired) \/ Becomes(t, failed) \/ Becomes(t, released)
          \/ Becomes(t, done) \/ Becomes(t, in) \/ Becomes(t, denied)
          \/ Becomes(t, next) \/ Becomes(t, inside)
          \/ Top(t).ph = "run" /\ (Becomes(t, on) \/ Becomes(t, past))
      <4> HIDE DEF next, inside
      <4>1. Pass(t) => Becomes(t, next)
        BY DEF Pass, next
      <4>2. PassBrace(t) => Becomes(t, inside)
        BY DEF PassBrace, inside
      <4> QED BY <1>10, <4>1, <4>2 DEF Acquire, Release, Work, Branch, SkipBlock,
                                       AcquireInCondition, Active
    <3> HIDE DEF acquired, failed, released, done, in, on, past, denied, next, inside
    <3> QED BY <3>2, <3>3
  <2> QED BY <1>8, <2>1, <2>2 DEF Untouched
<1>11. CASE Call(t)
  <2>1. /\ Push(t, [Top(t) EXCEPT !.ph = "call"], At(t).f, Top(t).irq) /\ hf' = hf
        /\ depth[t] > 0
    BY <1>11 DEF Call, Active
  <2>2. Untouched([Top(t) EXCEPT !.ph = "call"])
    BY <1>7, <2>1 DEF Untouched, FrameType
  <2> QED BY <1>3, <1>9, <2>1, <2>2
<1>12. CASE Enter(t)
  <2>1. PICK f \in Entry : Push(t, NoFrame, f, FALSE)
    BY <1>12 DEF Enter
  <2>2. ~(depth[t] > 0) /\ \A u \in Task : ~hf'[u]
    BY <1>1, <1>3, <1>12 DEF Enter
  <2> QED BY <1>9, <2>1, <2>2
<1>13. CASE Interrupt(t)
  <2>1. PICK f \in IrqEntry : Push(t, IF depth[t] = 0 THEN NoFrame ELSE Top(t), f, TRUE)
    BY <1>13 DEF Interrupt
  <2>2. hf' = hf /\ (depth[t] > 0 => (IF depth[t] = 0 THEN NoFrame ELSE Top(t)) = Top(t))
    BY <1>13 DEF Interrupt
  <2> QED BY <1>3, <1>9, <2>1, <2>2
<1>14. CASE Return(t)
  <2>1. depth[t] > 0 /\ hf' = hf
    BY <1>14 DEF Return, Active
  <2>2. PICK fr : Pop(t, fr) /\ (depth[t] > 1 => Untouched(fr))
    <3> DEFINE back == [Resumed(Below(t)) EXCEPT
                            !.net = Plus(Below(t).net, Top(t).net),
                            !.null = Outcome(Below(t), At(t).k = 1)]
    <3>1. CASE Below(t).ph \in {"call", "ucall"}
      <4>1. Pop(t, back)
        BY <1>14, <3>1 DEF Return
      <4>2. depth[t] > 1 => back.ph = "check"
        <5>1. depth[t] > 1 => Resumed(Below(t)) = [Below(t) EXCEPT !.ph = "check"]
          BY <1>3, <3>1 DEF Untouched, Resumed
        <5>2. Below(t) \in FrameType
          BY <2>1, BelowFits
        <5> QED BY <5>1, <5>2 DEF FrameType
      <4> HIDE DEF back
      <4> QED BY <4>1, <4>2 DEF Untouched
    <3>2. CASE Below(t).ph \notin {"call", "ucall"}
      <4>1. Pop(t, Below(t))
        BY <1>14, <3>2 DEF Return
      <4> QED BY <1>3, <4>1
    <3> QED BY <3>1, <3>2
  <2>3. ASSUME NEW u \in Task, NEW d \in 1..depth'[u]
        PROVE  Untouched(frame'[u][d])
    BY <1>3, <2>1, <2>2, FramesAfterPop
  <2> QED BY <1>3, <2>1, <2>3
<1> QED BY <1>2, <1>5, <1>10, <1>11, <1>12, <1>13, <1>14 DEF Step

\* create_cleanup_macros and generate_cleanup_str: in any program, as long as
\* there was no fault, hf is down and no cleanup block is entered.
THEOREM UntouchedCorrect == Spec => []FaultFreeUntouched
<1>1. Init => FaultFreeUntouched
  <2> SUFFICES ASSUME Init PROVE FaultFreeUntouched
    OBVIOUS
  <2>1. \A t \in Task : 1..depth[t] = {}
    BY DEF Init
  <2> QED BY <2>1 DEF Init, FaultFreeUntouched
<1>2. TInv /\ FaultFreeUntouched /\ [Next]_vars => FaultFreeUntouched'
  <2>1. CASE UNCHANGED vars
    BY <2>1 DEF vars, FaultFreeUntouched
  <2>2. ASSUME TInv, FaultFreeUntouched, Next PROVE FaultFreeUntouched'
    <3>1. PICK t \in Task : Enter(t) \/ Step(t) \/ Surprise(t)
      BY <2>2 DEF Next
    <3>2. CASE faults' = 0
      BY <2>2, <3>1, <3>2, UntouchedStep
    <3>3. CASE faults' # 0
      BY <3>3 DEF FaultFreeUntouched
    <3> QED BY <3>2, <3>3
  <2> QED BY <2>1, <2>2
<1> QED BY <1>1, <1>2, PlacedCorrect, PTL DEF Spec

-----------------------------------------------------------------------------
(* A bit is set for a reason: the stacks. *)

\* What is known of a frame that waits, or of an interrupt's, does not depend
\* on hf.
LEMMA WaitingExplained ==
    ASSUME NEW fr, NEW h, NEW g, fr.irq \/ fr.ph \in {"call", "ucall"}, Explained(fr, h)
    PROVE  Explained(fr, g)
BY DEF Explained, Effective, SetForReasons, Behind

\* A frame under the top one is as EveryInv says, also when hf changes under it.
LEMMA LowerExplained ==
    ASSUME EveryInv, NEW t \in Task, NEW d \in 1..depth[t], d # depth[t],
           NEW h, h = hf[t] \/ ~Top(t).irq
    PROVE  Explained(frame[t][d], h)
<1>1. /\ depth[t] \in 0..MaxDepth /\ MaxDepth \in Nat
      /\ Explained(frame[t][d], hf[t])
  BY BowknotAssumption DEF EveryInv, TInv, TypeOK
<1>2. depth[t] \in Nat /\ d + 1 \in 1..depth[t] /\ depth[t] \in 1..depth[t]
  BY <1>1
<1>3. CASE ~Top(t).irq
  <2>1. ~frame[t][d].irq /\ ~frame[t][d + 1].irq
    BY <1>2, <1>3 DEF EveryInv, Top
  <2>2. frame[t][d].ph \in {"call", "ucall"}
    BY <2>1 DEF EveryInv, Stacked
  <2> QED BY <1>1, <2>2, WaitingExplained
<1> QED BY <1>1, <1>3

\* What EveryInv says of the frame that runs.
LEMMA TopExplained ==
    ASSUME EveryInv, NEW t \in Task, depth[t] > 0
    PROVE  /\ Top(t) \in FrameType /\ Placed(Top(t)) /\ Explained(Top(t), hf[t])
           /\ Top(t).ph \notin {"call", "ucall"}
           /\ Top(t).fn \in Func /\ Top(t).pc \in DOMAIN Body[Top(t).fn]
<1>1. depth[t] \in 1..depth[t]
  BY BowknotAssumption DEF EveryInv, TInv, TypeOK
<1> QED BY <1>1, TopFits DEF EveryInv, Top, Stacked

\* And of the frame under it.
LEMMA BelowExplained ==
    ASSUME EveryInv, NEW t \in Task, depth[t] > 1
    PROVE  /\ Below(t) \in FrameType /\ Placed(Below(t)) /\ Explained(Below(t), hf[t])
           /\ Below(t).irq => Top(t).irq
           /\ Below(t).ph \in {"call", "ucall"} <=> (Below(t).irq <=> Top(t).irq)
<1> DEFINE d == depth[t] - 1
<1>1. depth[t] \in 0..MaxDepth /\ MaxDepth \in Nat
  BY BowknotAssumption DEF EveryInv, TInv, TypeOK
<1>2. /\ d \in 1..depth[t] /\ depth[t] \in 1..depth[t] /\ d <= depth[t] /\ d # depth[t]
      /\ d + 1 = depth[t] /\ depth[t] # 1 /\ depth[t] > 0
  BY <1>1
<1>3. Below(t) = frame[t][d] /\ Top(t) = frame[t][depth[t]]
  BY <1>2 DEF Below, Top
<1> HIDE DEF d
<1>4. /\ Explained(frame[t][d], hf[t]) /\ Stacked(t, d)
      /\ frame[t][d].irq => frame[t][depth[t]].irq
  BY <1>2 DEF EveryInv
<1>5. Below(t) \in FrameType /\ Placed(Below(t))
  BY <1>2, BelowFits DEF EveryInv
<1> QED BY <1>2, <1>3, <1>4, <1>5 DEF Stacked

\* A step that changes the top frame of t.
LEMMA BecomesExplained ==
    ASSUME EveryInv, TInv', NEW t \in Task, depth[t] > 0, depth' = depth,
           NEW fr, Becomes(t, fr), fr.irq = Top(t).irq,
           fr.ph \notin {"call", "ucall"}, Explained(fr, hf'[t]),
           hf'[t] = hf[t] \/ ~Top(t).irq, \A u \in Task \ {t} : hf'[u] = hf[u]
    PROVE  EveryInv'
<1>1. ASSUME NEW u \in Task, NEW d \in 1..depth'[u]
      PROVE  /\ d \in 1..depth[u] /\ depth'[u] = depth[u]
             /\ frame'[u][d] = IF u = t /\ d = depth[t] THEN fr ELSE frame[u][d]
             /\ frame'[u][d].irq = frame[u][d].irq
  BY FramesAfterBecomes DEF EveryInv, Top
<1>2. ASSUME NEW u \in Task, NEW d \in 1..depth'[u], NEW e \in 1..depth'[u],
             d <= e, frame'[u][d].irq
      PROVE  frame'[u][e].irq
  BY <1>1, <1>2 DEF EveryInv
<1>3. ASSUME NEW u \in Task, NEW d \in 1..depth'[u]
      PROVE  Explained(frame'[u][d], hf'[u])
  <2>1. CASE u = t
    BY <1>1, <2>1, LowerExplained
  <2>2. CASE u # t
    BY <1>1, <2>2 DEF EveryInv
  <2> QED BY <2>1, <2>2
<1>4. ASSUME NEW u \in Task, NEW d \in 1..depth'[u]
      PROVE  Stacked(u, d)'
  <2>1. CASE d = depth[u]
    BY <1>1, <2>1 DEF EveryInv, Stacked
  <2>2. CASE d # depth[u]
    <3>1. d + 1 \in 1..depth'[u]
      <4>1. depth[u] \in Nat
        BY DEF EveryInv, TInv, TypeOK
      <4> QED BY <1>1, <2>2, <4>1
    <3>2. frame'[u][d] = frame[u][d] /\ frame'[u][d + 1].irq = frame[u][d + 1].irq
      BY <1>1, <2>2, <3>1
    <3> QED BY <1>1, <2>2, <3>2 DEF EveryInv, Stacked
  <2> QED BY <2>1, <2>2
<1> QED BY <1>2, <1>3, <1>4 DEF EveryInv

\* A step that puts a frame on the stack of t.
LEMMA PushExplained ==
    ASSUME EveryInv, TInv', NEW t \in Task, NEW fr, NEW f, NEW irq \in BOOLEAN,
           Push(t, fr, f, irq),
           depth[t] > 0 =>
              /\ fr.irq = Top(t).irq /\ Explained(fr, hf'[t])
              /\ fr.irq => irq
              /\ fr.ph \in {"call", "ucall"} <=> (fr.irq <=> irq),
           hf'[t] = hf[t] \/ depth[t] = 0, \A u \in Task \ {t} : hf'[u] = hf[u]
    PROVE  EveryInv'
<1> DEFINE new == NewFrame(f, irq)
<1>1. Explained(new, hf'[t]) /\ new.irq = irq /\ new.ph = "run"
  <2>1. new.ph = "run" /\ new.mask = {} /\ new.irq = irq
    BY DEF NewFrame, NoFrame
  <2> HIDE DEF new
  <2> QED BY <2>1 DEF Explained, SetForReasons, hecaton_check_bit
<1> HIDE DEF new
<1>2. ASSUME NEW u \in Task, NEW d \in 1..depth'[u]
      PROVE  /\ depth'[t] = depth[t] + 1 /\ (u # t => depth'[u] = depth[u])
             /\ ~(u = t /\ d = depth[t] + 1) => d \in 1..depth[u]
             /\ frame'[u][d] = IF u = t /\ d = depth[t] + 1 THEN new
                               ELSE IF u = t /\ d = depth[t] THEN fr ELSE frame[u][d]
             /\ ~(u = t /\ d = depth[t] + 1) => frame'[u][d].irq = frame[u][d].irq
             /\ depth[u] \in Nat /\ depth'[u] \in Nat
  <2>1. depth[u] \in Nat /\ depth'[u] \in Nat
    BY DEF EveryInv, TInv, TypeOK
  <2>2. /\ depth'[t] = depth[t] + 1 /\ (u # t => depth'[u] = depth[u])
        /\ ~(u = t /\ d = depth[t] + 1) => d \in 1..depth[u]
        /\ frame'[u][d] = IF u = t /\ d = depth[t] + 1 THEN new
                          ELSE IF u = t /\ d = depth[t] THEN fr ELSE frame[u][d]
    BY FramesAfterPush DEF EveryInv, new
  <2>3. ASSUME ~(u = t /\ d = depth[t] + 1)
        PROVE  frame'[u][d].irq = frame[u][d].irq
    <3>1. u = t => depth[t] > 0
      BY <2>1, <2>2, <2>3
    <3> QED BY <2>2, <2>3, <3>1 DEF Top
  <2> QED BY <2>1, <2>2, <2>3
<1>3. ASSUME NEW u \in Task, NEW d \in 1..depth'[u], NEW e \in 1..depth'[u],
             d <= e, frame'[u][d].irq
      PROVE  frame'[u][e].irq
  <2>1. CASE u = t /\ e = depth[t] + 1
    <3>1. CASE d = depth[t] + 1
      BY <1>3, <2>1, <3>1
    <3>2. CASE d # depth[t] + 1
      <4>1. d \in 1..depth[t] /\ depth[t] \in 1..depth[t] /\ d <= depth[t]
            /\ frame[t][d].irq /\ depth[t] > 0
        BY <1>2, <1>3, <2>1, <3>2
      <4>2. Top(t).irq
        BY <4>1 DEF EveryInv, Top
      <4>3. new.irq
        BY <1>1, <4>1, <4>2
      <4>4. frame'[u][e] = new
        BY <1>2, <2>1
      <4> QED BY <4>3, <4>4
    <3> QED BY <3>1, <3>2
  <2>2. CASE ~(u = t /\ e = depth[t] + 1)
    <3>1. e \in 1..depth[u] /\ ~(u = t /\ d = depth[t] + 1)
      BY <1>2, <1>3, <2>2
    <3>2. d \in 1..depth[u] /\ frame[u][d].irq
      BY <1>2, <1>3, <3>1
    <3> QED BY <1>2, <1>3, <2>2, <3>1, <3>2 DEF EveryInv
  <2> QED BY <2>1, <2>2
<1>4. ASSUME NEW u \in Task, NEW d \in 1..depth'[u]
      PROVE  Explained(frame'[u][d], hf'[u])
  <2>1. CASE u = t /\ d = depth[t] + 1
    BY <1>1, <1>2, <2>1
  <2>2. CASE u = t /\ d # depth[t] + 1
    <3>1. d \in 1..depth[t] /\ depth[t] > 0 /\ depth[t] # 0
      BY <1>2, <2>2
    <3>2. frame'[u][d] = (IF d = depth[t] THEN fr ELSE frame[t][d]) /\ hf'[u] = hf'[t]
      BY <1>2, <2>2
    <3>3. d # depth[t] => Explained(frame[t][d], hf'[t])
      BY <3>1, LowerExplained
    <3>4. d = depth[t] => Explained(fr, hf'[t])
      BY <1>1, <3>1
    <3> QED BY <3>2, <3>3, <3>4
  <2>3. CASE u # t
    BY <1>2, <2>3 DEF EveryInv
  <2> QED BY <2>1, <2>2, <2>3
<1>5. ASSUME NEW u \in Task, NEW d \in 1..depth'[u]
      PROVE  Stacked(u, d)'
  <2>1. CASE u = t /\ d = depth[t] + 1
    BY <1>1, <1>2, <2>1 DEF Stacked
  <2>2. CASE u = t /\ d = depth[t]
    <3>1. depth[t] > 0 /\ d + 1 \in 1..depth'[t] /\ d # depth'[t] /\ d # depth[t] + 1
      BY <1>2, <2>2
    <3>2. frame'[t][d] = fr /\ frame'[t][d + 1] = new
      BY <1>2, <2>2, <3>1
    <3> QED BY <1>1, <2>2, <3>1, <3>2 DEF Stacked
  <2>3. CASE ~(u = t /\ d = depth[t] + 1) /\ ~(u = t /\ d = depth[t])
    <3>1. /\ d \in 1..depth[u] /\ frame'[u][d] = frame[u][d]
          /\ d = depth'[u] <=> d = depth[u]
      BY <1>2, <2>3
    <3>2. CASE d = depth[u]
      BY <3>1, <3>2 DEF EveryInv, Stacked
    <3>3. CASE d # depth[u]
      <4>1. d + 1 \in 1..depth'[u] /\ ~(u = t /\ d + 1 = depth[t] + 1)
        BY <1>2, <2>3, <3>1, <3>3
      <4>2. frame'[u][d + 1].irq = frame[u][d + 1].irq
        BY <1>2, <4>1
      <4> QED BY <3>1, <3>3, <4>2 DEF EveryInv, Stacked
    <3> QED BY <3>2, <3>3
  <2> QED BY <2>1, <2>2, <2>3
<1> QED BY <1>3, <1>4, <1>5 DEF EveryInv

\* A step that takes the top frame off the stack of t.
LEMMA PopExplained ==
    ASSUME EveryInv, TInv', NEW t \in Task, depth[t] > 0, NEW fr, Pop(t, fr),
           depth[t] > 1 =>
              /\ fr.irq = Below(t).irq
              /\ fr.ph \notin {"call", "ucall"} /\ Explained(fr, hf'[t]),
           hf'[t] = hf[t] \/ ~Top(t).irq, \A u \in Task \ {t} : hf'[u] = hf[u]
    PROVE  EveryInv'
<1>1. ASSUME NEW u \in Task, NEW d \in 1..depth'[u]
      PROVE  /\ depth'[t] = depth[t] - 1 /\ (u # t => depth'[u] = depth[u])
             /\ d \in 1..depth[u]
             /\ u = t => d # depth[t]
             /\ u = t /\ d = depth[t] - 1 => depth[t] > 1
             /\ frame'[u][d] = IF u = t /\ d = depth[t] - 1 THEN fr ELSE frame[u][d]
             /\ frame'[u][d].irq = frame[u][d].irq
             /\ depth[u] \in Nat /\ depth'[u] \in Nat
  <2>1. depth[u] \in Nat /\ depth'[u] \in Nat
    BY DEF EveryInv, TInv, TypeOK
  <2> QED BY <2>1, FramesAfterPop DEF EveryInv
<1>2. ASSUME NEW u \in Task, NEW d \in 1..depth'[u], NEW e \in 1..depth'[u],
             d <= e, frame'[u][d].irq
      PROVE  frame'[u][e].irq
  BY <1>1, <1>2 DEF EveryInv
<1>3. ASSUME NEW u \in Task, NEW d \in 1..depth'[u]
      PROVE  Explained(frame'[u][d], hf'[u])
  <2>1. CASE u = t
    BY <1>1, <2>1, LowerExplained
  <2>2. CASE u # t
    BY <1>1, <2>2 DEF EveryInv
  <2> QED BY <2>1, <2>2
<1>4. ASSUME NEW u \in Task, NEW d \in 1..depth'[u]
      PROVE  Stacked(u, d)'
  <2>1. CASE u = t /\ d = depth[t] - 1
    BY <1>1, <2>1 DEF Stacked
  <2>2. CASE ~(u = t /\ d = depth[t] - 1)
    <3>1. frame'[u][d] = frame[u][d] /\ (d = depth'[u] <=> d = depth[u])
      BY <1>1, <2>2
    <3>2. CASE d = depth[u]
      BY <1>1, <3>1, <3>2 DEF EveryInv, Stacked
    <3>3. CASE d # depth[u]
      <4>1. d + 1 \in 1..depth'[u]
        BY <1>1, <3>1, <3>3
      <4>2. frame'[u][d + 1].irq = frame[u][d + 1].irq
        BY <1>1, <4>1
      <4> QED BY <1>1, <3>1, <3>3, <4>2 DEF EveryInv, Stacked
    <3> QED BY <3>2, <3>3
  <2> QED BY <2>1, <2>2
<1> QED BY <1>2, <1>3, <1>4 DEF EveryInv

-----------------------------------------------------------------------------
(* A bit is set for a reason: the actions. *)

HasReason(fr, r) == fr.net[r] = 1 \/ r \in fr.null \/ Behind(fr, r)

\* While the mask stays as it is, the reasons have only to last.
LEMMA ReasonsLast ==
    ASSUME NEW fr, NEW new, SetForReasons(fr), fr.fn \in Func,
           new.fn = fr.fn, new.mask = fr.mask,
           \A r \in Res : HasReason(fr, r) => HasReason(new, r)
    PROVE  SetForReasons(new)
<1>1. Undo[fr.fn] \subseteq Res
  BY DEF Undo
<1> QED BY <1>1 DEF SetForReasons, HasReason

\* An acquisition, made or failed, in a statement or in a condition.
LEMMA AcquireExplained ==
    ASSUME EveryInv, TInv', NEW t \in Task, Acquire(t) \/ AcquireInCondition(t)
    PROVE  EveryInv'
<1> DEFINE r == At(t).r
           g == Got(Top(t), r)
           m == Missed(Top(t), r)
<1>1. /\ depth[t] > 0 /\ Top(t).ph = "run" /\ At(t).op \in {"acq", "cond"}
      /\ depth' = depth /\ hf' = hf
      /\ \/ Becomes(t, [g EXCEPT !.ph = "check"]) \/ Becomes(t, [m EXCEPT !.ph = "check"])
         \/ Becomes(t, [g EXCEPT !.pc = At(t).k])
         \/ Becomes(t, [m EXCEPT !.ph = "then"])
  BY DEF Acquire, AcquireInCondition, Active
<1>2. /\ Top(t) \in FrameType /\ Explained(Top(t), hf[t])
      /\ Top(t).fn \in Func /\ Top(t).pc \in DOMAIN Body[Top(t).fn]
  BY <1>1, TopExplained
<1>3. r \in Res /\ At(t) = Body[Top(t).fn][Top(t).pc] /\ SetForReasons(Top(t))
  BY <1>1, <1>2, Statements DEF At, Explained
<1>4. /\ g \in FrameType /\ g.net = [Top(t).net EXCEPT ![r] = 1] /\ g.null = Top(t).null \ {r}
      /\ g.fn = Top(t).fn /\ g.pc = Top(t).pc /\ g.ph = "run" /\ g.mask = Top(t).mask
      /\ g.irq = Top(t).irq
      /\ m \in FrameType /\ m.net = Top(t).net /\ m.null = Top(t).null \cup {r}
      /\ m.fn = Top(t).fn /\ m.pc = Top(t).pc /\ m.ph = "run" /\ m.mask = Top(t).mask
      /\ m.irq = Top(t).irq
  BY <1>1, <1>2, <1>3, GotFits, MissedFits
<1>5. Top(t).net \in [Res -> Int] /\ \A s \in Res : ~Behind(Top(t), s)
  BY <1>1, <1>2 DEF FrameType, Behind
<1> HIDE DEF g, m, r
<1>6. ASSUME NEW fr, fr.net[r] = 1 \/ r \in fr.null,
             \A s \in Res \ {r} : fr.net[s] = Top(t).net[s] /\ (s \in Top(t).null => s \in fr.null),
             fr.fn = Top(t).fn, fr.mask = Top(t).mask, fr.irq = Top(t).irq,
             \/ fr.ph \in {"check", "then"} /\ fr.pc = Top(t).pc
             \/ fr.ph = "run",
             Becomes(t, fr)
      PROVE  EveryInv'
  <2>2. ASSUME NEW s \in Res, HasReason(Top(t), s) PROVE HasReason(fr, s)
    BY <1>5, <1>6, <2>2 DEF HasReason
  <2>3. SetForReasons(fr)
    BY <1>2, <1>3, <1>6, <2>2, ReasonsLast
  <2>4. fr.ph \in {"check", "then"} => Calling(fr) = At(t)
    BY <1>3, <1>6 DEF Calling
  <2>5. Explained(fr, hf'[t])
    BY <1>6, <2>3, <2>4 DEF Explained, Effective, r
  <2> QED BY <1>1, <1>6, <2>5, BecomesExplained
<1> DEFINE acquired == [g EXCEPT !.ph = "check"]
           failed == [m EXCEPT !.ph = "check"]
           past == [g EXCEPT !.pc = At(t).k]
           denied == [m EXCEPT !.ph = "then"]
<1>7. /\ acquired.net = g.net /\ acquired.null = g.null /\ acquired.fn = Top(t).fn
      /\ acquired.mask = Top(t).mask /\ acquired.irq = Top(t).irq /\ acquired.ph = "check"
      /\ acquired.pc = Top(t).pc
  BY <1>4 DEF FrameType
<1>8. /\ failed.net = m.net /\ failed.null = m.null /\ failed.fn = Top(t).fn
      /\ failed.mask = Top(t).mask /\ failed.irq = Top(t).irq /\ failed.ph = "check"
      /\ failed.pc = Top(t).pc
  BY <1>4 DEF FrameType
<1>9. /\ past.net = g.net /\ past.null = g.null /\ past.fn = Top(t).fn
      /\ past.mask = Top(t).mask /\ past.irq = Top(t).irq /\ past.ph = "run"
  BY <1>4 DEF FrameType
<1>10. /\ denied.net = m.net /\ denied.null = m.null /\ denied.fn = Top(t).fn
       /\ denied.mask = Top(t).mask /\ denied.irq = Top(t).irq /\ denied.ph = "then"
       /\ denied.pc = Top(t).pc
  BY <1>4 DEF FrameType
<1>11. Becomes(t, acquired) \/ Becomes(t, failed) \/ Becomes(t, past) \/ Becomes(t, denied)
  BY <1>1 DEF g, m, r
<1> HIDE DEF acquired, failed, past, denied
<1>12. /\ g.net[r] = 1
       /\ \A s \in Res \ {r} : g.net[s] = Top(t).net[s] /\ (s \in Top(t).null => s \in g.null)
       /\ r \in m.null
       /\ \A s \in Res \ {r} : m.net[s] = Top(t).net[s] /\ (s \in Top(t).null => s \in m.null)
  BY <1>3, <1>4, <1>5
<1>13. CASE Becomes(t, acquired)
  BY <1>6, <1>7, <1>12, <1>13
<1>14. CASE Becomes(t, failed)
  BY <1>6, <1>8, <1>12, <1>14
<1>15. CASE Becomes(t, past)
  BY <1>6, <1>9, <1>12, <1>15
<1>16. CASE Becomes(t, denied)
  BY <1>6, <1>10, <1>12, <1>16
<1> QED BY <1>11, <1>13, <1>14, <1>15, <1>16

\* A release: the frame is behind it, with its bit still set.
LEMMA ReleaseExplained ==
    ASSUME EveryInv, TInv', NEW t \in Task, Release(t)
    PROVE  EveryInv'
<1> DEFINE r == At(t).r
           n == Released(Top(t), r)
           fr == [Top(t) EXCEPT !.net = n, !.ph = "check"]
<1>1. /\ depth[t] > 0 /\ Top(t).ph = "run" /\ At(t).op = "rel"
      /\ depth' = depth /\ hf' = hf /\ Becomes(t, fr)
  BY DEF Release, Active
<1>2. /\ Top(t) \in FrameType /\ Explained(Top(t), hf[t])
      /\ Top(t).fn \in Func /\ Top(t).pc \in DOMAIN Body[Top(t).fn]
  BY <1>1, TopExplained
<1>3. r \in Res /\ At(t) = Body[Top(t).fn][Top(t).pc] /\ SetForReasons(Top(t))
  BY <1>1, <1>2, Statements DEF At, Explained
<1>4. /\ Top(t).net \in [Res -> Int] /\ (\A s \in Res : ~Behind(Top(t), s))
      /\ \A s \in Res : s # r => n[s] = Top(t).net[s]
  BY <1>1, <1>2, <1>3 DEF FrameType, Behind, Released
<1> HIDE DEF n
<1>5. /\ fr.net = n /\ fr.null = Top(t).null /\ fr.fn = Top(t).fn /\ fr.pc = Top(t).pc
      /\ fr.mask = Top(t).mask /\ fr.irq = Top(t).irq /\ fr.ph = "check"
  BY <1>2 DEF FrameType
<1> HIDE DEF fr
<1>6. Calling(fr) = At(t) /\ Behind(fr, r)
  BY <1>1, <1>3, <1>5 DEF Calling, Behind
<1> HIDE DEF r
<1>7. ASSUME NEW s \in Res, HasReason(Top(t), s) PROVE HasReason(fr, s)
  BY <1>4, <1>5, <1>6, <1>7 DEF HasReason
<1>8. SetForReasons(fr)
  BY <1>2, <1>3, <1>5, <1>7, ReasonsLast
<1>9. Explained(fr, hf'[t])
  BY <1>1, <1>5, <1>6, <1>8 DEF Explained, Effective
<1> QED BY <1>1, <1>5, <1>9, BecomesExplained

\* Statements and faults that leave accounts and mask alone.
LEMMA PlainExplained ==
    ASSUME EveryInv, TInv', NEW t \in Task,
           Work(t) \/ Branch(t) \/ SkipBlock(t) \/ Fault(t) \/ FaultInCondition(t)
    PROVE  EveryInv'
<1> DEFINE done == [Top(t) EXCEPT !.ph = "check"]
           in == [Top(t) EXCEPT !.ph = "then"]
           on == [Top(t) EXCEPT !.pc = At(t).k]
<1>1. /\ depth[t] > 0 /\ Top(t).ph = "run" /\ depth' = depth
      /\ \/ Becomes(t, done) /\ (At(t).op \notin {"acq", "cond"} \/ (~Top(t).irq /\ hf'[t]))
         \/ Becomes(t, in) /\ (At(t).op \notin {"acq", "cond"} \/ (~Top(t).irq /\ hf'[t]))
         \/ Becomes(t, on)
      /\ hf' = hf \/ (~Top(t).irq /\ hf' = [hf EXCEPT ![t] = TRUE])
  <2>1. hf \in [Task -> BOOLEAN]
    BY DEF EveryInv, TInv, TypeOK
  <2>2. CASE Work(t) \/ Branch(t) \/ SkipBlock(t)
    BY <2>2 DEF Work, Branch, SkipBlock, Active
  <2>3. CASE Fault(t) \/ FaultInCondition(t)
    <3>1. depth[t] > 0 /\ ~Top(t).irq /\ hf' = [hf EXCEPT ![t] = TRUE] /\ depth' = depth
          /\ Top(t).ph = "run"
      BY <2>3 DEF Fault, FaultInCondition, Active, InIrq
    <3>2. hf'[t]
      BY <2>1, <3>1
    <3> QED BY <2>3, <3>1, <3>2 DEF Fault, FaultInCondition
  <2> QED BY <2>2, <2>3
<1>2. /\ Top(t) \in FrameType /\ Explained(Top(t), hf[t]) /\ hf \in [Task -> BOOLEAN]
      /\ Top(t).fn \in Func /\ Top(t).pc \in DOMAIN Body[Top(t).fn]
  BY <1>1, TopExplained DEF EveryInv, TInv, TypeOK
<1>3. SetForReasons(Top(t)) /\ \A s \in Res : ~Behind(Top(t), s)
  BY <1>1, <1>2 DEF Explained, Behind
<1>4. hf'[t] = hf[t] \/ ~Top(t).irq
  BY <1>1
<1>5. \A u \in Task \ {t} : hf'[u] = hf[u]
  BY <1>1, <1>2
<1>6. ASSUME NEW fr, fr.net = Top(t).net, fr.null = Top(t).null, fr.fn = Top(t).fn,
             fr.mask = Top(t).mask, fr.irq = Top(t).irq, fr.ph \in {"run", "check", "then"},
             Effective(fr, hf'[t]) \/ fr.ph = "run", Becomes(t, fr)
      PROVE  EveryInv'
  <2>1. ASSUME NEW s \in Res, HasReason(Top(t), s) PROVE HasReason(fr, s)
    BY <1>3, <1>6, <2>1 DEF HasReason
  <2>2. SetForReasons(fr)
    BY <1>2, <1>3, <1>6, <2>1, ReasonsLast
  <2>3. Explained(fr, hf'[t])
    BY <1>6, <2>2 DEF Explained
  <2> QED BY <1>1, <1>4, <1>5, <1>6, <2>3, BecomesExplained
<1>7. /\ done.net = Top(t).net /\ done.null = Top(t).null /\ done.fn = Top(t).fn
      /\ done.mask = Top(t).mask /\ done.irq = Top(t).irq /\ done.ph = "check"
      /\ done.pc = Top(t).pc
  BY <1>2 DEF FrameType
<1>8. /\ in.net = Top(t).net /\ in.null = Top(t).null /\ in.fn = Top(t).fn
      /\ in.mask = Top(t).mask /\ in.irq = Top(t).irq /\ in.ph = "then"
      /\ in.pc = Top(t).pc
  BY <1>2 DEF FrameType
<1>9. /\ on.net = Top(t).net /\ on.null = Top(t).null /\ on.fn = Top(t).fn
      /\ on.mask = Top(t).mask /\ on.irq = Top(t).irq /\ on.ph = "run"
  BY <1>1, <1>2 DEF FrameType
<1> HIDE DEF done, in, on
<1>10. CASE Becomes(t, done) /\ (At(t).op \notin {"acq", "cond"} \/ (~Top(t).irq /\ hf'[t]))
  <2>1. Effective(done, hf'[t])
    BY <1>7, <1>10 DEF Effective, Calling, At
  <2> QED BY <1>6, <1>7, <1>10, <2>1
<1>11. CASE Becomes(t, in) /\ (At(t).op \notin {"acq", "cond"} \/ (~Top(t).irq /\ hf'[t]))
  <2>1. Effective(in, hf'[t])
    BY <1>8, <1>11 DEF Effective, Calling, At
  <2> QED BY <1>6, <1>8, <1>11, <2>1
<1>12. CASE Becomes(t, on)
  BY <1>6, <1>9, <1>12
<1> QED BY <1>1, <1>10, <1>11, <1>12

\* An hgoto that does not jump, with the stamps behind it: a bit is set only
\* for what was acquired or failed to be, and is cleared behind a release.
LEMMA PassExplained ==
    ASSUME EveryInv, TInv', NEW t \in Task, Pass(t) \/ PassBrace(t)
    PROVE  EveryInv'
<1> DEFINE f == Top(t).fn
           p == Top(t).pc
           mask == IF Top(t).ph = "check" THEN StampAfter(f, p, Top(t).mask)
                   ELSE StampInThen(f, p, Top(t).mask)
           fr == [Top(t) EXCEPT !.mask = mask, !.pc = p + 1, !.ph = "run"]
<1>1. /\ depth[t] > 0 /\ depth' = depth /\ hf' = hf /\ Becomes(t, fr)
      /\ Top(t).ph \in {"check", "then"} /\ ~hgoto(t)
  BY DEF Pass, PassBrace, Active
<1>2. /\ Top(t) \in FrameType /\ Explained(Top(t), hf[t]) /\ Placed(Top(t))
      /\ f \in Func /\ p \in DOMAIN Body[f]
  BY <1>1, TopExplained
<1>3. /\ fr.net = Top(t).net /\ fr.null = Top(t).null /\ fr.fn = f /\ fr.mask = mask
      /\ fr.irq = Top(t).irq /\ fr.ph = "run"
  BY <1>2 DEF FrameType
<1>4. SetForReasons(Top(t)) /\ Effective(Top(t), hf[t]) /\ ~(hf[t] /\ ~Top(t).irq)
  BY <1>1, <1>2 DEF Explained, hgoto, InIrq
<1> HIDE DEF fr, f, p, mask
<1>5. ASSUME NEW s \in Undo[f] \cap Outer, hecaton_check_bit(mask, pairmask_id[f][s])
      PROVE  fr.net[s] = 1 \/ s \in fr.null
  <2>1. /\ hecaton_check_bit(Top(t).mask, pairmask_id[f][s]) => HasReason(Top(t), s)
        /\ Calling(Top(t)) = Body[f][p]
    BY <1>4 DEF SetForReasons, HasReason, f, Calling, p
  <2>2. CASE Top(t).ph = "check"
    <3>1. mask = StampAfter(f, p, Top(t).mask)
      BY <2>2 DEF mask
    <3>2. Body[f][p].op \in {"acq", "rel", "work"}
      BY <1>2, <2>1, <2>2 DEF Placed
    <3>3. CASE Body[f][p].op = "acq"
      <4>1. hecaton_check_bit(Top(t).mask, pairmask_id[f][s]) \/ s = Body[f][p].r
        BY <1>2, <1>5, <3>1, <3>3, StampChecks
      <4> QED BY <1>3, <1>4, <2>1, <3>3, <4>1 DEF HasReason, Behind, Effective
    <3>4. CASE Body[f][p].op = "rel"
      <4>1. hecaton_check_bit(Top(t).mask, pairmask_id[f][s]) /\ s # Body[f][p].r
        BY <1>2, <1>5, <3>1, <3>4, StampChecks
      <4> QED BY <1>3, <2>1, <4>1 DEF HasReason, Behind
    <3>5. CASE Body[f][p].op = "work"
      <4>1. hecaton_check_bit(Top(t).mask, pairmask_id[f][s])
        BY <1>2, <1>5, <3>1, <3>5, StampChecks
      <4> QED BY <1>3, <2>1, <3>5, <4>1 DEF HasReason, Behind
    <3> QED BY <3>2, <3>3, <3>4, <3>5
  <2>3. CASE Top(t).ph = "then"
    <3>1. mask = StampInThen(f, p, Top(t).mask)
      BY <2>3 DEF mask
    <3>2. ~Behind(Top(t), s)
      BY <2>3 DEF Behind
    <3>3. CASE hecaton_check_bit(Top(t).mask, pairmask_id[f][s])
      BY <1>3, <2>1, <3>2, <3>3 DEF HasReason
    <3>4. CASE ~hecaton_check_bit(Top(t).mask, pairmask_id[f][s])
      <4>1. /\ Body[f][p].op = "cond" /\ Body[f][p].r \in Undo[f]
            /\ pairmask_id[f][s] = pairmask_id[f][Body[f][p].r]
        BY <1>5, <3>1, <3>4 DEF StampInThen, hecaton_set_bit, hecaton_check_bit
      <4>2. s = Body[f][p].r
        BY <1>2, <4>1, DistinctIds
      <4> QED BY <1>3, <1>4, <2>1, <4>1, <4>2 DEF Effective
    <3> QED BY <3>3, <3>4
  <2> QED BY <1>1, <2>2, <2>3
<1>6. Explained(fr, hf'[t])
  BY <1>3, <1>5 DEF Explained, SetForReasons
<1> QED BY <1>1, <1>3, <1>6, BecomesExplained

\* Cleanup blocks: nothing is claimed of the mask once they have tested it.
LEMMA CleanupExplained ==
    ASSUME EveryInv, TInv', NEW t \in Task,
           Cleanup(t) \/ CleanupOfClosing(t) \/ UndoOne(t) \/ UndoFault(t)
    PROVE  EveryInv'
<1>1. depth[t] > 0 /\ depth' = depth
  BY DEF Cleanup, CleanupOfClosing, UndoOne, UndoFault, Undoes, Active
<1>2. Top(t) \in FrameType /\ Explained(Top(t), hf[t]) /\ hf \in [Task -> BOOLEAN]
  BY <1>1, TopExplained DEF EveryInv, TInv, TypeOK
<1>3. ~Top(t).irq
  <2>1. CASE Cleanup(t) \/ CleanupOfClosing(t)
    BY <1>1, <2>1 DEF Cleanup, CleanupOfClosing, hgoto, InIrq
  <2>2. CASE UndoOne(t) \/ UndoFault(t)
    BY <1>2, <2>2 DEF UndoOne, UndoFault, Undoes, Active, Explained
  <2> QED BY <2>1, <2>2
<1>4. \A u \in Task \ {t} : hf'[u] = hf[u]
  <2>1. hf' = hf \/ hf' = [hf EXCEPT ![t] = FALSE] \/ hf' = [hf EXCEPT ![t] = TRUE]
    BY DEF Cleanup, CleanupOfClosing, UndoOne, UndoFault
  <2> QED BY <1>2, <2>1
<1>5. ASSUME NEW fr, Becomes(t, fr), fr.ph \in {"undo", "dying"}, fr.irq = Top(t).irq
      PROVE  EveryInv'
  <2>1. Explained(fr, hf'[t])
    BY <1>3, <1>5 DEF Explained
  <2> QED BY <1>1, <1>3, <1>4, <1>5, <2>1, BecomesExplained
<1>6. CASE Cleanup(t) \/ CleanupOfClosing(t)
  <2> DEFINE fr1 == [Top(t) EXCEPT !.ph = "undo", !.todo = Marked(Top(t))]
             fr2 == [Top(t) EXCEPT !.ph = "dying"]
  <2>1. /\ fr1.ph = "undo" /\ fr1.irq = Top(t).irq
        /\ fr2.ph = "dying" /\ fr2.irq = Top(t).irq
    BY <1>2 DEF FrameType
  <2>2. Becomes(t, fr1) \/ Becomes(t, fr2)
    BY <1>6 DEF Cleanup, CleanupOfClosing
  <2> HIDE DEF fr1, fr2
  <2> QED BY <1>5, <2>1, <2>2
<1>7. CASE UndoOne(t) \/ UndoFault(t)
  <2>1. PICK r \in Res :
          \/ Becomes(t, [Top(t) EXCEPT !.net = Released(Top(t), r), !.todo = @ \ {r}])
          \/ Becomes(t, [Top(t) EXCEPT !.todo = @ \ {r}])
    BY <1>7 DEF UndoOne, UndoFault
  <2> DEFINE fr1 == [Top(t) EXCEPT !.net = Released(Top(t), r), !.todo = @ \ {r}]
             fr2 == [Top(t) EXCEPT !.todo = @ \ {r}]
  <2>2. Top(t).ph = "undo"
    BY <1>7 DEF UndoOne, UndoFault, Undoes, Active
  <2>3. /\ fr1.ph = "undo" /\ fr1.irq = Top(t).irq
        /\ fr2.ph = "undo" /\ fr2.irq = Top(t).irq
    BY <1>2, <2>2 DEF FrameType
  <2>4. Becomes(t, fr1) \/ Becomes(t, fr2)
    BY <2>1
  <2> HIDE DEF fr1, fr2
  <2> QED BY <1>5, <2>3, <2>4
<1> QED BY <1>6, <1>7

\* Calls, by a statement, a cleanup block, a user or an interrupt.
LEMMA CallExplained ==
    ASSUME EveryInv, TInv', NEW t \in Task,
           Call(t) \/ Enter(t) \/ Interrupt(t) \/ UndoByCall(t)
    PROVE  EveryInv'
<1>1. CASE Call(t)
  <2> DEFINE fr == [Top(t) EXCEPT !.ph = "call"]
  <2>1. /\ depth[t] > 0 /\ Top(t).ph = "run" /\ hf' = hf /\ Disciplined(Top(t), At(t))
        /\ Push(t, fr, At(t).f, Top(t).irq)
    BY <1>1 DEF Call, Active
  <2>2. /\ Top(t) \in FrameType /\ Explained(Top(t), hf[t]) /\ Top(t).irq \in BOOLEAN
        /\ Top(t).fn \in Func
    BY <2>1, TopExplained DEF FrameType
  <2>3. /\ fr.net = Top(t).net /\ fr.null = Top(t).null /\ fr.ph = "call" /\ fr.pc = Top(t).pc
        /\ fr.fn = Top(t).fn /\ fr.mask = Top(t).mask /\ fr.irq = Top(t).irq
    BY <2>2 DEF FrameType
  <2>4. Push(t, fr, At(t).f, Top(t).irq)
    BY <2>1
  <2> HIDE DEF fr
  <2>5. Disciplined(fr, Calling(fr))
    BY <2>1, <2>3 DEF Disciplined, Calling, At
  <2>6. SetForReasons(fr)
    <3>1. SetForReasons(Top(t))
      BY <2>1, <2>2 DEF Explained
    <3>2. \A r \in Res : HasReason(Top(t), r) => HasReason(fr, r)
      BY <2>1, <2>3 DEF HasReason, Behind
    <3> QED BY <2>2, <2>3, <3>1, <3>2, ReasonsLast
  <2>7. Explained(fr, hf'[t])
    BY <2>3, <2>5, <2>6 DEF Explained
  <2> QED BY <2>1, <2>2, <2>3, <2>4, <2>7, PushExplained
<1>2. CASE Enter(t)
  <2>1. PICK f \in Entry : Push(t, NoFrame, f, FALSE)
    BY <1>2 DEF Enter
  <2>2. /\ depth[t] = 0 /\ ~(depth[t] > 0)
        /\ hf' = [hf EXCEPT ![t] = FALSE] /\ hf \in [Task -> BOOLEAN]
    BY <1>2 DEF Enter, EveryInv, TInv, TypeOK
  <2>3. \A u \in Task \ {t} : hf'[u] = hf[u]
    BY <2>2
  <2> QED BY <2>1, <2>2, <2>3, PushExplained
<1>3. CASE Interrupt(t)
  <2> DEFINE fr == IF depth[t] = 0 THEN NoFrame ELSE Top(t)
  <2>1. PICK f \in IrqEntry : Push(t, fr, f, TRUE)
    BY <1>3 DEF Interrupt
  <2>2. hf' = hf /\ (depth[t] > 0 => ~Top(t).irq)
    BY <1>3 DEF Interrupt, InIrq
  <2>3. depth[t] > 0 =>
          /\ fr = Top(t) /\ Explained(fr, hf[t]) /\ fr.ph \notin {"call", "ucall"}
    BY TopExplained
  <2> HIDE DEF fr
  <2> QED BY <2>1, <2>2, <2>3, PushExplained
<1>4. CASE UndoByCall(t)
  <2>1. PICK r \in Res :
           /\ Undoes(t, r)
           /\ Push(t, [Top(t) EXCEPT !.ph = "ucall", !.pc = First[Top(t).fn][r],
                                     !.todo = @ \ {r}],
                   Callee(Top(t).fn, r), Top(t).irq)
    BY <1>4, Zenon DEF UndoByCall
  <2> DEFINE f == Callee(Top(t).fn, r)
             fr == [Top(t) EXCEPT !.ph = "ucall", !.pc = First[Top(t).fn][r], !.todo = @ \ {r}]
  <2>2. /\ depth[t] > 0 /\ Top(t).ph = "undo" /\ hf' = hf
    BY <1>4, <2>1 DEF UndoByCall, Undoes, Active
  <2>3. Top(t) \in FrameType /\ Explained(Top(t), hf[t])
    BY <2>2, TopExplained
  <2>4. fr.ph = "ucall" /\ fr.irq = Top(t).irq /\ Top(t).irq \in BOOLEAN
    BY <2>3 DEF FrameType
  <2>5. Push(t, fr, f, Top(t).irq)
    BY <2>1
  <2> HIDE DEF fr, f
  <2>6. ~fr.irq
    BY <2>2, <2>3, <2>4 DEF Explained
  <2>7. Explained(fr, hf'[t])
    BY <2>4, <2>6 DEF Explained
  <2> QED BY <2>2, <2>4, <2>5, <2>7, PushExplained
<1> QED BY <1>1, <1>2, <1>3, <1>4

\* A call that returns to the statement that made it.
LEMMA ReturnExplained ==
    ASSUME NEW h, NEW fr \in FrameType, Placed(fr), Explained(fr, h), fr.ph = "call",
           NEW net, NEW err \in BOOLEAN, Delivers(Calling(fr), net, err),
           NEW new, new.fn = fr.fn, new.pc = fr.pc, new.mask = fr.mask,
           new.irq = fr.irq, new.ph = "check",
           new.net = Plus(fr.net, net), new.null = Outcome(fr, err)
    PROVE  Explained(new, h)
<1> DEFINE r == Calling(fr).r
<1>1. fr.fn \in Func /\ fr.pc \in DOMAIN Body[fr.fn] /\ Calling(fr).op \in {"acq", "rel", "work"}
  BY DEF Placed
<1>2. /\ fr.net \in [Res -> Int]
      /\ Calling(new) = Calling(fr)
      /\ Calling(fr).op \in {"acq", "rel"} => r \in Res
  BY <1>1, Statements DEF FrameType, Calling
<1>3. SetForReasons(fr) /\ Disciplined(fr, Calling(fr)) /\ \A s \in Res : ~Behind(fr, s)
  BY DEF Explained, Behind
<1>4. /\ \A s \in Res : HasReason(fr, s) => HasReason(new, s)
      /\ Effective(new, h)
  <2>1. CASE Calling(fr).op = "acq"
    <3>1. fr.net[r] = 0
      BY <1>3, <2>1 DEF Disciplined
    <3>2. CASE err
      <4>1. new.net = fr.net
        BY <1>2, <2>1, <3>2, PlusZero DEF Delivers
      <4>2. new.null = fr.null \cup {r}
        BY <2>1, <3>2 DEF Outcome
      <4> HIDE DEF r
      <4>3. ASSUME NEW s \in Res, HasReason(fr, s) PROVE HasReason(new, s)
        BY <1>3, <4>1, <4>2, <4>3 DEF HasReason
      <4>4. Effective(new, h)
        BY <1>2, <4>2 DEF Effective, r
      <4> QED BY <4>3, <4>4
    <3>3. CASE ~err
      <4>1. new.net = [fr.net EXCEPT ![r] = 1]
        BY <1>2, <2>1, <3>1, <3>3, PlusOne DEF Delivers
      <4>2. new.null = fr.null \ {r} /\ r \in Res
        BY <1>2, <2>1, <3>3 DEF Outcome
      <4> HIDE DEF r
      <4>3. ASSUME NEW s \in Res, HasReason(fr, s) PROVE HasReason(new, s)
        BY <1>2, <1>3, <4>1, <4>2, <4>3 DEF HasReason
      <4>4. Effective(new, h)
        BY <1>2, <4>1, <4>2 DEF Effective, r
      <4> QED BY <4>3, <4>4
    <3> QED BY <3>2, <3>3
  <2>2. CASE Calling(fr).op = "rel"
    <3>1. new.net = [fr.net EXCEPT ![r] = @ - 1] /\ r \in Res
      BY <1>2, <2>2, PlusMinusOne DEF Delivers
    <3>2. new.null = fr.null /\ Behind(new, r)
      BY <1>2, <2>2 DEF Outcome, Behind
    <3>3. Effective(new, h)
      BY <1>2, <2>2 DEF Effective
    <3> HIDE DEF r
    <3>4. ASSUME NEW s \in Res, HasReason(fr, s) PROVE HasReason(new, s)
      BY <1>2, <1>3, <3>1, <3>2, <3>4 DEF HasReason
    <3> QED BY <3>3, <3>4
  <2>3. CASE Calling(fr).op = "work"
    <3>1. new.net = fr.net /\ new.null = fr.null
      BY <1>2, <2>3, PlusZero DEF Delivers, Outcome
    <3>2. Effective(new, h)
      BY <1>2, <2>3 DEF Effective
    <3> QED BY <1>3, <3>1, <3>2 DEF HasReason
  <2> QED BY <1>1, <2>1, <2>2, <2>3
<1>5. SetForReasons(new)
  BY <1>1, <1>3, <1>4, ReasonsLast
<1> QED BY <1>4, <1>5 DEF Explained

\* A function that returns, is cut short in its return, or has been undone.
LEMMA LeaveExplained ==
    ASSUME EveryInv, TInv', NEW t \in Task, Return(t) \/ FaultInReturn(t) \/ Leave(t)
    PROVE  EveryInv'
<1> DEFINE fr == Below(t)
<1>1. depth[t] > 0 /\ hf \in [Task -> BOOLEAN]
  BY DEF Return, FaultInReturn, Leave, Active, EveryInv, TInv, TypeOK
<1>2. Top(t) \in FrameType /\ Explained(Top(t), hf[t])
  BY <1>1, TopExplained
<1>3. depth[t] > 1 =>
        /\ fr \in FrameType /\ Placed(fr) /\ Explained(fr, hf[t])
        /\ fr.irq => Top(t).irq
        /\ fr.ph \in {"call", "ucall"} <=> (fr.irq <=> Top(t).irq)
  BY BelowExplained
<1>4. CASE Return(t)
  <2> DEFINE err == At(t).k = 1
             back == [Resumed(fr) EXCEPT !.net = Plus(fr.net, Top(t).net), !.null = Outcome(fr, err)]
  <2>1. hf' = hf
    BY <1>4 DEF Return
  <2>2. CASE fr.ph \in {"call", "ucall"}
    <3>1. Delivers(Calling(fr), Top(t).net, err) /\ Pop(t, back)
      BY <1>4, <2>2 DEF Return
    <3>2. ASSUME depth[t] > 1
          PROVE  back.irq = fr.irq /\ back.ph \notin {"call", "ucall"} /\ Explained(back, hf[t])
      <4>1. CASE fr.ph = "call"
        <5>1. Resumed(fr) = [fr EXCEPT !.ph = "check"]
          BY <4>1 DEF Resumed
        <5>2. err \in BOOLEAN
          OBVIOUS
        <5> HIDE DEF fr, err
        <5>3. /\ back.fn = fr.fn /\ back.pc = fr.pc /\ back.mask = fr.mask
              /\ back.irq = fr.irq /\ back.ph = "check"
              /\ back.net = Plus(fr.net, Top(t).net) /\ back.null = Outcome(fr, err)
          BY <1>3, <3>2, <5>1 DEF FrameType
        <5> HIDE DEF back
        <5>4. Explained(back, hf[t])
          BY <1>3, <3>1, <3>2, <4>1, <5>2, <5>3, ReturnExplained
        <5> QED BY <5>3, <5>4
      <4>2. CASE fr.ph = "ucall"
        <5>1. Resumed(fr) = [fr EXCEPT !.ph = "undo"]
          BY <4>2 DEF Resumed
        <5> HIDE DEF fr, err
        <5>2. back.irq = fr.irq /\ back.ph = "undo"
          BY <1>3, <3>2, <5>1 DEF FrameType
        <5> HIDE DEF back
        <5>3. ~fr.irq
          BY <1>3, <3>2, <4>2 DEF Explained
        <5> QED BY <5>2, <5>3 DEF Explained
      <4> QED BY <2>2, <4>1, <4>2
    <3> HIDE DEF back
    <3> QED BY <1>1, <2>1, <3>1, <3>2, PopExplained
  <2>3. CASE fr.ph \notin {"call", "ucall"}
    <3>1. Pop(t, fr)
      BY <1>4, <2>3 DEF Return
    <3> QED BY <1>1, <1>3, <2>1, <2>3, <3>1, PopExplained
  <2> QED BY <2>2, <2>3
<1>5. CASE FaultInReturn(t) \/ Leave(t)
  <2> DEFINE back == Resumed(fr)
  <2>1. hf' = [hf EXCEPT ![t] = TRUE] /\ Pop(t, back)
    BY <1>5 DEF FaultInReturn, Leave
  <2>2. ~Top(t).irq
    BY <1>1, <1>2, <1>5 DEF FaultInReturn, Leave, Active, InIrq, Explained
  <2>3. hf'[t] = TRUE /\ \A u \in Task \ {t} : hf'[u] = hf[u]
    BY <1>1, <2>1
  <2>4. ASSUME depth[t] > 1
        PROVE  back.irq = fr.irq /\ back.ph \notin {"call", "ucall"} /\ Explained(back, TRUE)
    <3>1. /\ fr \in FrameType /\ Explained(fr, hf[t]) /\ fr.fn \in Func
          /\ ~fr.irq /\ fr.ph \in {"call", "ucall"}
      BY <1>3, <2>2, <2>4 DEF Placed
    <3>2. CASE fr.ph = "call"
      <4>1. back = [fr EXCEPT !.ph = "check"]
        BY <3>2 DEF Resumed
      <4> HIDE DEF fr
      <4>2. /\ back.fn = fr.fn /\ back.mask = fr.mask /\ back.irq = fr.irq
            /\ back.net = fr.net /\ back.null = fr.null /\ back.ph = "check"
        BY <3>1, <4>1 DEF FrameType
      <4> HIDE DEF back
      <4>3. /\ SetForReasons(fr)
            /\ \A r \in Res : HasReason(fr, r) => HasReason(back, r)
        BY <3>1, <3>2, <4>2 DEF Explained, HasReason, Behind
      <4>4. SetForReasons(back)
        BY <3>1, <4>2, <4>3, ReasonsLast
      <4> QED BY <3>1, <4>2, <4>4 DEF Explained, Effective
    <3>3. CASE fr.ph = "ucall"
      <4>1. back = [fr EXCEPT !.ph = "undo"]
        BY <3>3 DEF Resumed
      <4> HIDE DEF fr
      <4>2. back.irq = fr.irq /\ back.ph = "undo"
        BY <3>1, <4>1 DEF FrameType
      <4> HIDE DEF back
      <4> QED BY <3>1, <4>2 DEF Explained
    <3> QED BY <3>1, <3>2, <3>3
  <2> HIDE DEF back
  <2> QED BY <1>1, <2>1, <2>2, <2>3, <2>4, PopExplained
<1> QED BY <1>4, <1>5

\* Every step of every program keeps EveryInv.
LEMMA EveryStep == EveryInv /\ [Next]_vars => EveryInv'
<1> SUFFICES ASSUME EveryInv, [Next]_vars PROVE EveryInv'
  OBVIOUS
<1>1. TInv'
  BY StepTyped DEF EveryInv
<1>2. CASE UNCHANGED vars
  BY <1>1, <1>2 DEF vars, EveryInv, Stacked
<1>3. ASSUME NEW t \in Task, Enter(t) \/ Step(t) \/ Surprise(t)
      PROVE  EveryInv'
  <2>1. CASE Restart(t)
    <3>1. \A u \in Task : 1..depth'[u] = {}
      BY <2>1 DEF Restart
    <3> QED BY <1>1, <3>1 DEF EveryInv
  <2>2. CASE Enter(t) \/ Call(t) \/ Interrupt(t) \/ UndoByCall(t)
    BY <1>1, <2>2, CallExplained
  <2>3. CASE Return(t) \/ FaultInReturn(t) \/ Leave(t)
    BY <1>1, <2>3, LeaveExplained
  <2>4. CASE Acquire(t) \/ AcquireInCondition(t) \/ Release(t)
    BY <1>1, <2>4, AcquireExplained, ReleaseExplained
  <2>5. CASE Work(t) \/ Branch(t) \/ SkipBlock(t) \/ Fault(t) \/ FaultInCondition(t)
    BY <1>1, <2>5, PlainExplained
  <2>6. CASE Pass(t) \/ PassBrace(t)
    BY <1>1, <2>6, PassExplained
  <2>7. CASE Cleanup(t) \/ CleanupOfClosing(t) \/ UndoOne(t) \/ UndoFault(t)
    BY <1>1, <2>7, CleanupExplained
  <2> QED BY <1>3, <2>1, <2>2, <2>3, <2>4, <2>5, <2>6, <2>7 DEF Step, Surprise
<1>4. CASE Next
  BY <1>3, <1>4 DEF Next
<1> QED BY <1>2, <1>4

\* EveryInv holds from the start on.
LEMMA EveryInvariant == Spec => []EveryInv
<1>1. Init => EveryInv
  <2> SUFFICES ASSUME Init PROVE EveryInv
    OBVIOUS
  <2>1. \A t \in Task : 1..depth[t] = {}
    BY DEF Init
  <2> QED BY <2>1, InitTyped DEF EveryInv
<1> QED BY <1>1, EveryStep, PTL DEF Spec

\* assign_pairmask_id and insert_pairmask_stamps: whatever the program and
\* wherever it faults, a bit of an outer undo is set only if the resource is
\* held, was not obtained, or has just been released.
THEOREM ReasonCorrect == Spec => []SetForAReason
<1>1. EveryInv => SetForAReason
  BY DEF EveryInv, Explained, SetForAReason
<1> QED BY <1>1, EveryInvariant, PTL

-----------------------------------------------------------------------------
(* Interrupts. *)

\* What a step leaves to the task t below an interrupt.
RunsThrough(t) ==
    /\ hf'[t] = hf[t]
    /\ \A d \in Level : d <= depth[t] /\ ~frame[t][d].irq => frame'[t][d] = frame[t][d]

\* The steps of other tasks do not touch the stack of t.
LEMMA OthersRunThrough ==
    ASSUME TInv, NEW t \in Task, NEW u \in Task, u # t,
           Enter(u) \/ Step(u) \/ Surprise(u), depth'[t] > 0
    PROVE  RunsThrough(t)
<1>1. hf \in [Task -> BOOLEAN] /\ frame \in [Task -> [Level -> FrameType]]
  BY DEF TInv, TypeOK
<1>2. \A fr : Becomes(u, fr) => frame'[t] = frame[t]
  BY <1>1 DEF Becomes
<1>3. \A fr, f, irq : Push(u, fr, f, irq) => frame'[t] = frame[t]
  BY <1>1 DEF Push
<1>4. \A fr : Pop(u, fr) => frame'[t] = frame[t]
  BY <1>1 DEF Pop
<1>5. CASE Acquire(u) \/ Release(u) \/ Work(u) \/ Branch(u) \/ SkipBlock(u)
           \/ AcquireInCondition(u) \/ Pass(u) \/ PassBrace(u) \/ CleanupOfClosing(u)
           \/ UndoOne(u)
  <2>1. hf' = hf /\ \E fr : Becomes(u, fr)
    BY <1>5 DEF Acquire, Release, Work, Branch, SkipBlock, AcquireInCondition, Pass,
                PassBrace, CleanupOfClosing, UndoOne
  <2> QED BY <1>2, <2>1 DEF RunsThrough
<1>6. CASE Cleanup(u) \/ Fault(u) \/ FaultInCondition(u) \/ UndoFault(u)
  <2>1. \E fr : Becomes(u, fr)
    BY <1>6 DEF Cleanup, Fault, FaultInCondition, UndoFault
  <2>2. hf' = [hf EXCEPT ![u] = TRUE] \/ hf' = [hf EXCEPT ![u] = FALSE]
    BY <1>6 DEF Cleanup, Fault, FaultInCondition, UndoFault
  <2>3. hf'[t] = hf[t]
    BY <1>1, <2>2
  <2> QED BY <1>2, <2>1, <2>3 DEF RunsThrough
<1>7. CASE Call(u) \/ Interrupt(u) \/ UndoByCall(u) \/ Enter(u)
  <2>1. \E fr, f, irq : Push(u, fr, f, irq)
    BY <1>7 DEF Call, Interrupt, UndoByCall, Enter
  <2>2. hf' = hf \/ hf' = [hf EXCEPT ![u] = FALSE]
    BY <1>7 DEF Call, Interrupt, UndoByCall, Enter
  <2>3. hf'[t] = hf[t]
    BY <1>1, <2>2
  <2> QED BY <1>3, <2>1, <2>3 DEF RunsThrough
<1>8. CASE Return(u) \/ FaultInReturn(u) \/ Leave(u)
  <2>1. \E fr : Pop(u, fr)
    BY <1>8 DEF Return, FaultInReturn, Leave
  <2>2. hf' = hf \/ hf' = [hf EXCEPT ![u] = TRUE]
    BY <1>8 DEF Return, FaultInReturn, Leave
  <2>3. hf'[t] = hf[t]
    BY <1>1, <2>2
  <2> QED BY <1>4, <2>1, <2>3 DEF RunsThrough
<1>9. ~Restart(u)
  BY DEF Restart
<1> QED BY <1>5, <1>6, <1>7, <1>8, <1>9 DEF Step, Surprise

\* A step of t itself, with an interrupt on top, only moves the interrupt.
LEMMA OwnRunsThrough ==
    ASSUME EveryInv, NEW t \in Task, InIrq(t), depth'[t] > 0,
           Enter(t) \/ Step(t) \/ Surprise(t)
    PROVE  RunsThrough(t)
<1>1. /\ depth[t] > 0 /\ Top(t).irq /\ Top(t).ph \in {"run", "check", "then"}
      /\ depth[t] \in Level /\ depth \in [Task -> 0..MaxDepth]
      /\ frame \in [Task -> [Level -> FrameType]]
  BY TopExplained, TopFits DEF InIrq, Explained, EveryInv, TInv, TypeOK
<1>2. ~hgoto(t)
  BY DEF hgoto
<1>3. /\ ~Enter(t) /\ ~Surprise(t) /\ ~Cleanup(t) /\ ~CleanupOfClosing(t)
      /\ ~UndoOne(t) /\ ~UndoByCall(t) /\ ~Leave(t) /\ ~Restart(t)
  <2>1. ~Enter(t)
    <3>1. depth[t] # 0
      BY <1>1 DEF Level
    <3> QED BY <3>1 DEF Enter
  <2>2. ~Fault(t) /\ ~FaultInCondition(t) /\ ~FaultInReturn(t) /\ ~UndoFault(t) /\ ~Interrupt(t)
    BY DEF Fault, FaultInCondition, FaultInReturn, UndoFault, Interrupt
  <2>3. ~Active(t, "undo") /\ ~Active(t, "dying")
    BY <1>1 DEF Active
  <2>4. ~Cleanup(t) /\ ~CleanupOfClosing(t) /\ ~Leave(t) /\ ~Restart(t)
    BY <1>2, <2>3 DEF Cleanup, CleanupOfClosing, Leave, Restart
  <2>5. ~UndoOne(t) /\ ~UndoByCall(t)
    BY <2>3 DEF UndoOne, UndoByCall, Undoes
  <2> QED BY <2>1, <2>2, <2>4, <2>5 DEF Surprise
<1>4. hf' = hf
  BY <1>3 DEF Step, Acquire, Release, Work, Call, Branch, SkipBlock, AcquireInCondition,
              Return, Pass, PassBrace
<1>5. SUFFICES ASSUME NEW d \in Level, d <= depth[t], ~frame[t][d].irq
               PROVE  frame'[t][d] = frame[t][d]
  BY <1>4 DEF RunsThrough
<1>6. d # depth[t]
  BY <1>1, <1>5 DEF Top
<1>7. CASE Acquire(t) \/ Release(t) \/ Work(t) \/ Branch(t) \/ SkipBlock(t)
           \/ AcquireInCondition(t) \/ Pass(t) \/ PassBrace(t)
  <2>1. \E fr : Becomes(t, fr)
    BY <1>7 DEF Acquire, Release, Work, Branch, SkipBlock, AcquireInCondition, Pass, PassBrace
  <2> QED BY <1>1, <1>6, <2>1 DEF Becomes
<1>8. CASE Call(t)
  <2>1. \E fr, f, irq : Push(t, fr, f, irq)
    BY <1>8 DEF Call
  <2>2. d # depth[t] + 1
    BY <1>1, <1>5 DEF Level
  <2> QED BY <1>1, <1>6, <2>1, <2>2 DEF Push
<1>9. CASE Return(t)
  <2>1. CASE d = depth[t] - 1
    <3>1. depth[t] > 1 /\ Below(t) = frame[t][d]
      BY <1>1, <2>1 DEF Below, Level
    <3>2. Below(t).ph \notin {"call", "ucall"}
      BY <1>1, <1>5, <3>1, BelowExplained
    <3>3. Pop(t, Below(t))
      BY <1>9, <3>2 DEF Return
    <3> QED BY <1>1, <1>6, <2>1, <3>1, <3>3 DEF Pop
  <2>2. CASE d # depth[t] - 1
    <3>1. \E fr : Pop(t, fr)
      BY <1>9 DEF Return
    <3> QED BY <1>1, <1>6, <2>2, <3>1 DEF Pop
  <2> QED BY <2>1, <2>2
<1> QED BY <1>3, <1>7, <1>8, <1>9 DEF Step

\* hgoto's in_interrupt(): in any program an interrupt served while its task is
\* being undone runs to its end, and hands over the task as it found it.
THEOREM InterruptCorrect == Spec => InterruptRunsThrough
<1> DEFINE A == \A t \in Task : InIrq(t) /\ depth'[t] > 0 =>
                   /\ hf'[t] = hf[t]
                   /\ Top(t).ph # "undo"
                   /\ \A d \in Level : d <= depth[t] /\ ~frame[t][d].irq
                                          => frame'[t][d] = frame[t][d]
<1>1. EveryInv /\ [Next]_vars => [A]_vars
  <2> SUFFICES ASSUME EveryInv, Next, NEW t \in Task, InIrq(t), depth'[t] > 0
               PROVE  RunsThrough(t) /\ Top(t).ph # "undo"
    BY DEF RunsThrough
  <2>1. Top(t).ph # "undo"
    BY TopExplained DEF InIrq, Explained
  <2>2. PICK u \in Task : Enter(u) \/ Step(u) \/ Surprise(u)
    BY DEF Next
  <2>3. RunsThrough(t)
    BY <2>2, OthersRunThrough, OwnRunsThrough DEF EveryInv
  <2> QED BY <2>1, <2>3
<1>2. Spec => [][A]_vars
  BY <1>1, EveryInvariant, PTL DEF Spec
<1> QED BY <1>2 DEF InterruptRunsThrough

-----------------------------------------------------------------------------
(* One frame. *)

\* The account of a frame that waits, or of an interrupt's, does not depend on hf.
LEMMA WaitingAccounted ==
    ASSUME NEW fr, NEW h, NEW g, fr.irq \/ fr.ph \in {"call", "ucall"}, Accounted(fr, h)
    PROVE  Accounted(fr, g)
BY DEF Accounted, InnerExact, Over, Behind, Settled

\* In a covered program a function has an undo for what it acquires or releases.
LEMMA CoveredStatement ==
    ASSUME Covered, NEW f \in Func \ Closing, NEW p \in DOMAIN Body[f],
           Body[f][p].op \in {"acq", "rel"}
    PROVE  /\ Body[f][p].r \in Undo[f] /\ Body[f][p].r \in Res
           /\ Fits(f, Body[f][p].r) /\ ~Foreign(f, Body[f][p].r)
<1>1. Undo[f] \subseteq Res
  BY DEF Undo
<1> QED BY <1>1 DEF Covered

\* In a covered program a frame only releases what it has to release.
LEMMA ReleasesItsOwn ==
    ASSUME Covered, NEW fr, fr.fn \in Func \ Closing, fr.pc \in DOMAIN Body[fr.fn],
           Calling(fr).op = "rel", Disciplined(fr, Calling(fr))
    PROVE  Undoable(fr, Calling(fr).r)
<1>1. ~Foreign(fr.fn, Calling(fr).r)
  BY CoveredStatement DEF Calling
<1> QED BY <1>1 DEF Disciplined, Undoable

\* Before a statement that is no return, every inner bit has its reason.
LEMMA BeforeStatement ==
    ASSUME NEW fr, NEW h, Accounted(fr, h), fr.ph = "run", Calling(fr).op # "ret"
    PROVE  \A s \in Undo[fr.fn] \ Outer :
              hecaton_check_bit(fr.mask, pairmask_id[fr.fn][s]) => Undoable(fr, s)
BY DEF Accounted, InnerExact, Over, Behind

\* What a release does to the account.
LEMMA LessOne ==
    ASSUME NEW net \in [Res -> Int], NEW r
    PROVE  \A s \in Res : [net EXCEPT ![r] = @ - 1][s] = IF s = r THEN net[r] - 1 ELSE net[s]
OBVIOUS

\* A statement that is done, by itself or by the function it called.
LEMMA DoneAccounted ==
    ASSUME Covered, NEW fr \in FrameType, NEW h, ~(h /\ ~fr.irq),
           fr.fn \in Func \ Closing, fr.pc \in DOMAIN Body[fr.fn],
           NEW g, Accounted(fr, g),
           \A s \in Undo[fr.fn] \ Outer :
              hecaton_check_bit(fr.mask, pairmask_id[fr.fn][s]) => Undoable(fr, s),
           NEW new, new.fn = fr.fn, new.pc = fr.pc, new.mask = fr.mask,
           new.irq = fr.irq, new.ph = "check",
           NEW r, r = Calling(fr).r,
           \/ /\ Calling(fr).op = "acq"
              /\ \/ new.net = [fr.net EXCEPT ![r] = 1] /\ new.null = fr.null \ {r}
                 \/ new.net = fr.net /\ new.null = fr.null \cup {r} /\ r \in Tolerant
           \/ /\ Calling(fr).op = "rel" /\ new.null = fr.null
              /\ \/ new.net = [fr.net EXCEPT ![r] = @ - 1] /\ fr.net[r] = 1
                 \/ new.net = fr.net /\ r \in fr.null \cap Tolerant
           \/ Calling(fr).op = "work" /\ new.net = fr.net /\ new.null = fr.null
    PROVE  Accounted(new, h)
<1> DEFINE f == fr.fn
           m == StampAfter(f, fr.pc, fr.mask)
<1>1. /\ fr.net \in [Res -> Int] /\ Calling(fr) = Body[f][fr.pc]
      /\ Calling(new) = Calling(fr)
  BY DEF FrameType, Calling
<1>2. ASSUME Calling(fr).op \in {"acq", "rel"}
      PROVE  r \in Undo[f] /\ Fits(f, r) /\ r \in Res
  <2>1. /\ f \in Func \ Closing /\ fr.pc \in DOMAIN Body[f]
        /\ r = Body[f][fr.pc].r /\ Body[f][fr.pc].op \in {"acq", "rel"}
    BY <1>1, <1>2
  <2> HIDE DEF f
  <2> QED BY <2>1, CoveredStatement
<1>3. \A s \in Res : fr.net[s] \in {0, 1} /\ (fr.net[s] = 1 => s \in Undo[f] /\ Fits(f, s))
  BY DEF Accounted
<1>4. \A s \in Res : new.net[s] \in {0, 1} /\ (new.net[s] = 1 => s \in Undo[f] /\ Fits(f, s))
  <2>1. \/ new.net = fr.net
        \/ Calling(fr).op = "acq" /\ new.net = [fr.net EXCEPT ![r] = 1]
        \/ Calling(fr).op = "rel" /\ new.net = [fr.net EXCEPT ![r] = @ - 1] /\ fr.net[r] = 1
    OBVIOUS
  <2>2. CASE new.net = fr.net
    BY <1>3, <2>2
  <2>3. CASE Calling(fr).op = "acq" /\ new.net = [fr.net EXCEPT ![r] = 1]
    <3>1. \A s \in Res : new.net[s] = IF s = r THEN 1 ELSE fr.net[s]
      BY <1>1, <2>3
    <3>2. r \in Undo[f] /\ Fits(f, r)
      BY <1>2, <2>3
    <3> HIDE DEF f
    <3> QED BY <1>3, <3>1, <3>2
  <2>4. CASE Calling(fr).op = "rel" /\ new.net = [fr.net EXCEPT ![r] = @ - 1] /\ fr.net[r] = 1
    <3>1. \A s \in Res : new.net[s] = IF s = r THEN fr.net[r] - 1 ELSE fr.net[s]
      <4>1. fr.net \in [Res -> Int] /\ new.net = [fr.net EXCEPT ![r] = @ - 1]
        BY <1>1, <2>4
      <4>2. \A s \in Res : [fr.net EXCEPT ![r] = @ - 1][s] = IF s = r THEN fr.net[r] - 1 ELSE fr.net[s]
        BY <4>1, LessOne, Zenon
      <4> QED BY <4>1, <4>2
    <3> HIDE DEF f
    <3> QED BY <1>3, <2>4, <3>1
  <2> QED BY <2>1, <2>2, <2>3, <2>4
<1>5. Settled(new, h) = m
  BY DEF Settled
<1>6. ASSUME NEW s \in Undo[f] \ Outer, hecaton_check_bit(m, pairmask_id[f][s])
      PROVE  Undoable(new, s) \/ Over(new, s, h)
  <2>1. s \in Res
    BY DEF Undo
  <2>2. CASE Calling(fr).op = "acq"
    <3>1. hecaton_check_bit(fr.mask, pairmask_id[f][s]) \/ s = r
      <4>1. f \in Func /\ fr.pc \in DOMAIN Body[f] /\ s \in Undo[f]
            /\ Body[f][fr.pc].op = "acq" /\ Body[f][fr.pc].r = r
        BY <1>1, <2>2
      <4> HIDE DEF f
      <4> QED BY <1>6, <4>1, StampChecks
    <3>2. s # r => Undoable(fr, s)
      BY <1>6, <3>1
    <3>3. Undoable(new, s)
      BY <1>1, <2>1, <2>2, <3>2 DEF Undoable
    <3> QED BY <3>3
  <2>3. CASE Calling(fr).op = "rel"
    <3>1. hecaton_check_bit(fr.mask, pairmask_id[f][s])
      <4>1. f \in Func /\ fr.pc \in DOMAIN Body[f] /\ s \in Undo[f] /\ Body[f][fr.pc].op = "rel"
        BY <1>1, <2>3
      <4> HIDE DEF f
      <4> QED BY <1>6, <4>1, StampChecks
    <3>2. Undoable(fr, s)
      BY <1>6, <3>1
    <3>3. CASE s = r
      <4>1. Over(new, s, h)
        BY <1>1, <2>3, <3>3 DEF Over, Behind
      <4> QED BY <4>1
    <3>4. CASE s # r
      <4>1. new.net[s] = fr.net[s] /\ new.null = fr.null
        BY <1>1, <2>1, <2>3, <3>4
      <4> QED BY <3>2, <4>1 DEF Undoable
    <3> QED BY <3>3, <3>4
  <2>4. CASE Calling(fr).op = "work"
    <3>1. hecaton_check_bit(fr.mask, pairmask_id[f][s])
      BY <1>1, <1>6, <2>4, StampChecks
    <3> QED BY <1>6, <2>4, <3>1 DEF Undoable
  <2> QED BY <2>2, <2>3, <2>4
<1>7. InnerExact(new, Settled(new, h), h)
  BY <1>5, <1>6 DEF InnerExact
<1> QED BY <1>4, <1>7 DEF Accounted

-----------------------------------------------------------------------------
(* The stacks. *)

\* The account of every frame that can be cleaned up.
Accounts ==
    \A t \in Task : \A d \in 1..depth[t] :
        frame[t][d].fn \notin Closing => Accounted(frame[t][d], hf[t])

\* A frame under the top one keeps its account, also when hf changes.
LEMMA LowerAccounted ==
    ASSUME IInv, Accounts, NEW t \in Task, NEW d \in 1..depth[t], d # depth[t],
           NEW h, h = hf[t] \/ ~Top(t).irq, frame[t][d].fn \notin Closing
    PROVE  Accounted(frame[t][d], h)
<1>1. /\ depth[t] \in 0..MaxDepth /\ MaxDepth \in Nat
      /\ Accounted(frame[t][d], hf[t])
  BY BowknotAssumption DEF IInv, TInv, TypeOK, Accounts
<1>2. depth[t] \in Nat /\ d + 1 \in 1..depth[t] /\ depth[t] \in 1..depth[t]
  BY <1>1
<1>3. CASE ~Top(t).irq
  <2>1. ~frame[t][d].irq /\ ~frame[t][d + 1].irq
    BY <1>2, <1>3 DEF IInv, Top
  <2>2. frame[t][d].ph \in {"call", "ucall"}
    BY <2>1 DEF IInv, Linked, Stacked
  <2> QED BY <1>1, <2>2, WaitingAccounted
<1> QED BY <1>1, <1>3

\* A step that changes the top frame of t.
LEMMA BecomesAccounted ==
    ASSUME IInv, Accounts, NEW t \in Task, depth[t] > 0, depth' = depth,
           NEW fr, Becomes(t, fr), fr.fn \notin Closing => Accounted(fr, hf'[t]),
           hf'[t] = hf[t] \/ ~Top(t).irq, \A u \in Task \ {t} : hf'[u] = hf[u]
    PROVE  Accounts'
<1> SUFFICES ASSUME NEW u \in Task, NEW d \in 1..depth'[u], frame'[u][d].fn \notin Closing
             PROVE  Accounted(frame'[u][d], hf'[u])
  BY DEF Accounts
<1>1. /\ d \in 1..depth[u]
      /\ frame'[u][d] = IF u = t /\ d = depth[t] THEN fr ELSE frame[u][d]
  BY FramesAfterBecomes DEF IInv
<1>2. CASE u = t
  BY <1>1, <1>2, LowerAccounted
<1>3. CASE u # t
  BY <1>1, <1>3 DEF Accounts
<1> QED BY <1>2, <1>3

\* A step that puts a frame on the stack of t.
LEMMA PushAccounted ==
    ASSUME IInv, Accounts, NEW t \in Task, NEW fr, NEW f, NEW irq, Push(t, fr, f, irq),
           depth[t] > 0 => (fr.fn \notin Closing => Accounted(fr, hf'[t])),
           hf'[t] = hf[t] \/ depth[t] = 0, \A u \in Task \ {t} : hf'[u] = hf[u]
    PROVE  Accounts'
<1> SUFFICES ASSUME NEW u \in Task, NEW d \in 1..depth'[u], frame'[u][d].fn \notin Closing
             PROVE  Accounted(frame'[u][d], hf'[u])
  BY DEF Accounts
<1> DEFINE new == NewFrame(f, irq)
<1>1. /\ depth'[t] = depth[t] + 1 /\ (u # t => depth'[u] = depth[u])
      /\ ~(u = t /\ d = depth[t] + 1) => d \in 1..depth[u]
      /\ frame'[u][d] = IF u = t /\ d = depth[t] + 1 THEN new
                        ELSE IF u = t /\ d = depth[t] THEN fr ELSE frame[u][d]
  BY FramesAfterPush DEF IInv
<1>2. depth[t] \in Nat
  BY DEF IInv, TInv, TypeOK
<1>3. Accounted(new, hf'[t])
  <2>1. new.ph = "run" /\ new.mask = {} /\ \A r \in Res : new.net[r] = 0
    BY DEF NewFrame, NoFrame, Zero
  <2> HIDE DEF new
  <2> QED BY <2>1 DEF Accounted, InnerExact, hecaton_check_bit
<1> HIDE DEF new
<1>4. CASE u = t /\ d = depth[t] + 1
  BY <1>1, <1>3, <1>4
<1>5. CASE u = t /\ d # depth[t] + 1
  <2>1. d \in 1..depth[t] /\ depth[t] > 0 /\ depth[t] # 0
    BY <1>1, <1>2, <1>5
  <2> QED BY <1>1, <1>5, <2>1, LowerAccounted
<1>6. CASE u # t
  BY <1>1, <1>6 DEF Accounts
<1> QED BY <1>4, <1>5, <1>6

\* A step that takes the top frame off the stack of t.
LEMMA PopAccounted ==
    ASSUME IInv, Accounts, NEW t \in Task, depth[t] > 0, NEW fr, Pop(t, fr),
           depth[t] > 1 => (fr.fn \notin Closing => Accounted(fr, hf'[t])),
           hf'[t] = hf[t] \/ ~Top(t).irq, \A u \in Task \ {t} : hf'[u] = hf[u]
    PROVE  Accounts'
<1> SUFFICES ASSUME NEW u \in Task, NEW d \in 1..depth'[u], frame'[u][d].fn \notin Closing
             PROVE  Accounted(frame'[u][d], hf'[u])
  BY DEF Accounts
<1>1. /\ d \in 1..depth[u]
      /\ u = t => d # depth[t]
      /\ u = t /\ d = depth[t] - 1 => depth[t] > 1
      /\ frame'[u][d] = IF u = t /\ d = depth[t] - 1 THEN fr ELSE frame[u][d]
  BY FramesAfterPop DEF IInv
<1>2. CASE u = t
  BY <1>1, <1>2, LowerAccounted
<1>3. CASE u # t
  BY <1>1, <1>3 DEF Accounts
<1> QED BY <1>2, <1>3

-----------------------------------------------------------------------------
(* The actions. *)

\* What CInv says of the frame that runs.
LEMMA TopAccounted ==
    ASSUME IInv, Accounts, NEW t \in Task, depth[t] > 0
    PROVE  /\ Top(t) \in FrameType /\ Placed(Top(t)) /\ FrameOK(Top(t), hf[t])
           /\ Top(t).fn \in Func /\ Top(t).pc \in DOMAIN Body[Top(t).fn]
           /\ Calling(Top(t)) = At(t)
           /\ Top(t).fn \notin Closing => Accounted(Top(t), hf[t])
<1>1. depth[t] \in 1..depth[t]
  BY BowknotAssumption DEF IInv, TInv, TypeOK
<1>2. Top(t).fn \notin Closing => Accounted(Top(t), hf[t])
  BY <1>1 DEF Accounts, Top
<1> QED BY <1>2, TopOK DEF Calling, At

\* An acquisition is made, or fails and may be undone nevertheless.
LEMMA AcquireAccounted ==
    ASSUME Sheltered, Covered, IInv, Accounts, NEW t \in Task, Acquire(t)
    PROVE  Accounts'
<1> DEFINE r == At(t).r
           g == Got(Top(t), r)
           m == Missed(Top(t), r)
           acquired == [g EXCEPT !.ph = "check"]
           failed == [m EXCEPT !.ph = "check"]
<1>1. /\ depth[t] > 0 /\ Top(t).ph = "run" /\ At(t).op = "acq"
      /\ Becomes(t, acquired) \/ (r \in CanFail /\ Becomes(t, failed))
      /\ depth' = depth /\ hf' = hf
  BY DEF Acquire, Active
<1>2. /\ Top(t) \in FrameType /\ FrameOK(Top(t), hf[t]) /\ Calling(Top(t)) = At(t)
      /\ Top(t).fn \in Func /\ Top(t).pc \in DOMAIN Body[Top(t).fn]
      /\ Top(t).fn \notin Closing => Accounted(Top(t), hf[t])
  BY <1>1, TopAccounted
<1>3. r \in Res /\ ~(hf[t] /\ ~Top(t).irq) /\ CanFail \subseteq Tolerant
  BY <1>1, <1>2, Statements DEF At, FrameOK, Sheltered
<1>4. /\ g \in FrameType /\ g.net = [Top(t).net EXCEPT ![r] = 1] /\ g.null = Top(t).null \ {r}
      /\ g.fn = Top(t).fn /\ g.pc = Top(t).pc /\ g.mask = Top(t).mask /\ g.irq = Top(t).irq
      /\ m \in FrameType /\ m.net = Top(t).net /\ m.null = Top(t).null \cup {r}
      /\ m.fn = Top(t).fn /\ m.pc = Top(t).pc /\ m.mask = Top(t).mask /\ m.irq = Top(t).irq
  BY <1>1, <1>2, <1>3, GotFits, MissedFits
<1> HIDE DEF g, m
<1>5. /\ acquired.net = [Top(t).net EXCEPT ![r] = 1] /\ acquired.null = Top(t).null \ {r}
      /\ acquired.fn = Top(t).fn /\ acquired.pc = Top(t).pc /\ acquired.mask = Top(t).mask
      /\ acquired.irq = Top(t).irq /\ acquired.ph = "check"
  BY <1>4 DEF FrameType
<1>6. /\ failed.net = Top(t).net /\ failed.null = Top(t).null \cup {r}
      /\ failed.fn = Top(t).fn /\ failed.pc = Top(t).pc /\ failed.mask = Top(t).mask
      /\ failed.irq = Top(t).irq /\ failed.ph = "check"
  BY <1>4 DEF FrameType
<1> HIDE DEF acquired, failed
<1>7. Top(t).fn \notin Closing =>
         \A s \in Undo[Top(t).fn] \ Outer :
            hecaton_check_bit(Top(t).mask, pairmask_id[Top(t).fn][s]) => Undoable(Top(t), s)
  BY <1>1, <1>2, BeforeStatement
<1>8. CASE Becomes(t, acquired)
  <2>1. acquired.fn \notin Closing => Accounted(acquired, hf[t])
    BY <1>1, <1>2, <1>3, <1>5, <1>7, DoneAccounted
  <2> QED BY <1>1, <1>8, <2>1, BecomesAccounted
<1>9. CASE r \in CanFail /\ Becomes(t, failed)
  <2>1. failed.fn \notin Closing => Accounted(failed, hf[t])
    BY <1>1, <1>2, <1>3, <1>6, <1>7, <1>9, DoneAccounted
  <2> QED BY <1>1, <1>9, <2>1, BecomesAccounted
<1> QED BY <1>1, <1>8, <1>9

\* A release gives back what the frame holds; an inner one is over with it.
LEMMA ReleaseAccounted ==
    ASSUME Covered, IInv, Accounts, NEW t \in Task, Release(t)
    PROVE  Accounts'
<1> DEFINE r == At(t).r
           n == Released(Top(t), r)
           fr == [Top(t) EXCEPT !.net = n, !.ph = "check"]
<1>1. /\ depth[t] > 0 /\ Top(t).ph = "run" /\ At(t).op = "rel"
      /\ Disciplined(Top(t), At(t)) /\ Becomes(t, fr)
      /\ depth' = depth /\ hf' = hf
  BY DEF Release, Active
<1>2. /\ Top(t) \in FrameType /\ FrameOK(Top(t), hf[t]) /\ Calling(Top(t)) = At(t)
      /\ Top(t).fn \in Func /\ Top(t).pc \in DOMAIN Body[Top(t).fn]
      /\ Top(t).fn \notin Closing => Accounted(Top(t), hf[t])
  BY <1>1, TopAccounted
<1>3. ~(hf[t] /\ ~Top(t).irq)
  BY <1>1, <1>2 DEF FrameOK
<1>4. \/ n = [Top(t).net EXCEPT ![r] = @ - 1] /\ r \notin Top(t).null \cap Tolerant
      \/ n = Top(t).net /\ r \in Top(t).null \cap Tolerant
  BY DEF Released
<1> HIDE DEF n
<1>5. /\ fr.net = n /\ fr.null = Top(t).null /\ fr.fn = Top(t).fn /\ fr.pc = Top(t).pc
      /\ fr.mask = Top(t).mask /\ fr.irq = Top(t).irq /\ fr.ph = "check"
  BY <1>2 DEF FrameType
<1> HIDE DEF fr
<1>6. ASSUME Top(t).fn \notin Closing
      PROVE  Accounted(fr, hf[t])
  <2>1. Undoable(Top(t), r)
    BY <1>1, <1>2, <1>6, ReleasesItsOwn
  <2>2. \/ n = [Top(t).net EXCEPT ![r] = @ - 1] /\ Top(t).net[r] = 1
        \/ n = Top(t).net /\ r \in Top(t).null \cap Tolerant
    BY <1>4, <2>1 DEF Undoable
  <2>3. \A s \in Undo[Top(t).fn] \ Outer :
            hecaton_check_bit(Top(t).mask, pairmask_id[Top(t).fn][s]) => Undoable(Top(t), s)
    BY <1>1, <1>2, <1>6, BeforeStatement
  <2> QED BY <1>1, <1>2, <1>3, <1>5, <1>6, <2>2, <2>3, DoneAccounted
<1> QED BY <1>1, <1>5, <1>6, BecomesAccounted

\* Statements and faults that take and give nothing.
LEMMA PlainAccounted ==
    ASSUME IInv, Accounts, NEW t \in Task, Work(t) \/ Branch(t) \/ SkipBlock(t) \/ Fault(t)
    PROVE  Accounts'
<1> DEFINE done == [Top(t) EXCEPT !.ph = "check"]
           in == [Top(t) EXCEPT !.ph = "then"]
           on == [Top(t) EXCEPT !.pc = At(t).k]
<1>1. /\ depth[t] > 0 /\ Top(t).ph = "run" /\ depth' = depth /\ At(t).op # "ret"
      /\ \/ Becomes(t, done) /\ (At(t).op = "work" \/ (~Top(t).irq /\ hf'[t]))
         \/ Becomes(t, in)
         \/ Becomes(t, on)
      /\ hf' = hf \/ (~Top(t).irq /\ hf' = [hf EXCEPT ![t] = TRUE])
  <2>1. hf \in [Task -> BOOLEAN]
    BY DEF IInv, TInv, TypeOK
  <2>2. CASE Work(t) \/ Branch(t) \/ SkipBlock(t)
    BY <2>2 DEF Work, Branch, SkipBlock, Active
  <2>3. CASE Fault(t)
    <3>1. hf'[t]
      BY <2>1, <2>3 DEF Fault
    <3> QED BY <2>3, <3>1 DEF Fault, Active, InIrq
  <2> QED BY <2>2, <2>3
<1>2. /\ Top(t) \in FrameType /\ Calling(Top(t)) = At(t)
      /\ Top(t).fn \notin Closing => Accounted(Top(t), hf[t])
      /\ hf \in [Task -> BOOLEAN]
      /\ Top(t).fn \in Func /\ Top(t).pc \in DOMAIN Body[Top(t).fn]
  BY <1>1, TopAccounted DEF IInv, TInv, TypeOK
<1>3. hf'[t] = hf[t] \/ ~Top(t).irq
  BY <1>1
<1>4. \A u \in Task \ {t} : hf'[u] = hf[u]
  BY <1>1, <1>2
<1>5. ASSUME NEW fr, fr.net = Top(t).net, fr.null = Top(t).null, fr.fn = Top(t).fn,
             fr.mask = Top(t).mask, fr.irq = Top(t).irq, fr.ph \in {"run", "check", "then"},
             fr.ph = "check" => Settled(fr, hf'[t]) = fr.mask, Becomes(t, fr)
      PROVE  Accounts'
  <2>1. ASSUME fr.fn \notin Closing
        PROVE  Accounted(fr, hf'[t])
    <3>1. \A s \in Undo[fr.fn] \ Outer :
            hecaton_check_bit(fr.mask, pairmask_id[fr.fn][s]) => Undoable(fr, s)
      <4>1. \A s \in Undo[Top(t).fn] \ Outer :
              hecaton_check_bit(Top(t).mask, pairmask_id[Top(t).fn][s]) => Undoable(Top(t), s)
        BY <1>1, <1>2, <1>5, <2>1, BeforeStatement
      <4> QED BY <1>5, <4>1 DEF Undoable
    <3>2. \A s \in Res : /\ fr.net[s] \in {0, 1}
                         /\ fr.net[s] = 1 => s \in Undo[fr.fn] /\ Fits(fr.fn, s)
      BY <1>2, <1>5, <2>1 DEF Accounted
    <3>3. InnerExact(fr, fr.mask, hf'[t])
      BY <3>1 DEF InnerExact
    <3> QED BY <1>5, <3>2, <3>3 DEF Accounted
  <2> QED BY <1>1, <1>3, <1>4, <1>5, <2>1, BecomesAccounted
<1>6. /\ done.net = Top(t).net /\ done.null = Top(t).null /\ done.fn = Top(t).fn
      /\ done.mask = Top(t).mask /\ done.irq = Top(t).irq /\ done.ph = "check"
      /\ done.pc = Top(t).pc
  BY <1>2 DEF FrameType
<1>7. /\ in.net = Top(t).net /\ in.null = Top(t).null /\ in.fn = Top(t).fn
      /\ in.mask = Top(t).mask /\ in.irq = Top(t).irq /\ in.ph = "then"
  BY <1>2 DEF FrameType
<1>8. /\ on.net = Top(t).net /\ on.null = Top(t).null /\ on.fn = Top(t).fn
      /\ on.mask = Top(t).mask /\ on.irq = Top(t).irq /\ on.ph = "run"
  BY <1>1, <1>2 DEF FrameType
<1> HIDE DEF done, in, on
<1>9. CASE Becomes(t, done) /\ (At(t).op = "work" \/ (~Top(t).irq /\ hf'[t]))
  <2>1. Settled(done, hf'[t]) = done.mask
    BY <1>6, <1>9 DEF Settled, StampAfter, At
  <2> QED BY <1>5, <1>6, <1>9, <2>1
<1>10. CASE Becomes(t, in)
  BY <1>5, <1>7, <1>10
<1>11. CASE Becomes(t, on)
  BY <1>5, <1>8, <1>11
<1> QED BY <1>1, <1>9, <1>10, <1>11

\* An hgoto that does not jump: behind an inner undo the function returns.
LEMMA PassAccounted ==
    ASSUME Sheltered, Covered, IInv, Accounts, NEW t \in Task, Pass(t) \/ PassBrace(t)
    PROVE  Accounts'
<1> DEFINE f == Top(t).fn
           p == Top(t).pc
           mask == IF Top(t).ph = "check" THEN StampAfter(f, p, Top(t).mask)
                   ELSE StampInThen(f, p, Top(t).mask)
           fr == [Top(t) EXCEPT !.mask = mask, !.pc = p + 1, !.ph = "run"]
<1>1. /\ depth[t] > 0 /\ depth' = depth /\ hf' = hf /\ Becomes(t, fr)
      /\ Top(t).ph \in {"check", "then"} /\ ~(hf[t] /\ ~Top(t).irq)
  BY DEF Pass, PassBrace, Active, hgoto, InIrq
<1>2. /\ Top(t) \in FrameType /\ Placed(Top(t)) /\ Calling(Top(t)) = Body[f][p]
      /\ f \in Func /\ p \in DOMAIN Body[f]
      /\ f \notin Closing => Accounted(Top(t), hf[t])
  BY <1>1, TopAccounted DEF At
<1>3. /\ fr.net = Top(t).net /\ fr.null = Top(t).null /\ fr.fn = f /\ fr.mask = mask
      /\ fr.irq = Top(t).irq /\ fr.ph = "run" /\ fr.pc = p + 1
  BY <1>2 DEF FrameType
<1> HIDE DEF fr
<1>4. ASSUME f \notin Closing, NEW s \in Undo[f] \ Outer,
             hecaton_check_bit(mask, pairmask_id[f][s])
      PROVE  Undoable(fr, s) \/ Over(fr, s, hf[t])
  <2>1. CASE Top(t).ph = "check"
    <3>1. Undoable(Top(t), s) \/ Behind(Top(t), s)
      <4>1. Settled(Top(t), hf[t]) = mask
        BY <1>1, <2>1 DEF Settled
      <4>2. Undoable(Top(t), s) \/ Over(Top(t), s, hf[t])
        BY <1>2, <1>4, <2>1, <4>1 DEF Accounted, InnerExact
      <4> QED BY <2>1, <4>2 DEF Over
    <3>2. CASE Undoable(Top(t), s)
      BY <1>3, <3>2 DEF Undoable
    <3>3. CASE Behind(Top(t), s)
      <4>1. Body[f][p + 1].op = "ret"
        BY <1>2, <1>4, <3>3 DEF Behind, Covered
      <4> QED BY <1>3, <4>1 DEF Over, Calling
    <3> QED BY <3>1, <3>2, <3>3
  <2>2. CASE Top(t).ph = "then"
    <3>1. Body[f][p].op # "cond"
      BY <1>2 DEF Sheltered
    <3>2. mask = Top(t).mask
      BY <2>2, <3>1 DEF StampInThen
    <3>3. Undoable(Top(t), s)
      BY <1>2, <1>4, <2>2, <3>2 DEF Accounted, InnerExact, Over, Behind
    <3> QED BY <1>3, <3>3 DEF Undoable
  <2> QED BY <1>1, <2>1, <2>2
<1>5. ASSUME f \notin Closing
      PROVE  Accounted(fr, hf[t])
  <2>1. InnerExact(fr, fr.mask, hf[t])
    BY <1>3, <1>4, <1>5 DEF InnerExact
  <2>2. \A s \in Res : /\ fr.net[s] \in {0, 1}
                       /\ fr.net[s] = 1 => s \in Undo[fr.fn] /\ Fits(fr.fn, s)
    BY <1>2, <1>3, <1>5 DEF Accounted
  <2> QED BY <1>3, <2>1, <2>2 DEF Accounted
<1> QED BY <1>1, <1>3, <1>5, BecomesAccounted

\* A cleanup block starts with what the mask says, all of which can be undone.
LEMMA CleanupAccounted ==
    ASSUME IInv, Accounts, NEW t \in Task, Cleanup(t) \/ CleanupOfClosing(t)
    PROVE  Accounts'
<1> DEFINE fr == [Top(t) EXCEPT !.ph = "undo", !.todo = Marked(Top(t))]
           dying == [Top(t) EXCEPT !.ph = "dying"]
<1>1. /\ depth[t] > 0 /\ Top(t).ph \in {"check", "then"} /\ hf[t] /\ ~Top(t).irq
      /\ depth' = depth /\ (hf' = hf \/ hf' = [hf EXCEPT ![t] = FALSE])
      /\ \/ Top(t).fn \notin Closing /\ Becomes(t, fr)
         \/ Top(t).fn \in Closing /\ Becomes(t, dying)
  BY DEF Cleanup, CleanupOfClosing, Active, hgoto, InIrq
<1>2. /\ Top(t) \in FrameType /\ FrameOK(Top(t), hf[t]) /\ Top(t).fn \in Func
      /\ Top(t).fn \notin Closing => Accounted(Top(t), hf[t])
      /\ hf \in [Task -> BOOLEAN]
  BY <1>1, TopAccounted DEF IInv, TInv, TypeOK
<1>3. \A u \in Task \ {t} : hf'[u] = hf[u]
  BY <1>1, <1>2
<1>4. CASE Top(t).fn \notin Closing /\ Becomes(t, fr)
  <2>1. /\ fr.net = Top(t).net /\ fr.null = Top(t).null /\ fr.fn = Top(t).fn
        /\ fr.todo = Marked(Top(t)) /\ fr.ph = "undo"
    BY <1>2 DEF FrameType
  <2> HIDE DEF fr
  <2>2. Top(t).ph = "check" /\ Settled(Top(t), hf[t]) = Top(t).mask
    BY <1>1, <1>2 DEF FrameOK, Settled
  <2>3. ASSUME NEW r \in Marked(Top(t))
        PROVE  Undoable(Top(t), r)
    <3>1. r \in Undo[Top(t).fn] /\ hecaton_check_bit(Top(t).mask, pairmask_id[Top(t).fn][r])
      BY <2>3 DEF Marked
    <3>2. CASE r \in Outer
      BY <1>2, <2>2, <3>1, <3>2 DEF FrameOK, Mirrors
    <3>3. CASE r \notin Outer
      <4>1. Undoable(Top(t), r) \/ Over(Top(t), r, hf[t])
        BY <1>2, <1>4, <2>2, <3>1, <3>3 DEF Accounted, InnerExact
      <4> QED BY <1>1, <2>2, <4>1 DEF Over
    <3> QED BY <3>2, <3>3
  <2>4. \A s \in Res : /\ fr.net[s] \in {0, 1}
                       /\ fr.net[s] = 1 => s \in Undo[fr.fn] /\ Fits(fr.fn, s)
    BY <1>2, <1>4, <2>1 DEF Accounted
  <2>5. \A r \in fr.todo : Undoable(fr, r)
    BY <2>1, <2>3 DEF Undoable
  <2>6. Accounted(fr, hf'[t])
    BY <2>1, <2>4, <2>5 DEF Accounted
  <2> QED BY <1>1, <1>3, <1>4, <2>6, BecomesAccounted
<1>5. CASE Top(t).fn \in Closing /\ Becomes(t, dying)
  <2>1. dying.fn \in Closing
    BY <1>2, <1>5 DEF FrameType
  <2> HIDE DEF dying
  <2> QED BY <1>1, <1>3, <1>5, <2>1, BecomesAccounted
<1> QED BY <1>1, <1>4, <1>5

\* An undo of a cleanup block finds what it undoes.
LEMMA UndoAccounted ==
    ASSUME IInv, Accounts, NEW t \in Task, UndoOne(t)
    PROVE  Accounts'
<1> PICK r \in Res : /\ Undoes(t, r)
                     /\ Becomes(t, [Top(t) EXCEPT !.net = Released(Top(t), r),
                                                  !.todo = @ \ {r}])
  BY Zenon DEF UndoOne
<1> DEFINE n == Released(Top(t), r)
           fr == [Top(t) EXCEPT !.net = n, !.todo = @ \ {r}]
<1>1. depth[t] > 0 /\ Top(t).ph = "undo" /\ depth' = depth /\ hf' = hf /\ r \in Top(t).todo
  BY DEF UndoOne, Undoes, Active, IsNext
<1>2. /\ Top(t) \in FrameType /\ FrameOK(Top(t), hf[t]) /\ Top(t).fn \in Func
      /\ Top(t).fn \notin Closing /\ Accounted(Top(t), hf[t])
  BY <1>1, TopAccounted DEF FrameOK
<1>3. /\ Top(t).net \in [Res -> Int] /\ Undoable(Top(t), r)
      /\ \A s \in Res : /\ Top(t).net[s] \in {0, 1}
                        /\ Top(t).net[s] = 1 => s \in Undo[Top(t).fn] /\ Fits(Top(t).fn, s)
  BY <1>1, <1>2 DEF FrameType, Accounted
<1>4. \/ n = [Top(t).net EXCEPT ![r] = @ - 1] /\ Top(t).net[r] = 1
      \/ n = Top(t).net
  BY <1>3 DEF Released, Undoable
<1> HIDE DEF n
<1>5. /\ fr.net = n /\ fr.null = Top(t).null /\ fr.fn = Top(t).fn
      /\ fr.todo = Top(t).todo \ {r} /\ fr.ph = "undo"
  BY <1>1, <1>2 DEF FrameType
<1>6. Becomes(t, fr)
  BY DEF n
<1> HIDE DEF fr
<1>7. /\ \A s \in Res \ {r} : n[s] = Top(t).net[s]
      /\ n[r] \in {0, 1} /\ (n[r] = 1 => Top(t).net[r] = 1)
  BY <1>3, <1>4
<1>8. \A s \in Res : /\ fr.net[s] \in {0, 1}
                     /\ fr.net[s] = 1 => s \in Undo[fr.fn] /\ Fits(fr.fn, s)
  BY <1>3, <1>5, <1>7
<1>9. \A s \in fr.todo : Undoable(fr, s)
  <2> SUFFICES ASSUME NEW s \in fr.todo PROVE Undoable(fr, s)
    OBVIOUS
  <2>1. s \in Top(t).todo /\ s \in Res \ {r}
    BY <1>2, <1>5 DEF FrameType
  <2>2. Undoable(Top(t), s)
    BY <1>1, <1>2, <2>1 DEF Accounted
  <2> QED BY <1>5, <1>7, <2>1, <2>2 DEF Undoable
<1>10. Accounted(fr, hf'[t])
  BY <1>5, <1>8, <1>9 DEF Accounted
<1> QED BY <1>1, <1>6, <1>10, BecomesAccounted

\* Calls: what a statement or a cleanup block has released for it is held.
LEMMA CallAccounted ==
    ASSUME Covered, IInv, Accounts, NEW t \in Task,
           Call(t) \/ Enter(t) \/ Interrupt(t) \/ UndoByCall(t)
    PROVE  Accounts'
<1>1. CASE Call(t)
  <2> DEFINE fr == [Top(t) EXCEPT !.ph = "call"]
  <2>1. /\ depth[t] > 0 /\ Top(t).ph = "run" /\ hf' = hf
        /\ Disciplined(Top(t), At(t)) /\ At(t).f # NoFunc /\ At(t).op \in {"acq", "rel", "work"}
        /\ Push(t, fr, At(t).f, Top(t).irq)
    BY <1>1 DEF Call, Active
  <2>2. /\ Top(t) \in FrameType /\ Calling(Top(t)) = At(t)
        /\ Top(t).fn \in Func /\ Top(t).pc \in DOMAIN Body[Top(t).fn]
        /\ Top(t).fn \notin Closing => Accounted(Top(t), hf[t])
    BY <2>1, TopAccounted
  <2>3. /\ fr.net = Top(t).net /\ fr.null = Top(t).null /\ fr.ph = "call" /\ fr.pc = Top(t).pc
        /\ fr.fn = Top(t).fn /\ fr.mask = Top(t).mask
    BY <2>2 DEF FrameType
  <2> HIDE DEF fr
  <2>4. ASSUME Top(t).fn \notin Closing
        PROVE  Accounted(fr, hf[t])
    <3>1. \A s \in Undo[Top(t).fn] \ Outer :
            hecaton_check_bit(Top(t).mask, pairmask_id[Top(t).fn][s]) => Undoable(Top(t), s)
      BY <2>1, <2>2, <2>4, BeforeStatement
    <3>2. InnerExact(fr, fr.mask, hf[t])
      BY <2>3, <3>1 DEF InnerExact, Undoable
    <3>3. Calling(fr) = At(t)
      BY <2>2, <2>3 DEF Calling
    <3>4. At(t).op = "rel" => fr.net[At(t).r] = 1
      <4>1. At(t).op = "rel" => At(t).r \notin Tolerant
        BY <2>1, <2>2, BowknotAssumption DEF At
      <4>2. At(t).op = "rel" => Undoable(Top(t), At(t).r)
        BY <2>1, <2>2, <2>4, ReleasesItsOwn
      <4> QED BY <2>3, <4>1, <4>2 DEF Undoable
    <3>5. \A s \in Res : /\ fr.net[s] \in {0, 1}
                         /\ fr.net[s] = 1 => s \in Undo[fr.fn] /\ Fits(fr.fn, s)
      BY <2>2, <2>3, <2>4 DEF Accounted
    <3> QED BY <2>3, <3>2, <3>3, <3>4, <3>5 DEF Accounted
  <2> QED BY <2>1, <2>3, <2>4, PushAccounted
<1>2. CASE Enter(t)
  <2>1. PICK f \in Entry : Push(t, NoFrame, f, FALSE)
    BY <1>2 DEF Enter
  <2>2. depth[t] = 0 /\ ~(depth[t] > 0) /\ \A u \in Task \ {t} : hf'[u] = hf[u]
    <3>1. hf \in [Task -> BOOLEAN] /\ hf' = [hf EXCEPT ![t] = FALSE] /\ depth[t] = 0
      BY <1>2 DEF Enter, IInv, TInv, TypeOK
    <3> QED BY <3>1
  <2> QED BY <2>1, <2>2, PushAccounted
<1>3. CASE Interrupt(t)
  <2>1. PICK f \in IrqEntry : Push(t, IF depth[t] = 0 THEN NoFrame ELSE Top(t), f, TRUE)
    BY <1>3 DEF Interrupt
  <2>2. hf' = hf
    BY <1>3 DEF Interrupt
  <2>3. depth[t] > 0 => (IF depth[t] = 0 THEN NoFrame ELSE Top(t)) = Top(t)
    OBVIOUS
  <2>4. depth[t] > 0 => (Top(t).fn \notin Closing => Accounted(Top(t), hf[t]))
    BY TopAccounted
  <2> QED BY <2>1, <2>2, <2>3, <2>4, PushAccounted
<1>4. CASE UndoByCall(t)
  <2> PICK r \in Res :
             /\ Undoes(t, r)
             /\ Callee(Top(t).fn, r) # NoFunc
             /\ Push(t, [Top(t) EXCEPT !.ph = "ucall", !.pc = First[Top(t).fn][r],
                                       !.todo = @ \ {r}],
                     Callee(Top(t).fn, r), Top(t).irq)
    BY <1>4, Zenon DEF UndoByCall
  <2> DEFINE f == Callee(Top(t).fn, r)
             fr == [Top(t) EXCEPT !.ph = "ucall", !.pc = First[Top(t).fn][r], !.todo = @ \ {r}]
  <2>1. depth[t] > 0 /\ Top(t).ph = "undo" /\ hf' = hf /\ r \in Top(t).todo
    BY <1>4 DEF UndoByCall, Undoes, Active, IsNext
  <2>2. /\ Top(t) \in FrameType /\ FrameOK(Top(t), hf[t]) /\ Top(t).fn \in Func
        /\ Placed(Top(t)) /\ Top(t).fn \notin Closing /\ Accounted(Top(t), hf[t])
    BY <2>1, TopAccounted DEF FrameOK
  <2>3. Push(t, fr, f, Top(t).irq)
    OBVIOUS
  <2>4. /\ fr.net = Top(t).net /\ fr.null = Top(t).null /\ fr.ph = "ucall"
        /\ fr.fn = Top(t).fn /\ fr.pc = First[Top(t).fn][r] /\ fr.todo = Top(t).todo \ {r}
    BY <2>2 DEF FrameType
  <2> HIDE DEF fr
  <2>5. /\ First[Top(t).fn][r] \in DOMAIN Body[Top(t).fn]
        /\ Body[Top(t).fn][First[Top(t).fn][r]].op = "rel"
        /\ Body[Top(t).fn][First[Top(t).fn][r]].r = r
    BY <2>1, <2>2, FirstIsUndo DEF Placed, IsUndo
  <2>6. r \notin Tolerant
    BY <2>2, <2>5, BowknotAssumption DEF Callee
  <2>7. Undoable(Top(t), r) /\ \A s \in fr.todo : Undoable(Top(t), s)
    BY <2>1, <2>2, <2>4 DEF Accounted
  <2>8. Calling(fr).r = r /\ fr.net[r] = 1
    BY <2>4, <2>5, <2>6, <2>7 DEF Calling, Undoable
  <2>9. \A s \in fr.todo : Undoable(fr, s)
    BY <2>4, <2>7 DEF Undoable
  <2>10. \A s \in Res : /\ fr.net[s] \in {0, 1}
                        /\ fr.net[s] = 1 => s \in Undo[fr.fn] /\ Fits(fr.fn, s)
    BY <2>2, <2>4 DEF Accounted
  <2>11. Accounted(fr, hf'[t])
    BY <2>4, <2>8, <2>9, <2>10 DEF Accounted
  <2> QED BY <2>1, <2>3, <2>11, PushAccounted
<1> QED BY <1>1, <1>2, <1>3, <1>4

\* A call that returns to the statement that made it.
LEMMA ReturnAccounted ==
    ASSUME Sheltered, Covered, NEW h, NEW fr \in FrameType, Placed(fr), FrameOK(fr, h),
           fr.fn \notin Closing, Accounted(fr, h), fr.ph = "call", ~(h /\ ~fr.irq),
           NEW net, NEW err \in BOOLEAN, Delivers(Calling(fr), net, err),
           NEW new, new.fn = fr.fn, new.pc = fr.pc, new.mask = fr.mask,
           new.irq = fr.irq, new.ph = "check",
           new.net = Plus(fr.net, net), new.null = Outcome(fr, err)
    PROVE  Accounted(new, h)
<1> DEFINE r == Calling(fr).r
<1>1. /\ fr.fn \in Func \ Closing /\ fr.pc \in DOMAIN Body[fr.fn]
      /\ Calling(fr).op \in {"acq", "rel", "work"}
      /\ fr.net \in [Res -> Int]
      /\ Calling(fr).op \in {"acq", "rel"} => r \in Res
  BY Statements DEF Placed, FrameType, Calling
<1>2. \A s \in Undo[fr.fn] \ Outer :
         hecaton_check_bit(fr.mask, pairmask_id[fr.fn][s]) => Undoable(fr, s)
  BY DEF Accounted, InnerExact, Over, Behind
<1>3. CASE Calling(fr).op = "acq"
  <2>1. fr.net[r] = 0
    BY <1>3 DEF FrameOK, Disciplined
  <2>2. \/ new.net = [fr.net EXCEPT ![r] = 1] /\ new.null = fr.null \ {r}
        \/ new.net = fr.net /\ new.null = fr.null \cup {r} /\ r \in Tolerant
    <3>1. CASE err
      <4>1. new.net = fr.net /\ r \in Tolerant
        BY <1>1, <1>3, <3>1, PlusZero DEF Delivers, Sheltered
      <4> QED BY <1>3, <3>1, <4>1 DEF Outcome
    <3>2. CASE ~err
      <4>1. new.net = [fr.net EXCEPT ![r] = 1]
        BY <1>1, <1>3, <2>1, <3>2, PlusOne DEF Delivers
      <4> QED BY <1>3, <3>2, <4>1 DEF Outcome
    <3> QED BY <3>1, <3>2
  <2> HIDE DEF r
  <2> QED BY <1>1, <1>2, <1>3, <2>2, DoneAccounted DEF r
<1>4. CASE Calling(fr).op = "rel"
  <2>1. new.net = [fr.net EXCEPT ![r] = @ - 1] /\ new.null = fr.null
    BY <1>1, <1>4, PlusMinusOne DEF Delivers, Outcome
  <2>2. fr.net[r] = 1
    BY <1>4 DEF Accounted
  <2> QED BY <1>1, <1>2, <1>4, <2>1, <2>2, DoneAccounted
<1>5. CASE Calling(fr).op = "work"
  <2>1. new.net = fr.net /\ new.null = fr.null
    BY <1>1, <1>5, PlusZero DEF Delivers, Outcome
  <2> QED BY <1>1, <1>2, <1>5, <2>1, DoneAccounted
<1> QED BY <1>1, <1>3, <1>4, <1>5

\* A call that returns to the cleanup block that made it.
LEMMA ReturnToCleanupAccounted ==
    ASSUME NEW h, NEW g, NEW fr \in FrameType, Placed(fr), FrameOK(fr, h),
           Accounted(fr, h), fr.ph = "ucall",
           NEW net, NEW err \in BOOLEAN, Delivers(Calling(fr), net, err),
           NEW new, new.fn = fr.fn, new.ph = "undo", new.todo = fr.todo,
           new.net = Plus(fr.net, net), new.null = Outcome(fr, err)
    PROVE  Accounted(new, g)
<1> DEFINE r == Calling(fr).r
<1>1. /\ Calling(fr).op = "rel" /\ r \in Res /\ fr.net \in [Res -> Int]
      /\ r \notin fr.todo /\ fr.todo \subseteq Res
  BY Statements DEF Placed, Calling, FrameType, FrameOK
<1>2. new.net = [fr.net EXCEPT ![r] = @ - 1] /\ new.null = fr.null
  BY <1>1, PlusMinusOne DEF Delivers, Outcome
<1>3. fr.net[r] = 1
  BY <1>1 DEF Accounted
<1> HIDE DEF r
<1>4. new.net[r] = 0 /\ \A s \in Res \ {r} : new.net[s] = fr.net[s]
  BY <1>1, <1>2, <1>3
<1>5. \A s \in Res : /\ new.net[s] \in {0, 1}
                     /\ new.net[s] = 1 => s \in Undo[new.fn] /\ Fits(new.fn, s)
  BY <1>4 DEF Accounted
<1>6. \A s \in new.todo : Undoable(new, s)
  BY <1>1, <1>2, <1>4 DEF Accounted, Undoable
<1> QED BY <1>5, <1>6 DEF Accounted

\* What CInv says of the frame under the one that runs.
LEMMA BelowAccounted ==
    ASSUME IInv, Accounts, NEW t \in Task, depth[t] > 1, Below(t).fn \notin Closing
    PROVE  Accounted(Below(t), hf[t])
<1>1. depth[t] \in 0..MaxDepth
  BY DEF IInv, TInv, TypeOK
<1>2. depth[t] - 1 \in 1..depth[t] /\ depth[t] # 1
  BY <1>1, BowknotAssumption
<1> QED BY <1>2 DEF Below, Accounts

\* Returns, from a call and from an entry.
LEMMA ReturnsAccounted ==
    ASSUME Sheltered, Covered, IInv, Accounts, NEW t \in Task, Return(t)
    PROVE  Accounts'
<1> DEFINE fr == Below(t)
           err == At(t).k = 1
           net == Plus(fr.net, Top(t).net)
           null == Outcome(fr, err)
           back == [Resumed(fr) EXCEPT !.net = net, !.null = null]
<1>1. depth[t] > 0 /\ Top(t).ph = "run" /\ hf' = hf
  BY DEF Return, Active
<1>2. ~(hf[t] /\ ~Top(t).irq)
  BY <1>1, TopOK DEF FrameOK
<1>3. depth[t] > 1 =>
        /\ fr \in FrameType /\ Placed(fr) /\ FrameOK(fr, hf[t])
        /\ fr.ph \in {"call", "ucall"} => (fr.irq <=> Top(t).irq)
        /\ fr.fn \notin Closing => Accounted(fr, hf[t])
  BY BelowOK, BelowAccounted
<1>4. CASE fr.ph \in {"call", "ucall"}
  <2>1. Delivers(Calling(fr), Top(t).net, err) /\ Pop(t, back) /\ err \in BOOLEAN
    BY <1>4 DEF Return
  <2>2. ASSUME depth[t] > 1, back.fn \notin Closing
        PROVE  Accounted(back, hf[t])
    <3>1. fr \in FrameType /\ Placed(fr) /\ FrameOK(fr, hf[t]) /\ ~(hf[t] /\ ~fr.irq)
      BY <1>2, <1>3, <1>4, <2>2
    <3>2. /\ net = Plus(fr.net, Top(t).net) /\ null = Outcome(fr, err)
          /\ fr.ph = "call" => Resumed(fr) = [fr EXCEPT !.ph = "check"]
          /\ fr.ph = "ucall" => Resumed(fr) = [fr EXCEPT !.ph = "undo"]
      BY DEF Resumed
    <3> HIDE DEF fr, net, null, err
    <3>3. /\ back.fn = fr.fn /\ back.pc = fr.pc /\ back.mask = fr.mask /\ back.irq = fr.irq
          /\ back.todo = fr.todo /\ back.net = net /\ back.null = null
          /\ fr.ph = "call" => back.ph = "check"
          /\ fr.ph = "ucall" => back.ph = "undo"
      BY <1>4, <3>1, <3>2 DEF FrameType
    <3> HIDE DEF back
    <3>4. Accounted(fr, hf[t]) /\ fr.fn \notin Closing
      BY <1>3, <2>2, <3>3
    <3>5. CASE fr.ph = "call"
      BY <2>1, <3>1, <3>2, <3>3, <3>4, <3>5, ReturnAccounted
    <3>6. CASE fr.ph = "ucall"
      BY <2>1, <3>1, <3>2, <3>3, <3>4, <3>6, ReturnToCleanupAccounted
    <3> QED BY <1>4, <3>5, <3>6
  <2> HIDE DEF back
  <2> QED BY <1>1, <2>1, <2>2, PopAccounted
<1>5. CASE fr.ph \notin {"call", "ucall"}
  <2>1. Pop(t, fr)
    BY <1>5 DEF Return
  <2> QED BY <1>1, <1>3, <2>1, PopAccounted
<1> QED BY <1>4, <1>5

\* A cleanup block that is done has given everything back, and its caller is next.
LEMMA LeaveAccounted ==
    ASSUME IInv, Accounts, NEW t \in Task, Leave(t)
    PROVE  Accounts' /\ leak' = leak
<1> DEFINE fr == Resumed(Below(t))
<1>1. /\ depth[t] > 0 /\ Top(t).ph = "undo" /\ hf' = [hf EXCEPT ![t] = TRUE]
      /\ Top(t).todo = {} /\ Pop(t, fr)
      /\ leak' = [leak EXCEPT ![t] = @ \cup {r \in Res : Top(t).net[r] # 0}]
  BY DEF Leave, Active
<1>2. /\ FrameOK(Top(t), hf[t]) /\ hf \in [Task -> BOOLEAN] /\ leak \in [Task -> SUBSET Res]
      /\ Top(t).fn \notin Closing => Accounted(Top(t), hf[t])
  BY <1>1, TopAccounted DEF IInv, TInv, TypeOK
<1>3. hf'[t] = TRUE /\ \A u \in Task \ {t} : hf'[u] = hf[u]
  BY <1>1, <1>2
<1>4. ~Top(t).irq /\ Top(t).fn \notin Closing /\ OnCourse(Top(t))
  BY <1>1, <1>2 DEF FrameOK
<1>5. leak' = leak
  <2>1. \A r \in Res : Top(t).net[r] = 0
    BY <1>1, <1>2, <1>4 DEF Accounted, OnCourse
  <2>2. {r \in Res : Top(t).net[r] # 0} = {}
    BY <2>1
  <2> QED BY <1>1, <1>2, <2>2
<1>6. ASSUME depth[t] > 1, fr.fn \notin Closing
      PROVE  Accounted(fr, TRUE)
  <2>1. /\ Below(t) \in FrameType /\ FrameOK(Below(t), hf[t])
        /\ ~Below(t).irq /\ Below(t).ph = "call"
    BY <1>4, <1>6, BelowOK
  <2>2. fr = [Below(t) EXCEPT !.ph = "check"]
    BY <2>1 DEF Resumed
  <2>3. /\ fr.fn = Below(t).fn /\ fr.irq = Below(t).irq /\ fr.ph = "check"
        /\ fr.mask = Below(t).mask /\ fr.net = Below(t).net /\ fr.null = Below(t).null
    BY <2>1, <2>2 DEF FrameType
  <2> HIDE DEF fr
  <2>4. Accounted(Below(t), hf[t])
    BY <1>6, <2>3, BelowAccounted
  <2>5. Settled(fr, TRUE) = Below(t).mask
    BY <2>1, <2>3 DEF Settled
  <2>6. InnerExact(fr, Settled(fr, TRUE), TRUE)
    BY <2>1, <2>3, <2>4, <2>5 DEF Accounted, InnerExact, Over, Behind, Undoable
  <2> QED BY <2>3, <2>4, <2>6 DEF Accounted
<1> HIDE DEF fr
<1>7. Accounts'
  BY <1>1, <1>3, <1>4, <1>6, PopAccounted
<1> QED BY <1>5, <1>7

-----------------------------------------------------------------------------
(* The theorem. *)

\* Every step of a sheltered and covered program keeps CInv.
LEMMA CoveredStep == Sheltered /\ Covered /\ CInv /\ [Next]_vars => CInv'
<1> SUFFICES ASSUME Sheltered, Covered, CInv, [Next]_vars PROVE CInv'
  OBVIOUS
<1>1. IInv' /\ IInv /\ Accounts
  BY StepOK DEF CInv, Accounts
<1>2. SUFFICES Accounts' /\ HalfExecutedUndone'
  BY <1>1 DEF CInv, Accounts
<1>3. CASE UNCHANGED vars
  BY <1>1, <1>3 DEF vars, Accounts, CInv, HalfExecutedUndone
<1>4. ASSUME NEW t \in Task, Enter(t) \/ Step(t) \/ Surprise(t)
      PROVE  Accounts' /\ HalfExecutedUndone'
  <2>1. ~AcquireInCondition(t) /\ ~FaultInCondition(t) /\ ~FaultInReturn(t)
    <3>1. ASSUME depth[t] > 0
          PROVE  /\ At(t).op # "cond"
                 /\ <<Top(t).fn, Top(t).pc>> \in CanFault => At(t).op \in {"acq", "rel", "work"}
      BY <1>1, <3>1, TopOK DEF Sheltered, At
    <3> QED BY <3>1 DEF AcquireInCondition, FaultInCondition, FaultInReturn, Active
  <2>2. ~UndoFault(t)
    BY DEF UndoFault, Sheltered
  <2>3. leak \in [Task -> SUBSET Res] /\ \A u \in Task : leak[u] = {}
    BY <1>1 DEF CInv, HalfExecutedUndone, IInv, TInv, TypeOK
  <2>4. CASE Restart(t)
    <3>1. /\ \A u \in Task : 1..depth'[u] = {}
          /\ \A u \in Task : leak'[u] = {}
      BY <2>4 DEF Restart
    <3> QED BY <3>1 DEF Accounts, HalfExecutedUndone
  <2>5. CASE Enter(t)
    <3>1. leak' = [leak EXCEPT ![t] = {}]
      BY <2>5 DEF Enter
    <3>2. Accounts'
      BY <1>1, <2>5, CallAccounted
    <3> QED BY <2>3, <3>1, <3>2 DEF HalfExecutedUndone
  <2>6. CASE Call(t) \/ Interrupt(t) \/ UndoByCall(t) \/ Return(t)
    <3>1. leak' = leak
      BY <2>6 DEF Call, Interrupt, UndoByCall, Return
    <3>2. Accounts'
      BY <1>1, <2>6, CallAccounted, ReturnsAccounted
    <3> QED BY <2>3, <3>1, <3>2 DEF HalfExecutedUndone
  <2>7. CASE Leave(t)
    BY <1>1, <2>3, <2>7, LeaveAccounted DEF HalfExecutedUndone
  <2>8. CASE Acquire(t) \/ Release(t) \/ Work(t) \/ Branch(t) \/ SkipBlock(t) \/ Fault(t)
    <3>1. leak' = leak
      BY <2>8 DEF Acquire, Release, Work, Branch, SkipBlock, Fault
    <3>2. Accounts'
      BY <1>1, <2>8, AcquireAccounted, ReleaseAccounted, PlainAccounted
    <3> QED BY <2>3, <3>1, <3>2 DEF HalfExecutedUndone
  <2>9. CASE Pass(t) \/ PassBrace(t) \/ Cleanup(t) \/ CleanupOfClosing(t) \/ UndoOne(t)
    <3>1. leak' = leak
      BY <2>9 DEF Pass, PassBrace, Cleanup, CleanupOfClosing, UndoOne
    <3>2. Accounts'
      BY <1>1, <2>9, PassAccounted, CleanupAccounted, UndoAccounted
    <3> QED BY <2>3, <3>1, <3>2 DEF HalfExecutedUndone
  <2> QED BY <1>4, <2>1, <2>2, <2>4, <2>5, <2>6, <2>7, <2>8, <2>9 DEF Step, Surprise
<1>5. CASE Next
  BY <1>4, <1>5 DEF Next
<1> QED BY <1>3, <1>5

\* In every sheltered and covered program CInv always holds.
LEMMA CoveredInvariant == ASSUME Sheltered, Covered PROVE Spec => []CInv
<1>1. Init => CInv
  <2> SUFFICES ASSUME Init PROVE CInv
    OBVIOUS
  <2>1. (\A t \in Task : 1..depth[t] = {}) /\ \A t \in Task : leak[t] = {}
    BY DEF Init
  <2> QED BY <2>1, InitOK DEF CInv, HalfExecutedUndone
<1> QED BY <1>1, CoveredStep, PTL DEF Spec

\* README, "undo the half executed functions": in a sheltered and covered
\* program a function that is cut short leaves nothing it acquired behind and
\* undoes nothing it had not done, whatever its callers, callees and the other
\* tasks do.
THEOREM UndoneCorrect ==
    ASSUME Sheltered, Covered
    PROVE  Spec => []HalfExecutedUndone
<1>1. CInv => HalfExecutedUndone
  BY DEF CInv
<1> QED BY <1>1, CoveredInvariant, PTL

-----------------------------------------------------------------------------
(* Running totals. *)

\* s holds the totals of acc up to n.
IsRunning(acc, s, n) ==
    s \in [0..n -> Int] /\ s[0] = 0 /\ \A d \in 1..n : s[d] = s[d - 1] + acc[d]

\* Totals that fit an account exist up to every entry: a first entry without
\* would have totals up to the one before it, and they extend.
LEMMA RunningExists ==
    ASSUME NEW acc \in [Level -> Int]
    PROVE  \A n \in 0..MaxDepth : \E s : IsRunning(acc, s, n)
<1> DEFINE Bad == {n \in 0..MaxDepth : ~ \E s : IsRunning(acc, s, n)}
<1>1. SUFFICES ASSUME Bad # {} PROVE FALSE
  OBVIOUS
<1>2. MaxDepth \in Nat /\ Level = 1..MaxDepth
  BY BowknotAssumption DEF Level
<1>3. PICK m \in Bad : \A n \in Bad : m <= n
  <2>1. Bad \in SUBSET Nat
    BY <1>2
  <2> HIDE DEF Bad
  <2> QED BY <1>1, <2>1, LeastElement
<1>4. m # 0
  <2>1. IsRunning(acc, [d \in 0..0 |-> 0], 0)
    BY DEF IsRunning
  <2> QED BY <2>1
<1>5. m - 1 \in 0..MaxDepth /\ m \in Level /\ m \in Nat /\ ~(m <= m - 1)
  BY <1>2, <1>3, <1>4
<1>6. m - 1 \notin Bad
  BY <1>3, <1>5
<1>7. PICK s : IsRunning(acc, s, m - 1)
  BY <1>5, <1>6
<1> DEFINE new == [d \in 0..m |-> IF d = m THEN s[m - 1] + acc[m] ELSE s[d]]
<1>8. IsRunning(acc, new, m)
  <2>1. /\ s \in [0..(m - 1) -> Int] /\ s[0] = 0
        /\ \A d \in 1..(m - 1) : s[d] = s[d - 1] + acc[d]
    BY <1>7 DEF IsRunning
  <2>2. s[m - 1] + acc[m] \in Int
    BY <1>4, <1>5, <2>1
  <2>3. new \in [0..m -> Int]
    BY <1>5, <2>1, <2>2
  <2>4. new[0] = 0
    BY <1>4, <1>5, <2>1
  <2>5. ASSUME NEW d \in 1..m PROVE new[d] = new[d - 1] + acc[d]
    BY <1>4, <1>5, <2>1
  <2> HIDE DEF new
  <2> QED BY <2>3, <2>4, <2>5 DEF IsRunning
<1> HIDE DEF new
<1> QED BY <1>3, <1>8

\* Totals are determined by the account.
LEMMA RunningUnique ==
    ASSUME NEW acc, NEW bcc, NEW n \in Nat, NEW s, NEW t, NEW m \in Nat, n <= m,
           IsRunning(acc, s, n), IsRunning(bcc, t, m), \A d \in 1..n : acc[d] = bcc[d]
    PROVE  \A d \in 0..n : s[d] = t[d]
<1> DEFINE Bad == {d \in 0..n : s[d] # t[d]}
<1>1. SUFFICES ASSUME Bad # {} PROVE FALSE
  OBVIOUS
<1>2. PICK k \in Bad : \A d \in Bad : k <= d
  <2>1. Bad \in SUBSET Nat
    OBVIOUS
  <2> HIDE DEF Bad
  <2> QED BY <1>1, <2>1, LeastElement
<1>3. k # 0 /\ k \in 0..n
  BY <1>2 DEF IsRunning
<1>4. k \in 1..n /\ k \in 1..m /\ k - 1 \in 0..n /\ ~(k <= k - 1)
  BY <1>3
<1>5. s[k - 1] = t[k - 1]
  BY <1>2, <1>4
<1>6. s[k] = s[k - 1] + acc[k] /\ t[k] = t[k - 1] + bcc[k]
  BY <1>4 DEF IsRunning
<1> QED BY <1>2, <1>4, <1>5, <1>6

\* The recursive definition of Running has a solution, the totals.
LEMMA RunningRuns ==
    ASSUME NEW acc \in [Level -> Int]
    PROVE  IsRunning(acc, Running(acc), MaxDepth)
<1>1. MaxDepth \in Nat
  BY BowknotAssumption
<1>2. PICK s : IsRunning(acc, s, MaxDepth)
  BY <1>1, RunningExists
<1>3. s = [d \in 0..MaxDepth |-> IF d = 0 THEN 0 ELSE s[d - 1] + acc[d]]
  BY <1>1, <1>2 DEF IsRunning
<1> DEFINE sum == Running(acc)
<1>4. sum = [d \in 0..MaxDepth |-> IF d = 0 THEN 0 ELSE sum[d - 1] + acc[d]]
  BY <1>3 DEF Running
<1> HIDE DEF sum
<1>5. sum[0] = 0 /\ \A d \in 1..MaxDepth : sum[d] = sum[d - 1] + acc[d]
  BY <1>1, <1>4
<1>6. \A d \in 0..MaxDepth : sum[d] \in Int
  <2> DEFINE Bad == {d \in 0..MaxDepth : sum[d] \notin Int}
  <2>1. SUFFICES ASSUME Bad # {} PROVE FALSE
    OBVIOUS
  <2>2. PICK k \in Bad : \A d \in Bad : k <= d
    <3>1. Bad \in SUBSET Nat
      BY <1>1
    <3> HIDE DEF Bad
    <3> QED BY <2>1, <3>1, LeastElement
  <2>3. k # 0 /\ k \in 0..MaxDepth
    BY <1>5, <2>2
  <2>4. k \in Level /\ k - 1 \in 0..MaxDepth /\ ~(k <= k - 1)
    BY <1>1, <2>3 DEF Level
  <2>5. sum[k - 1] \in Int
    BY <2>2, <2>4
  <2> QED BY <1>5, <2>2, <2>4, <2>5 DEF Level
<1>7. sum \in [0..MaxDepth -> Int]
  <2>1. sum = [d \in 0..MaxDepth |-> sum[d]]
    BY <1>4
  <2> QED BY <1>6, <2>1
<1> QED BY <1>5, <1>7 DEF IsRunning, sum

-----------------------------------------------------------------------------
(* The totals of a stack. *)

\* The recurrence of the totals.
LEMMA TotalAdds ==
    ASSUME NEW st \in [Level -> FrameType], NEW r \in Res, NEW side
    PROVE  /\ Total(st, r, side) \in [0..MaxDepth -> Int]
           /\ Total(st, r, side)[0] = 0
           /\ \A d \in Level : Total(st, r, side)[d]
                = Total(st, r, side)[d - 1] + IF Side(st[d]) = side THEN st[d].net[r] ELSE 0
<1> DEFINE acc == [d \in Level |-> IF Side(st[d]) = side THEN st[d].net[r] ELSE 0]
<1>1. \A d \in Level : st[d].net[r] \in Int
  BY DEF FrameType
<1>2. acc \in [Level -> Int]
  BY <1>1
<1>3. \A d \in Level : acc[d] = IF Side(st[d]) = side THEN st[d].net[r] ELSE 0
  OBVIOUS
<1>4. Total(st, r, side) = Running(acc)
  BY DEF Total
<1> HIDE DEF acc
<1>5. IsRunning(acc, Running(acc), MaxDepth)
  BY <1>2, RunningRuns
<1> QED BY <1>3, <1>4, <1>5 DEF IsRunning, Level

\* Stacks that agree up to n have the same totals up to n.
LEMMA TotalAgrees ==
    ASSUME NEW st \in [Level -> FrameType], NEW new \in [Level -> FrameType],
           NEW r \in Res, NEW side, NEW n \in 0..MaxDepth,
           \A d \in 1..n : new[d].net[r] = st[d].net[r] /\ Side(new[d]) = Side(st[d])
    PROVE  \A d \in 0..n : Total(new, r, side)[d] = Total(st, r, side)[d]
<1> DEFINE acc == [d \in Level |-> IF Side(st[d]) = side THEN st[d].net[r] ELSE 0]
           bcc == [d \in Level |-> IF Side(new[d]) = side THEN new[d].net[r] ELSE 0]
<1>1. \A d \in Level : st[d].net[r] \in Int /\ new[d].net[r] \in Int
  BY DEF FrameType
<1>2. acc \in [Level -> Int] /\ bcc \in [Level -> Int]
  BY <1>1
<1>3. MaxDepth \in Nat /\ \A d \in 1..n : d \in Level
  BY BowknotAssumption DEF Level
<1>4. \A d \in 1..n : bcc[d] = acc[d]
  BY <1>3
<1>5. Total(st, r, side) = Running(acc) /\ Total(new, r, side) = Running(bcc)
  BY DEF Total
<1> HIDE DEF acc, bcc
<1>6. IsRunning(acc, Running(acc), MaxDepth) /\ IsRunning(bcc, Running(bcc), MaxDepth)
  BY <1>2, RunningRuns
<1> DEFINE part == [d \in 0..n |-> Running(bcc)[d]]
<1>7. n \in Nat /\ n <= MaxDepth
  BY <1>3
<1>8. IsRunning(bcc, part, n)
  BY <1>3, <1>6, <1>7 DEF IsRunning
<1>9. \A d \in 0..n : part[d] = Running(bcc)[d]
  OBVIOUS
<1> HIDE DEF part
<1>10. \A d \in 0..n : part[d] = Running(acc)[d]
  BY <1>3, <1>4, <1>6, <1>7, <1>8, RunningUnique
<1> QED BY <1>5, <1>9, <1>10

\* The stacks of a state, and the totals of its tasks.
LEMMA StackFits ==
    ASSUME TInv, NEW t \in Task
    PROVE  /\ frame[t] \in [Level -> FrameType]
           /\ depth[t] \in 0..MaxDepth /\ MaxDepth \in Nat
BY BowknotAssumption DEF TInv, TypeOK

\* What the other tasks have does not change.
LEMMA TotalsOfOthers ==
    ASSUME NEW t \in Task, NEW u \in Task \ {t}, TInv,
           \/ \E fr : Becomes(t, fr) /\ depth' = depth
           \/ \E fr, f, irq : Push(t, fr, f, irq)
           \/ \E fr : Pop(t, fr)
    PROVE  frame'[u] = frame[u] /\ depth'[u] = depth[u]
BY DEF Becomes, Push, Pop, TInv, TypeOK

\* A step of the last frame changes the last total by what it does itself.
LEMMA BecomesTotals ==
    ASSUME TInv, TInv', NEW t \in Task, depth[t] > 0, depth' = depth,
           NEW fr, Becomes(t, fr), Side(fr) = Side(Top(t)), NEW r \in Res, NEW side
    PROVE  /\ \A d \in 0..(depth[t] - 1) :
                Total(frame'[t], r, side)[d] = Total(frame[t], r, side)[d]
           /\ Total(frame'[t], r, side)[depth[t]] = Total(frame[t], r, side)[depth[t]]
                + IF Side(Top(t)) = side THEN fr.net[r] - Top(t).net[r] ELSE 0
<1>1. frame[t] \in [Level -> FrameType] /\ depth[t] \in 1..MaxDepth /\ MaxDepth \in Nat
  BY StackFits
<1>2. frame'[t] \in [Level -> FrameType]
  BY DEF TInv, TypeOK
<1>3. depth[t] \in Level /\ depth[t] - 1 \in 0..MaxDepth /\ \A d \in 1..(depth[t] - 1) : d \in Level
  BY <1>1 DEF Level
<1>4. frame'[t] = [frame[t] EXCEPT ![depth[t]] = fr]
  BY DEF Becomes, TInv, TypeOK
<1>5. frame'[t][depth[t]] = fr /\ \A d \in 1..(depth[t] - 1) : frame'[t][d] = frame[t][d]
  BY <1>1, <1>3, <1>4
<1>6. \A d \in 0..(depth[t] - 1) : Total(frame'[t], r, side)[d] = Total(frame[t], r, side)[d]
  BY <1>1, <1>2, <1>3, <1>5, TotalAgrees
<1>7. /\ Total(frame[t], r, side)[depth[t]] = Total(frame[t], r, side)[depth[t] - 1]
            + IF Side(Top(t)) = side THEN Top(t).net[r] ELSE 0
      /\ Total(frame[t], r, side)[depth[t] - 1] \in Int
  BY <1>1, <1>3, TotalAdds DEF Top
<1>8. Total(frame'[t], r, side)[depth[t]] = Total(frame'[t], r, side)[depth[t] - 1]
         + IF Side(Top(t)) = side THEN fr.net[r] ELSE 0
  BY <1>2, <1>3, <1>5, TotalAdds
<1>9. fr.net[r] \in Int /\ Top(t).net[r] \in Int
  BY <1>1, <1>2, <1>3, <1>5 DEF FrameType, Top
<1>10. depth[t] - 1 \in 0..(depth[t] - 1)
  BY <1>1
<1> QED BY <1>6, <1>7, <1>8, <1>9, <1>10

\* A call starts with nothing.
LEMMA PushTotals ==
    ASSUME TInv, TInv', NEW t \in Task, NEW fr, NEW f, NEW i, Push(t, fr, f, i),
           depth[t] > 0 => fr.net = Top(t).net /\ Side(fr) = Side(Top(t)),
           NEW r \in Res, NEW side
    PROVE  /\ depth'[t] = depth[t] + 1
           /\ \A d \in 0..depth[t] : Total(frame'[t], r, side)[d] = Total(frame[t], r, side)[d]
           /\ Total(frame'[t], r, side)[depth[t] + 1] = Total(frame[t], r, side)[depth[t]]
<1>1. frame[t] \in [Level -> FrameType] /\ depth[t] \in 0..MaxDepth /\ MaxDepth \in Nat
  BY StackFits
<1>2. frame'[t] \in [Level -> FrameType]
  BY DEF TInv, TypeOK
<1>3. /\ depth'[t] = depth[t] + 1 /\ depth[t] < MaxDepth
      /\ frame'[t] = [d \in Level |-> IF d = depth[t] + 1 THEN NewFrame(f, i)
                                      ELSE IF d = depth[t] THEN fr ELSE frame[t][d]]
  BY DEF Push, TInv, TypeOK
<1>4. depth[t] + 1 \in Level /\ \A d \in 1..depth[t] : d \in Level /\ d # depth[t] + 1
  BY <1>1, <1>3 DEF Level
<1>5. /\ frame'[t][depth[t] + 1] = NewFrame(f, i)
      /\ \A d \in 1..depth[t] :
            /\ frame'[t][d].net = frame[t][d].net /\ Side(frame'[t][d]) = Side(frame[t][d])
  BY <1>1, <1>3, <1>4 DEF Top
<1>6. \A d \in 0..depth[t] : Total(frame'[t], r, side)[d] = Total(frame[t], r, side)[d]
  <2> DEFINE old == frame[t]
             new == frame'[t]
             n == depth[t]
  <2>1. /\ old \in [Level -> FrameType] /\ new \in [Level -> FrameType] /\ n \in 0..MaxDepth
        /\ \A d \in 1..n : new[d].net[r] = old[d].net[r] /\ Side(new[d]) = Side(old[d])
    BY <1>1, <1>2, <1>5
  <2> HIDE DEF old, new, n
  <2>2. \A d \in 0..n : Total(new, r, side)[d] = Total(old, r, side)[d]
    BY <2>1, TotalAgrees
  <2> QED BY <2>2 DEF old, new, n
<1>7. NewFrame(f, i).net[r] = 0
  BY DEF NewFrame, NoFrame, Zero
<1>8. /\ Total(frame'[t], r, side)[depth[t] + 1] = Total(frame'[t], r, side)[depth[t]] + 0
      /\ depth[t] \in 0..depth[t]
  <2> DEFINE new == frame'[t]
             n == depth[t] + 1
  <2>1. new \in [Level -> FrameType] /\ n \in Level /\ new[n].net[r] = 0
    BY <1>2, <1>4, <1>5, <1>7
  <2>2. n - 1 = depth[t] /\ depth[t] \in 0..depth[t]
    BY <1>1
  <2> HIDE DEF new, n
  <2>3. Total(new, r, side)[n] = Total(new, r, side)[n - 1] + 0
    BY <2>1, TotalAdds
  <2> QED BY <2>2, <2>3 DEF new, n
<1>9. Total(frame[t], r, side)[depth[t]] \in Int
  BY <1>1, TotalAdds
<1> QED BY <1>3, <1>6, <1>8, <1>9

\* The totals of t below n stay what they were.
Unmoved(t, r, side, n) ==
    \A d \in 0..n : d # n => Total(frame'[t], r, side)[d] = Total(frame[t], r, side)[d]

\* When a frame is gone, the one below it accounts for what it makes of that.
LEMMA PopTotals ==
    ASSUME TInv, TInv', NEW t \in Task, depth[t] > 0, NEW fr, Pop(t, fr),
           depth[t] > 1 => Side(fr) = Side(Below(t)), NEW r \in Res, NEW side
    PROVE  /\ depth'[t] = depth[t] - 1
           /\ Unmoved(t, r, side, depth[t] - 1)
           /\ depth[t] > 1 =>
                Total(frame'[t], r, side)[depth[t] - 1] = Total(frame[t], r, side)[depth[t] - 1]
                   + IF Side(Below(t)) = side THEN fr.net[r] - Below(t).net[r] ELSE 0
<1>1. frame[t] \in [Level -> FrameType] /\ depth[t] \in 1..MaxDepth /\ MaxDepth \in Nat
  BY StackFits
<1>2. frame'[t] \in [Level -> FrameType]
  BY DEF TInv, TypeOK
<1>3. /\ depth'[t] = depth[t] - 1
      /\ frame'[t] = [d \in Level |-> IF d = depth[t] THEN NoFrame
                                      ELSE IF d = depth[t] - 1 THEN fr ELSE frame[t][d]]
  BY DEF Pop, TInv, TypeOK
<1>4. CASE depth[t] = 1
  <2>1. \A d \in 0..(depth[t] - 1) : d = depth[t] - 1
    BY <1>4
  <2> QED BY <1>3, <1>4, <2>1 DEF Unmoved
<1>5. CASE depth[t] > 1
  <2> DEFINE n == depth[t] - 1
  <2>1. /\ n \in Level /\ n - 1 \in 0..MaxDepth /\ n # depth[t] /\ n \in Nat
        /\ \A d \in 1..(n - 1) : d \in Level /\ d # n /\ d # depth[t]
    BY <1>1, <1>5 DEF Level
  <2>2. Below(t) = frame[t][n]
    BY <1>5 DEF Below
  <2>3. frame'[t][n] = fr /\ \A d \in 1..(n - 1) : frame'[t][d] = frame[t][d]
    BY <1>3, <2>1
  <2> HIDE DEF n
  <2>4. \A d \in 0..(n - 1) : Total(frame'[t], r, side)[d] = Total(frame[t], r, side)[d]
    <3> DEFINE old == frame[t]
               new == frame'[t]
    <3>1. /\ old \in [Level -> FrameType] /\ new \in [Level -> FrameType]
          /\ \A d \in 1..(n - 1) : new[d].net[r] = old[d].net[r] /\ Side(new[d]) = Side(old[d])
      BY <1>1, <1>2, <2>3
    <3> HIDE DEF old, new
    <3>2. \A d \in 0..(n - 1) : Total(new, r, side)[d] = Total(old, r, side)[d]
      BY <2>1, <3>1, TotalAgrees
    <3> QED BY <3>2 DEF old, new
  <2>5. /\ Total(frame[t], r, side)[n] = Total(frame[t], r, side)[n - 1]
              + IF Side(Below(t)) = side THEN Below(t).net[r] ELSE 0
        /\ Total(frame[t], r, side)[n - 1] \in Int
    BY <1>1, <2>1, <2>2, TotalAdds
  <2>6. Total(frame'[t], r, side)[n] = Total(frame'[t], r, side)[n - 1]
           + IF Side(Below(t)) = side THEN fr.net[r] ELSE 0
    BY <1>2, <1>5, <2>1, <2>3, TotalAdds
  <2>7. fr.net[r] \in Int /\ Below(t).net[r] \in Int
    BY <1>1, <1>2, <2>1, <2>2, <2>3 DEF FrameType
  <2>8. n - 1 \in 0..(n - 1) /\ \A d \in 0..n : d # n => d \in 0..(n - 1)
    BY <2>1
  <2>9. Total(frame'[t], r, side)[n] = Total(frame[t], r, side)[n]
           + IF Side(Below(t)) = side THEN fr.net[r] - Below(t).net[r] ELSE 0
    BY <2>4, <2>5, <2>6, <2>7, <2>8
  <2>10. Unmoved(t, r, side, n)
    BY <2>4, <2>8 DEF Unmoved
  <2> QED BY <1>3, <2>9, <2>10 DEF n
<1> QED BY <1>1, <1>4, <1>5

-----------------------------------------------------------------------------
(* The invariant under a step of the last frame, a call and a return. *)

\* LInv without CInv.
Ledgers == LockLedger /\ \A t \in Task : Doomed(t) /\ \A r \in Res : Solvent(t, r)

\* What t holds of r, as LockLedger counts it.
Has(t, r) == Total(frame[t], r, "call")[depth[t]] + Total(frame[t], r, "interrupt")[depth[t]]

\* What LInv says of the frame that runs.
LEMMA TopTotals ==
    ASSUME LInv, NEW t \in Task, depth[t] > 0, NEW r \in Res, NEW side \in {"call", "interrupt"}
    PROVE  /\ Total(frame[t], r, side)[depth[t]] = Total(frame[t], r, side)[depth[t] - 1]
                 + IF Side(Top(t)) = side THEN Top(t).net[r] ELSE 0
           /\ Total(frame[t], r, side)[depth[t]] \in Nat
           /\ Total(frame[t], r, side)[depth[t] - 1] \in Nat
           /\ Borrows(Top(t).fn, r) => Total(frame[t], r, Side(Top(t)))[depth[t] - 1] > 0
<1> DEFINE st == frame[t]
           n == depth[t]
<1>1. TInv /\ Solvent(t, r)
  BY DEF LInv, CInv, IInv
<1>2. st \in [Level -> FrameType] /\ n \in Level /\ n - 1 \in 0..MaxDepth /\ n \in Nat
  BY <1>1, StackFits DEF Level
<1>3. Top(t) = st[n]
  BY DEF Top
<1>4. /\ \A d \in 1..n : Total(st, r, side)[d] >= 0
      /\ Borrows(st[n].fn, r) => Total(st, r, Side(st[n]))[n - 1] > 0
  BY <1>1, <1>2 DEF Solvent
<1> HIDE DEF st, n
<1>5. /\ Total(st, r, side)[n] = Total(st, r, side)[n - 1] + IF Side(st[n]) = side THEN st[n].net[r] ELSE 0
      /\ Total(st, r, side)[n] \in Int /\ Total(st, r, side)[n - 1] \in Int
      /\ Total(st, r, side)[0] = 0
  <2>1. /\ Total(st, r, side) \in [0..MaxDepth -> Int]
        /\ Total(st, r, side)[0] = 0
        /\ \A d \in Level : Total(st, r, side)[d]
             = Total(st, r, side)[d - 1] + IF Side(st[d]) = side THEN st[d].net[r] ELSE 0
    BY <1>2, TotalAdds
  <2>2. n \in 0..MaxDepth
    BY <1>2 DEF Level
  <2> QED BY <1>2, <2>1, <2>2
<1>6. Total(st, r, side)[n] >= 0
  BY <1>2, <1>4
<1>7. Total(st, r, side)[n - 1] >= 0
  <2>1. CASE n = 1
    BY <1>5, <2>1
  <2>2. CASE n # 1
    <3>1. n - 1 \in 1..n
      BY <1>2, <2>2
    <3> QED BY <1>4, <3>1
  <2> QED BY <2>1, <2>2
<1> QED BY <1>3, <1>4, <1>5, <1>6, <1>7 DEF st, n

\* What a task holds of a lock, it holds as an owner does.
LEMMA HasOwner ==
    ASSUME LInv, NEW t \in Task
    PROVE  /\ \A l \in Lock : Has(t, l) = IF owner[l] = t THEN 1 ELSE 0
           /\ \A r \in Res : Total(frame[t], r, "call")[depth[t]] \in Nat
           /\ \A r \in Res : Total(frame[t], r, "interrupt")[depth[t]] \in Nat
           /\ \A r \in Res : depth[t] = 0 => Has(t, r) = 0
<1>1. TInv
  BY DEF LInv, CInv, IInv
<1>2. depth[t] \in Nat /\ frame[t] \in [Level -> FrameType]
  BY <1>1, StackFits
<1>3. \A l \in Lock : Has(t, l) = IF owner[l] = t THEN 1 ELSE 0
  BY DEF LInv, LockLedger, Has
<1>4. ASSUME NEW r \in Res
      PROVE  /\ Total(frame[t], r, "call")[depth[t]] \in Nat
             /\ Total(frame[t], r, "interrupt")[depth[t]] \in Nat
             /\ depth[t] = 0 => Has(t, r) = 0
  <2>1. CASE depth[t] = 0
    <3>1. \A side \in {"call", "interrupt"} : Total(frame[t], r, side)[0] = 0
      BY <1>2, TotalAdds
    <3> QED BY <2>1, <3>1 DEF Has
  <2>2. CASE depth[t] > 0
    <3>1. \A side \in {"call", "interrupt"} : Total(frame[t], r, side)[depth[t]] \in Nat
      BY <2>2, TopTotals
    <3> QED BY <2>2, <3>1
  <2> QED BY <1>2, <2>1, <2>2
<1> QED BY <1>3, <1>4

\* A dying frame is the last one of its call.
LEMMA LowerAlive ==
    ASSUME IInv, NEW t \in Task, NEW d \in 1..depth[t], d # depth[t], frame[t][d].ph = "dying"
    PROVE  Top(t).irq
<1>1. depth[t] \in Nat /\ d + 1 \in 1..depth[t] /\ depth[t] \in 1..depth[t] /\ d + 1 <= depth[t]
  <2>1. depth[t] \in 0..MaxDepth /\ MaxDepth \in Nat
    BY StackFits DEF IInv
  <2> QED BY <2>1
<1>2. Linked(t, d) /\ FrameOK(frame[t][d], hf[t])
  BY DEF IInv
<1>3. ~frame[t][d].irq
  BY <1>2 DEF FrameOK
<1>4. frame[t][d + 1].irq
  BY <1>2, <1>3 DEF Linked, Stacked
<1>5. frame[t][depth[t]].irq
  BY <1>1, <1>4 DEF IInv
<1> QED BY <1>5 DEF Top

\* What remains true of a task another one's step leaves alone.
LEMMA OtherLedgers ==
    ASSUME LInv, NEW u \in Task, frame'[u] = frame[u], depth'[u] = depth[u], hf'[u] = hf[u]
    PROVE  /\ Doomed(u)' /\ \A r \in Res : Solvent(u, r)'
           /\ \A r \in Res : Has(u, r)' = Has(u, r)
BY DEF LInv, Doomed, Solvent, Has

\* What a step of the frame that runs may do to its account of r, and with it
\* to the owner of r if r is a lock.
Booked(t, net, r) ==
    \/ net[r] = Top(t).net[r] /\ (r \in Lock => owner'[r] = owner[r])
    \/ net[r] = Top(t).net[r] + 1 /\ (r \in Lock => owner[r] = NoTask /\ owner'[r] = t)
    \/ /\ net[r] = Top(t).net[r] - 1 /\ Total(frame[t], r, Side(Top(t)))[depth[t]] > 0
       /\ r \in Lock => owner'[r] = NoTask

\* The ledger of the locks, when one task's account of them is booked.
LEMMA LedgerBooked ==
    ASSUME LInv, NEW t \in Task, NEW l \in Lock, NEW change \in Int,
           Has(t, l)' = Has(t, l) + change, \A u \in Task \ {t} : Has(u, l)' = Has(u, l),
           \/ change = 0 /\ owner'[l] = owner[l]
           \/ change = 1 /\ owner[l] = NoTask /\ owner'[l] = t
           \/ change = -1 /\ Has(t, l) > 0 /\ owner'[l] = NoTask
    PROVE  \A u \in Task : Has(u, l)' = IF owner'[l] = u THEN 1 ELSE 0
<1>1. \A u \in Task : Has(u, l) = IF owner[l] = u THEN 1 ELSE 0
  BY HasOwner
<1>2. \A u \in Task : u # NoTask
  BY BowknotAssumption
<1> QED BY <1>1, <1>2

\* The phases of a frame whose cleanup block is under way.
Cleaning == {"undo", "ucall"}

\* The frame that runs becomes fr: it takes or gives one resource at most, which
\* is booked; or it takes and gives nothing, and hf goes up, or goes down because
\* the cleanup block starts.
Continues(t, fr) ==
    /\ depth[t] > 0 /\ depth' = depth /\ Becomes(t, fr)
    /\ fr.irq = Top(t).irq /\ fr.fn = Top(t).fn
    /\ fr.ph = "dying" => hf'[t] /\ ~fr.irq
    /\ \/ hf'[t] = hf[t] /\ (fr.ph \in Cleaning <=> Top(t).ph \in Cleaning)
       \/ /\ ~Top(t).irq /\ fr.net = Top(t).net
          /\ hf'[t] \/ (hf[t] /\ fr.ph = "undo")
    /\ \A u \in Task \ {t} : hf'[u] = hf[u]
    /\ leak' = leak
    /\ \A r \in Res : Booked(t, fr.net, r)
    /\ \A r, s \in Res : fr.net[r] # Top(t).net[r] /\ fr.net[s] # Top(t).net[s] => r = s

\* The totals after that.
LEMMA ContinuesTotals ==
    ASSUME LInv, TInv', NEW t \in Task, NEW fr, Continues(t, fr),
           NEW r \in Res, NEW side \in {"call", "interrupt"}
    PROVE  /\ \A d \in 0..(depth[t] - 1) :
                Total(frame'[t], r, side)[d] = Total(frame[t], r, side)[d]
           /\ Total(frame'[t], r, side)[depth[t]] = Total(frame[t], r, side)[depth[t]]
                + IF Side(Top(t)) = side THEN fr.net[r] - Top(t).net[r] ELSE 0
           /\ Total(frame[t], r, side)[depth[t]] \in Nat
           /\ fr.net[r] \in Int /\ Top(t).net[r] \in Int
<1>1. TInv /\ depth[t] > 0 /\ depth' = depth /\ Becomes(t, fr)
  BY DEF LInv, CInv, IInv, Continues
<1>2. Side(fr) = Side(Top(t))
  BY DEF Side, Continues
<1>3. \A d \in 0..(depth[t] - 1) : Total(frame'[t], r, side)[d] = Total(frame[t], r, side)[d]
  BY <1>1, <1>2, BecomesTotals
<1>4. Total(frame'[t], r, side)[depth[t]] = Total(frame[t], r, side)[depth[t]]
         + IF Side(Top(t)) = side THEN fr.net[r] - Top(t).net[r] ELSE 0
  BY <1>1, <1>2, BecomesTotals
<1>5. Total(frame[t], r, side)[depth[t]] \in Nat
  BY <1>1, TopTotals
<1>6. frame'[t][depth[t]] = fr /\ depth[t] \in Level
  <2>1. depth[t] \in Level /\ frame \in [Task -> [Level -> FrameType]]
    BY <1>1, StackFits DEF TInv, TypeOK, Level
  <2>2. frame' = [frame EXCEPT ![t][depth[t]] = fr]
    BY <1>1 DEF Becomes
  <2> QED BY <2>1, <2>2
<1>7. fr \in FrameType /\ Top(t) \in FrameType
  BY <1>1, <1>6, TopFits DEF TInv, TypeOK
<1>8. fr.net[r] \in Int /\ Top(t).net[r] \in Int
  BY <1>7 DEF FrameType
<1> QED BY <1>3, <1>4, <1>5, <1>8

\* A step of the last frame.
LEMMA BecomesLedgers ==
    ASSUME LInv, TInv', NEW t \in Task, NEW fr, Continues(t, fr)
    PROVE  Ledgers'
<1>1. TInv /\ IInv /\ \A u \in Task : Doomed(u)
  BY DEF LInv, CInv, IInv
<1>2. /\ depth[t] \in Level /\ depth[t] \in Nat /\ depth[t] > 0
      /\ depth' = depth /\ Becomes(t, fr)
  BY <1>1, StackFits DEF Level, Continues
<1>3. ASSUME NEW u \in Task PROVE Doomed(u)'
  <2> SUFFICES ASSUME NEW d \in 1..depth'[u], frame'[u][d].ph = "dying"
               PROVE  hf'[u] /\ ~frame'[u][d].irq
    BY DEF Doomed
  <2>1. /\ d \in 1..depth[u]
        /\ frame'[u][d] = IF u = t /\ d = depth[t] THEN fr ELSE frame[u][d]
    BY <1>1, <1>2, FramesAfterBecomes
  <2>2. CASE u = t /\ d = depth[t]
    BY <2>1, <2>2 DEF Continues
  <2>3. CASE u = t /\ d # depth[t]
    <3>1. frame[t][d].ph = "dying" /\ d \in 1..depth[t] /\ frame'[u][d] = frame[t][d]
      BY <2>1, <2>3
    <3>2. hf[t] /\ ~frame[t][d].irq
      BY <1>1, <3>1 DEF Doomed
    <3>3. Top(t).irq
      BY <1>1, <2>3, <3>1, LowerAlive
    <3> QED BY <2>3, <3>1, <3>2, <3>3 DEF Continues
  <2>4. CASE u # t
    <3>1. frame'[u][d] = frame[u][d] /\ hf'[u] = hf[u]
      BY <2>1, <2>4 DEF Continues
    <3> QED BY <1>1, <2>1, <3>1 DEF Doomed
  <2> QED BY <2>2, <2>3, <2>4
<1>4. \A u \in Task \ {t} : frame'[u] = frame[u] /\ depth'[u] = depth[u] /\ hf'[u] = hf[u]
  BY <1>1, <1>2, TotalsOfOthers DEF Continues
<1>5. Side(fr) = Side(Top(t)) /\ fr.fn = Top(t).fn
  BY DEF Side, Continues
<1>6. ASSUME NEW r \in Res
      PROVE  /\ Solvent(t, r)'
             /\ Has(t, r)' = Has(t, r) + (fr.net[r] - Top(t).net[r])
  <2> DEFINE change == fr.net[r] - Top(t).net[r]
             n == depth[t]
  <2>1. ASSUME NEW side \in {"call", "interrupt"}
        PROVE  /\ \A d \in 0..(n - 1) : Total(frame'[t], r, side)[d] = Total(frame[t], r, side)[d]
               /\ Total(frame'[t], r, side)[n] = Total(frame[t], r, side)[n]
                     + IF Side(Top(t)) = side THEN change ELSE 0
               /\ Total(frame[t], r, side)[n] \in Nat
    BY ContinuesTotals
  <2>2. change \in Int
    BY ContinuesTotals
  <2>3. Has(t, r)' = Has(t, r) + change
    <3>1. depth'[t] = n
      BY <1>2
    <3>2. Total(frame[t], r, "call")[n] \in Int /\ Total(frame[t], r, "interrupt")[n] \in Int
      BY <2>1
    <3>3. Total(frame'[t], r, "call")[n] + Total(frame'[t], r, "interrupt")[n]
             = Total(frame[t], r, "call")[n] + Total(frame[t], r, "interrupt")[n] + change
      BY <2>1, <2>2, <3>2 DEF Side
    <3> HIDE DEF n, change
    <3> QED BY <3>1, <3>3 DEF Has, n
  <2>4. \A side \in {"call", "interrupt"} : Total(frame'[t], r, side)[n] >= 0
    <3>1. Side(Top(t)) \in {"call", "interrupt"}
      BY DEF Side
    <3>2. \/ change >= 0
          \/ change = -1 /\ Total(frame[t], r, Side(Top(t)))[n] > 0
      BY <2>2, ContinuesTotals DEF Continues, Booked
    <3> QED BY <2>1, <2>2, <3>1, <3>2
  <2>5. ASSUME NEW d \in 1..n
        PROVE  /\ \A side \in {"call", "interrupt"} : Total(frame'[t], r, side)[d] >= 0
               /\ Borrows(frame'[t][d].fn, r) => Total(frame'[t], r, Side(frame'[t][d]))[d - 1] > 0
    <3>1. /\ \A side \in {"call", "interrupt"} : Total(frame[t], r, side)[d] >= 0
          /\ Borrows(frame[t][d].fn, r) => Total(frame[t], r, Side(frame[t][d]))[d - 1] > 0
      BY DEF LInv, Solvent
    <3>2. frame'[t][d].fn = frame[t][d].fn /\ Side(frame'[t][d]) = Side(frame[t][d])
      <4>1. frame'[t][d] = IF d = n THEN fr ELSE frame[t][d]
        BY <1>1, <1>2, FramesAfterBecomes
      <4> QED BY <1>5, <4>1 DEF Top
    <3>3. Side(frame[t][d]) \in {"call", "interrupt"} /\ d - 1 \in 0..(n - 1)
      BY <1>2 DEF Side
    <3>4. Total(frame'[t], r, Side(frame[t][d]))[d - 1] = Total(frame[t], r, Side(frame[t][d]))[d - 1]
      BY <2>1, <3>3
    <3>5. CASE d = n
      BY <2>4, <3>1, <3>2, <3>4, <3>5
    <3>6. CASE d # n
      <4>1. d \in 0..(n - 1)
        BY <1>2, <3>6
      <4> QED BY <2>1, <3>1, <3>2, <3>4, <4>1
    <3> QED BY <3>5, <3>6
  <2>6. Solvent(t, r)'
    <3>1. depth'[t] = n
      BY <1>2
    <3> HIDE DEF n
    <3> QED BY <2>5, <3>1 DEF Solvent
  <2> QED BY <2>3, <2>6
<1>7. LockLedger'
  <2> SUFFICES ASSUME NEW l \in Lock
               PROVE  \A u \in Task : Has(u, l)' = IF owner'[l] = u THEN 1 ELSE 0
    BY DEF LockLedger, Has
  <2> DEFINE change == fr.net[l] - Top(t).net[l]
  <2>1. l \in Res /\ fr.net[l] \in Int /\ Top(t).net[l] \in Int
    BY BowknotAssumption, ContinuesTotals
  <2>2. Has(t, l)' = Has(t, l) + change /\ change \in Int
    BY <1>6, <2>1
  <2>3. \A u \in Task \ {t} : Has(u, l)' = Has(u, l)
    BY <1>4, <2>1, OtherLedgers
  <2>4. Total(frame[t], l, Side(Top(t)))[depth[t]] > 0 => Has(t, l) > 0
    BY <2>1, HasOwner DEF Has, Side
  <2>5. \/ change = 0 /\ owner'[l] = owner[l]
        \/ change = 1 /\ owner[l] = NoTask /\ owner'[l] = t
        \/ change = -1 /\ Has(t, l) > 0 /\ owner'[l] = NoTask
    BY <2>1, <2>4 DEF Booked, Continues
  <2> HIDE DEF change
  <2> QED BY <2>2, <2>3, <2>5, LedgerBooked
<1>8. \A u \in Task \ {t} : \A r \in Res : Solvent(u, r)'
  BY <1>4, OtherLedgers
<1> QED BY <1>3, <1>6, <1>7, <1>8 DEF Ledgers

\* A function starts on top of fr, which is otherwise what the last frame was;
\* what it borrows is there.
Starts(t, fr, f, i) ==
    /\ Push(t, fr, f, i)
    /\ depth[t] > 0 => /\ fr.irq = Top(t).irq /\ fr.fn = Top(t).fn /\ fr.net = Top(t).net
                       /\ fr.ph = "dying" => Top(t).ph = "dying"
                       /\ fr.ph \in Cleaning <=> Top(t).ph \in Cleaning
                       /\ i \/ ~Top(t).irq
    /\ hf'[t] = hf[t] \/ depth[t] = 0
    /\ depth[t] = 0 => i \/ ~hf'[t]
    /\ \A u \in Task \ {t} : hf'[u] = hf[u]
    /\ owner' = owner /\ leak' = leak
    /\ \A r \in Res : Borrows(f, r) =>
          Total(frame[t], r, Side(NewFrame(f, i)))[depth[t]] > 0

\* The totals after that.
LEMMA StartsTotals ==
    ASSUME LInv, TInv', NEW t \in Task, NEW fr, NEW f, NEW i, Starts(t, fr, f, i),
           NEW r \in Res, NEW side \in {"call", "interrupt"}
    PROVE  /\ \A d \in 0..depth[t] : Total(frame'[t], r, side)[d] = Total(frame[t], r, side)[d]
           /\ Total(frame'[t], r, side)[depth[t] + 1] = Total(frame[t], r, side)[depth[t]]
           /\ Total(frame[t], r, side)[depth[t]] \in Nat
<1>1. TInv /\ Push(t, fr, f, i)
  BY DEF LInv, CInv, IInv, Starts
<1>2. depth[t] > 0 => fr.net = Top(t).net /\ Side(fr) = Side(Top(t))
  BY DEF Side, Starts
<1>3. \A d \in 0..depth[t] : Total(frame'[t], r, side)[d] = Total(frame[t], r, side)[d]
  BY <1>1, <1>2, PushTotals
<1>4. Total(frame'[t], r, side)[depth[t] + 1] = Total(frame[t], r, side)[depth[t]]
  BY <1>1, <1>2, PushTotals
<1>5. Total(frame[t], r, side)[depth[t]] \in Nat
  BY HasOwner
<1> QED BY <1>3, <1>4, <1>5

\* A call, an entry or an interrupt.
LEMMA PushLedgers ==
    ASSUME LInv, TInv', NEW t \in Task, NEW fr, NEW f, NEW i, Starts(t, fr, f, i)
    PROVE  Ledgers'
<1>1. TInv /\ IInv /\ (\A u \in Task : Doomed(u)) /\ Push(t, fr, f, i)
  BY DEF LInv, CInv, IInv, Starts
<1>2. depth[t] \in Nat /\ depth'[t] = depth[t] + 1
  BY <1>1, StackFits DEF Push, TInv, TypeOK
<1>3. ASSUME NEW u \in Task PROVE Doomed(u)'
  <2> SUFFICES ASSUME NEW d \in 1..depth'[u], frame'[u][d].ph = "dying"
               PROVE  hf'[u] /\ ~frame'[u][d].irq
    BY DEF Doomed
  <2>1. /\ ~(u = t /\ d = depth[t] + 1) => d \in 1..depth[u]
        /\ frame'[u][d] = IF u = t /\ d = depth[t] + 1 THEN NewFrame(f, i)
                          ELSE IF u = t /\ d = depth[t] THEN fr ELSE frame[u][d]
    BY <1>1, FramesAfterPush
  <2>2. ~(u = t /\ d = depth[t] + 1)
    <3>1. NewFrame(f, i).ph = "run"
      BY DEF NewFrame, NoFrame
    <3> QED BY <2>1, <3>1
  <2>3. d \in 1..depth[u] /\ frame[u][d].ph = "dying" /\ (frame'[u][d].irq <=> frame[u][d].irq)
    <3>1. CASE u = t /\ d = depth[t]
      <4>1. depth[t] > 0 /\ frame[u][d] = Top(t) /\ frame'[u][d] = fr
        BY <1>2, <2>1, <2>2, <3>1 DEF Top
      <4> QED BY <2>1, <2>2, <3>1, <4>1 DEF Starts
    <3>2. CASE ~(u = t /\ d = depth[t])
      BY <2>1, <2>2, <3>2
    <3> QED BY <3>1, <3>2
  <2>4. hf[u] /\ ~frame[u][d].irq
    BY <1>1, <2>3 DEF Doomed
  <2>5. hf'[u] = hf[u]
    BY <1>2, <2>3 DEF Starts
  <2> QED BY <2>3, <2>4, <2>5
<1>4. \A u \in Task \ {t} : frame'[u] = frame[u] /\ depth'[u] = depth[u] /\ hf'[u] = hf[u]
  BY <1>1, TotalsOfOthers DEF Starts
<1>5. ASSUME NEW r \in Res
      PROVE  Solvent(t, r)' /\ Has(t, r)' = Has(t, r)
  <2> DEFINE n == depth[t]
  <2>1. ASSUME NEW side \in {"call", "interrupt"}
        PROVE  /\ \A d \in 0..n : Total(frame'[t], r, side)[d] = Total(frame[t], r, side)[d]
               /\ Total(frame'[t], r, side)[n + 1] = Total(frame[t], r, side)[n]
               /\ Total(frame[t], r, side)[n] \in Nat
    BY StartsTotals
  <2>2. Has(t, r)' = Has(t, r)
    <3>1. depth'[t] = n + 1
      BY <1>2
    <3> HIDE DEF n
    <3> QED BY <2>1, <3>1 DEF Has, n
  <2>3. ASSUME NEW d \in 1..(n + 1)
        PROVE  /\ \A side \in {"call", "interrupt"} : Total(frame'[t], r, side)[d] >= 0
               /\ Borrows(frame'[t][d].fn, r) => Total(frame'[t], r, Side(frame'[t][d]))[d - 1] > 0
    <3>1. CASE d = n + 1
      <4>1. frame'[t][d] = NewFrame(f, i) /\ NewFrame(f, i).fn = f
        <5>1. d \in 1..depth'[t] /\ d = depth[t] + 1
          BY <1>2, <3>1
        <5>2. frame'[t][d] = NewFrame(f, i)
          BY <1>1, <5>1, FramesAfterPush
        <5>3. NewFrame(f, i).fn = f
          BY DEF NewFrame, NoFrame
        <5> QED BY <5>2, <5>3
      <4>2. Side(NewFrame(f, i)) \in {"call", "interrupt"} /\ d - 1 = n /\ n \in 0..n
        BY <1>2, <3>1 DEF Side
      <4>3. Borrows(f, r) => Total(frame[t], r, Side(NewFrame(f, i)))[n] > 0
        BY DEF Starts
      <4> QED BY <2>1, <3>1, <4>1, <4>2, <4>3
    <3>2. CASE d # n + 1
      <4>1. d \in 1..n /\ d \in 0..n /\ d - 1 \in 0..n
        BY <1>2, <3>2
      <4>2. /\ \A side \in {"call", "interrupt"} : Total(frame[t], r, side)[d] >= 0
            /\ Borrows(frame[t][d].fn, r) => Total(frame[t], r, Side(frame[t][d]))[d - 1] > 0
        BY <4>1 DEF LInv, Solvent
      <4>3. frame'[t][d].fn = frame[t][d].fn /\ Side(frame'[t][d]) = Side(frame[t][d])
        <5>1. frame'[t][d] = IF d = n THEN fr ELSE frame[t][d]
          BY <1>1, <1>2, <3>2, FramesAfterPush
        <5>2. CASE d = n
          <6>1. fr.fn = Top(t).fn /\ Side(fr) = Side(Top(t))
            BY <4>1, <5>2 DEF Side, Starts
          <6> QED BY <5>1, <5>2, <6>1 DEF Top
        <5> QED BY <5>1, <5>2
      <4>4. Side(frame[t][d]) \in {"call", "interrupt"}
        BY DEF Side
      <4> QED BY <2>1, <4>1, <4>2, <4>3, <4>4
    <3> QED BY <3>1, <3>2
  <2>4. Solvent(t, r)'
    <3>1. depth'[t] = n + 1
      BY <1>2
    <3> HIDE DEF n
    <3> QED BY <2>3, <3>1 DEF Solvent
  <2> QED BY <2>2, <2>4
<1>6. LockLedger'
  <2> SUFFICES ASSUME NEW l \in Lock
               PROVE  \A u \in Task : Has(u, l)' = IF owner'[l] = u THEN 1 ELSE 0
    BY DEF LockLedger, Has
  <2>1. l \in Res /\ owner' = owner
    BY BowknotAssumption DEF Starts
  <2>2. \A u \in Task : Has(u, l)' = Has(u, l)
    BY <1>4, <1>5, <2>1, OtherLedgers
  <2> QED BY <2>1, <2>2, HasOwner
<1>7. \A u \in Task \ {t} : \A r \in Res : Solvent(u, r)'
  BY <1>4, OtherLedgers
<1> QED BY <1>3, <1>5, <1>6, <1>7 DEF Ledgers

\* Where the frame that runs leaves what it has of r: to the frame below it, or
\* out of the account, which a lock never is, and what a caller waits for neither.
Settles(t, net, r) ==
    \/ depth[t] > 1 /\ Below(t).irq = Top(t).irq /\ net[r] = Below(t).net[r] + Top(t).net[r]
    \/ /\ depth[t] > 1 => net[r] = Below(t).net[r]
       /\ r \in Lock \/ (depth[t] > 1 /\ ~Top(t).irq) => Top(t).net[r] = 0

\* The frame that runs is gone, and the one below it becomes fr.
Ends(t, fr) ==
    /\ depth[t] > 0 /\ Pop(t, fr)
    /\ depth[t] > 1 => /\ fr.irq = Below(t).irq /\ fr.fn = Below(t).fn
                       /\ fr.ph = "dying" => Below(t).ph = "dying"
                       /\ fr.ph \in Cleaning <=> Below(t).ph \in Cleaning
    /\ \/ hf'[t] = hf[t] /\ Top(t).ph = "run"
       \/ /\ hf'[t] = TRUE /\ Top(t).ph = "undo" /\ ~Top(t).irq
          /\ \A r \in Res : Top(t).net[r] = 0
    /\ \A u \in Task \ {t} : hf'[u] = hf[u]
    /\ owner' = owner /\ leak' = leak
    /\ \A r \in Res : Settles(t, fr.net, r)

\* The totals after that.
LEMMA EndsTotals ==
    ASSUME LInv, TInv', NEW t \in Task, NEW fr, Ends(t, fr),
           NEW r \in Res, NEW side \in {"call", "interrupt"}
    PROVE  /\ \A d \in 0..(depth[t] - 1) : d # depth[t] - 1 =>
                Total(frame'[t], r, side)[d] = Total(frame[t], r, side)[d]
           /\ Total(frame'[t], r, side)[depth[t] - 1] \in Nat
           /\ r \in Lock => Total(frame'[t], r, side)[depth[t] - 1] = Total(frame[t], r, side)[depth[t]]
<1> DEFINE n == depth[t]
           old == Total(frame[t], r, side)
           new == Total(frame'[t], r, side)
<1>1. TInv /\ Pop(t, fr) /\ depth[t] > 0
  BY DEF LInv, CInv, IInv, Ends
<1>2. depth[t] > 1 => Side(fr) = Side(Below(t))
  BY DEF Side, Ends
<1>3. \A d \in 0..(n - 1) : d # n - 1 => new[d] = old[d]
  <2>1. Unmoved(t, r, side, n - 1)
    BY <1>1, <1>2, PopTotals
  <2> QED BY <2>1 DEF Unmoved
<1>4. n > 1 => new[n - 1] = old[n - 1]
                  + IF Side(Below(t)) = side THEN fr.net[r] - Below(t).net[r] ELSE 0
  BY <1>1, <1>2, PopTotals
<1>5. /\ old[n] = old[n - 1] + IF Side(Top(t)) = side THEN Top(t).net[r] ELSE 0
      /\ old[n] \in Nat /\ old[n - 1] \in Nat
  BY <1>1, TopTotals
<1>6. n \in Nat /\ n > 0 /\ Settles(t, fr.net, r)
  BY <1>1, StackFits DEF Ends
<1>7. Top(t).net[r] \in Int /\ (n > 1 => Below(t).net[r] \in Int)
  <2>1. Top(t) \in FrameType /\ Below(t) \in FrameType
    BY <1>1, TopFits, BelowFits
  <2> QED BY <2>1 DEF FrameType
<1>8. CASE n = 1
  <2>1. old[0] = 0
    BY <1>1, StackFits, TotalAdds
  <2>2. new[0] = 0
    BY TotalAdds DEF TInv, TypeOK
  <2>3. r \in Lock => Top(t).net[r] = 0
    BY <1>8 DEF Ends, Settles
  <2> HIDE DEF old, new, n
  <2>4. new[n - 1] = old[n - 1] /\ new[n - 1] \in Nat /\ (r \in Lock => old[n] = old[n - 1])
    BY <1>5, <1>8, <2>1, <2>2, <2>3
  <2> QED BY <1>3, <2>3, <2>4 DEF old, new, n
<1>9. CASE n > 1
  <2>1. CASE Below(t).irq = Top(t).irq /\ fr.net[r] = Below(t).net[r] + Top(t).net[r]
    <3>1. Side(Below(t)) = Side(Top(t)) /\ fr.net[r] = Below(t).net[r] + Top(t).net[r]
      BY <2>1 DEF Side
    <3> HIDE DEF old, new, n
    <3>2. new[n - 1] = old[n]
      BY <1>4, <1>5, <1>7, <1>9, <3>1
    <3> QED BY <1>3, <1>5, <3>2 DEF old, new, n
  <2>2. CASE fr.net[r] = Below(t).net[r] /\ (r \in Lock => Top(t).net[r] = 0)
    <3> HIDE DEF old, new, n
    <3>1. new[n - 1] = old[n - 1] /\ (r \in Lock => old[n] = old[n - 1])
      BY <1>4, <1>5, <1>7, <1>9, <2>2
    <3> QED BY <1>3, <1>5, <2>2, <3>1 DEF old, new, n
  <2> QED BY <1>6, <1>9, <2>1, <2>2 DEF Settles
<1> QED BY <1>6, <1>8, <1>9

\* A return.
LEMMA PopLedgers ==
    ASSUME LInv, TInv', NEW t \in Task, NEW fr, Ends(t, fr)
    PROVE  Ledgers'
<1>1. TInv /\ IInv /\ (\A u \in Task : Doomed(u)) /\ Pop(t, fr) /\ depth[t] > 0
  BY DEF LInv, CInv, IInv, Ends
<1>2. depth[t] \in Nat /\ depth'[t] = depth[t] - 1
  BY <1>1, StackFits DEF Pop, TInv, TypeOK
<1>3. ASSUME NEW u \in Task PROVE Doomed(u)'
  <2> SUFFICES ASSUME NEW d \in 1..depth'[u], frame'[u][d].ph = "dying"
               PROVE  hf'[u] /\ ~frame'[u][d].irq
    BY DEF Doomed
  <2>1. /\ d \in 1..depth[u]
        /\ u = t /\ d = depth[t] - 1 => frame[u][d] = Below(t) /\ depth[t] > 1
        /\ frame'[u][d] = IF u = t /\ d = depth[t] - 1 THEN fr ELSE frame[u][d]
    BY <1>1, FramesAfterPop
  <2>2. d \in 1..depth[u] /\ frame[u][d].ph = "dying" /\ (frame'[u][d].irq <=> frame[u][d].irq)
    <3>1. CASE u = t /\ d = depth[t] - 1
      BY <2>1, <3>1 DEF Ends
    <3>2. CASE ~(u = t /\ d = depth[t] - 1)
      BY <2>1, <3>2
    <3> QED BY <3>1, <3>2
  <2>3. hf[u] /\ ~frame[u][d].irq
    BY <1>1, <2>2 DEF Doomed
  <2>4. hf'[u] = hf[u] \/ hf'[u] = TRUE
    BY DEF Ends
  <2> QED BY <2>2, <2>3, <2>4
<1>4. \A u \in Task \ {t} : frame'[u] = frame[u] /\ depth'[u] = depth[u] /\ hf'[u] = hf[u]
  BY <1>1, TotalsOfOthers DEF Ends
<1>5. ASSUME NEW r \in Res
      PROVE  Solvent(t, r)' /\ (r \in Lock => Has(t, r)' = Has(t, r))
  <2> DEFINE n == depth[t]
  <2>1. ASSUME NEW side \in {"call", "interrupt"}
        PROVE  /\ \A d \in 0..(n - 1) : d # n - 1 =>
                    Total(frame'[t], r, side)[d] = Total(frame[t], r, side)[d]
               /\ Total(frame'[t], r, side)[n - 1] \in Nat
               /\ r \in Lock => Total(frame'[t], r, side)[n - 1] = Total(frame[t], r, side)[n]
    BY EndsTotals
  <2>2. r \in Lock => Has(t, r)' = Has(t, r)
    <3>1. depth'[t] = n - 1
      BY <1>2
    <3> HIDE DEF n
    <3> QED BY <2>1, <3>1 DEF Has, n
  <2>3. ASSUME NEW d \in 1..(n - 1)
        PROVE  /\ \A side \in {"call", "interrupt"} : Total(frame'[t], r, side)[d] >= 0
               /\ Borrows(frame'[t][d].fn, r) => Total(frame'[t], r, Side(frame'[t][d]))[d - 1] > 0
    <3>1. /\ d \in 1..n /\ d \in 1..depth'[t] /\ d \in 0..(n - 1)
          /\ d - 1 \in 0..(n - 1) /\ d - 1 # n - 1
      BY <1>2
    <3>2. /\ \A side \in {"call", "interrupt"} : Total(frame[t], r, side)[d] >= 0
          /\ Borrows(frame[t][d].fn, r) => Total(frame[t], r, Side(frame[t][d]))[d - 1] > 0
      BY <3>1 DEF LInv, Solvent
    <3>3. frame'[t][d].fn = frame[t][d].fn /\ Side(frame'[t][d]) = Side(frame[t][d])
      <4>1. /\ d = n - 1 => frame[t][d] = Below(t) /\ n > 1
            /\ frame'[t][d] = IF d = n - 1 THEN fr ELSE frame[t][d]
        BY <1>1, <3>1, FramesAfterPop
      <4>2. CASE d = n - 1
        <5>1. fr.fn = Below(t).fn /\ Side(fr) = Side(Below(t))
          BY <4>1, <4>2 DEF Side, Ends
        <5> QED BY <4>1, <4>2, <5>1
      <4> QED BY <4>1, <4>2
    <3>4. Side(frame[t][d]) \in {"call", "interrupt"}
      BY DEF Side
    <3>5. \A side \in {"call", "interrupt"} : Total(frame'[t], r, side)[d] >= 0
      BY <2>1, <3>1, <3>2
    <3>6. Total(frame'[t], r, Side(frame[t][d]))[d - 1] = Total(frame[t], r, Side(frame[t][d]))[d - 1]
      BY <2>1, <3>1, <3>4
    <3> QED BY <3>2, <3>3, <3>5, <3>6
  <2>4. Solvent(t, r)'
    <3>1. depth'[t] = n - 1
      BY <1>2
    <3> HIDE DEF n
    <3> QED BY <2>3, <3>1 DEF Solvent
  <2> QED BY <2>2, <2>4
<1>6. LockLedger'
  <2> SUFFICES ASSUME NEW l \in Lock
               PROVE  \A u \in Task : Has(u, l)' = IF owner'[l] = u THEN 1 ELSE 0
    BY DEF LockLedger, Has
  <2>1. l \in Res /\ owner' = owner
    BY BowknotAssumption DEF Ends
  <2>2. \A u \in Task : Has(u, l)' = Has(u, l)
    BY <1>4, <1>5, <2>1, OtherLedgers
  <2> QED BY <2>1, <2>2, HasOwner
<1>7. \A u \in Task \ {t} : \A r \in Res : Solvent(u, r)'
  BY <1>4, OtherLedgers
<1> QED BY <1>3, <1>5, <1>6, <1>7 DEF Ledgers

-----------------------------------------------------------------------------
(* The actions. *)

\* What the frame that runs holds, or borrows, is in its account.
LEMMA Backed ==
    ASSUME LInv, NEW t \in Task, depth[t] > 0, NEW r \in Res,
           \/ Top(t).net[r] = 1
           \/ Top(t).net[r] = 0 /\ Borrows(Top(t).fn, r)
    PROVE  Total(frame[t], r, Side(Top(t)))[depth[t]] > 0
<1> DEFINE side == Side(Top(t))
<1>1. side \in {"call", "interrupt"}
  BY DEF Side
<1>2. /\ Total(frame[t], r, side)[depth[t]] = Total(frame[t], r, side)[depth[t] - 1] + Top(t).net[r]
      /\ Total(frame[t], r, side)[depth[t] - 1] \in Nat
      /\ Borrows(Top(t).fn, r) => Total(frame[t], r, side)[depth[t] - 1] > 0
  <2> HIDE DEF side
  <2>1. /\ Total(frame[t], r, side)[depth[t]] = Total(frame[t], r, side)[depth[t] - 1]
              + IF Side(Top(t)) = side THEN Top(t).net[r] ELSE 0
        /\ Total(frame[t], r, side)[depth[t] - 1] \in Nat
        /\ Borrows(Top(t).fn, r) => Total(frame[t], r, Side(Top(t)))[depth[t] - 1] > 0
    BY <1>1, TopTotals
  <2>2. Side(Top(t)) = side
    BY DEF side
  <2> QED BY <2>1, <2>2
<1> HIDE DEF side
<1>3. Total(frame[t], r, side)[depth[t]] > 0
  BY <1>2
<1> QED BY <1>3 DEF side

\* A release that follows the driver's discipline, unless it releases nothing.
LEMMA ReleaseBacked ==
    ASSUME LInv, NEW t \in Task, depth[t] > 0, At(t).op = "rel", Disciplined(Top(t), At(t)),
           ~(At(t).r \in Top(t).null \cap Tolerant)
    PROVE  Total(frame[t], At(t).r, Side(Top(t)))[depth[t]] > 0
<1>1. IInv
  BY DEF LInv, CInv
<1>2. Top(t).fn \in Func /\ Top(t).pc \in DOMAIN Body[Top(t).fn]
  BY <1>1, TopOK
<1>3. At(t).r \in Res
  BY <1>2, Statements DEF At
<1>4. Foreign(Top(t).fn, At(t).r) => Borrows(Top(t).fn, At(t).r)
  BY <1>2 DEF Borrows, At
<1> QED BY <1>3, <1>4, Backed DEF Disciplined

\* What LInv says of the frame that runs, apart from its account.
LEMMA TopSound ==
    ASSUME LInv, NEW t \in Task, depth[t] > 0
    PROVE  /\ IInv /\ Accounts /\ owner \in [Lock -> Task \cup {NoTask}] /\ hf \in [Task -> BOOLEAN]
           /\ Top(t) \in FrameType /\ FrameOK(Top(t), hf[t]) /\ Placed(Top(t))
           /\ Top(t).fn \in Func /\ Top(t).pc \in DOMAIN Body[Top(t).fn]
           /\ At(t) = Calling(Top(t))
<1>1. IInv /\ Accounts
  BY DEF LInv, CInv, Accounts
<1>2. owner \in [Lock -> Task \cup {NoTask}] /\ hf \in [Task -> BOOLEAN]
  BY <1>1 DEF IInv, TInv, TypeOK
<1> QED BY <1>1, <1>2, TopOK DEF At, Calling

\* Steps that take and give nothing.
LEMMA QuietContinues ==
    ASSUME NEW t \in Task, depth[t] > 0, depth' = depth, NEW fr, Becomes(t, fr),
           fr.irq = Top(t).irq, fr.fn = Top(t).fn, fr.net = Top(t).net,
           fr.ph = "dying" => hf'[t] /\ ~fr.irq,
           \/ hf'[t] = hf[t] /\ (fr.ph \in Cleaning <=> Top(t).ph \in Cleaning)
           \/ ~Top(t).irq /\ (hf'[t] \/ (hf[t] /\ fr.ph = "undo")),
           \A u \in Task \ {t} : hf'[u] = hf[u], owner' = owner, leak' = leak
    PROVE  Continues(t, fr)
BY DEF Continues, Booked

\* Acquisitions: a lock that is free is in nobody's account.
LEMMA AcquireContinues ==
    ASSUME LInv, TInv', NEW t \in Task, Acquire(t)
    PROVE  \E fr : Continues(t, fr)
<1>1. /\ depth[t] > 0 /\ At(t).op = "acq" /\ Disciplined(Top(t), At(t))
      /\ depth' = depth /\ hf' = hf /\ leak' = leak /\ Top(t).ph = "run"
  BY DEF Acquire, Active
<1>2. /\ Top(t) \in FrameType /\ At(t).r \in Res /\ owner \in [Lock -> Task \cup {NoTask}]
  BY <1>1, TopSound, Statements DEF At
<1>3. CASE /\ Free(At(t).r) /\ Becomes(t, [Got(Top(t), At(t).r) EXCEPT !.ph = "check"])
           /\ Take(t, At(t).r)
  <2> DEFINE r == At(t).r
             fr == [Got(Top(t), r) EXCEPT !.ph = "check"]
  <2>1. /\ fr.net = [Top(t).net EXCEPT ![r] = 1] /\ fr.fn = Top(t).fn
        /\ fr.irq = Top(t).irq /\ fr.ph = "check"
    BY <1>2, GotFits DEF FrameType
  <2>2. Top(t).net[r] = 0 /\ Top(t).net \in [Res -> Int]
    BY <1>1, <1>2 DEF Disciplined, FrameType
  <2>3. \A s \in Res : Booked(t, fr.net, s)
    <3> SUFFICES ASSUME NEW s \in Res PROVE Booked(t, fr.net, s)
      OBVIOUS
    <3> HIDE DEF fr, r
    <3>1. CASE s = r
      <4>1. fr.net[s] = Top(t).net[s] + 1
        BY <2>1, <2>2, <3>1
      <4>2. s \in Lock => owner[s] = NoTask /\ owner'[s] = t
        BY <1>2, <1>3, <3>1 DEF Free, Take, r
      <4> QED BY <4>1, <4>2 DEF Booked
    <3>2. CASE s # r
      <4>1. fr.net[s] = Top(t).net[s]
        BY <2>1, <2>2, <3>2
      <4>2. s \in Lock => owner'[s] = owner[s]
        BY <1>2, <1>3, <3>2 DEF Take, r
      <4> QED BY <4>1, <4>2 DEF Booked
    <3> QED BY <3>1, <3>2
  <2>4. \A s \in Res : fr.net[s] # Top(t).net[s] => s = r
    BY <2>1, <2>2
  <2>5. Becomes(t, fr)
    BY <1>3
  <2>6. fr.ph \notin Cleaning /\ Top(t).ph \notin Cleaning
    BY <1>1, <2>1 DEF Cleaning
  <2> HIDE DEF fr
  <2>7. Continues(t, fr)
    BY <1>1, <2>1, <2>3, <2>4, <2>5, <2>6 DEF Continues
  <2> QED BY <2>7
<1>4. CASE /\ Becomes(t, [Missed(Top(t), At(t).r) EXCEPT !.ph = "check"])
           /\ owner' = owner
  <2> DEFINE fr == [Missed(Top(t), At(t).r) EXCEPT !.ph = "check"]
  <2>1. fr.net = Top(t).net /\ fr.fn = Top(t).fn /\ fr.irq = Top(t).irq /\ fr.ph = "check"
    BY <1>2, MissedFits DEF FrameType
  <2>2. Becomes(t, fr)
    BY <1>4
  <2> HIDE DEF fr
  <2>3. fr.ph \notin Cleaning /\ Top(t).ph \notin Cleaning
    BY <1>1, <2>1 DEF Cleaning
  <2>4. Continues(t, fr)
    BY <1>1, <1>4, <2>1, <2>2, <2>3, QuietContinues
  <2> QED BY <2>4
<1> QED BY <1>3, <1>4 DEF Acquire

\* What a release does to the account and to the owner, unless it does nothing.
LEMMA ReleaseBooked ==
    ASSUME LInv, NEW t \in Task, depth[t] > 0, NEW r \in Res, Drop(r),
           ~(r \in Top(t).null \cap Tolerant)
              => Total(frame[t], r, Side(Top(t)))[depth[t]] > 0
    PROVE  \A s \in Res : /\ Booked(t, Released(Top(t), r), s)
                          /\ Released(Top(t), r)[s] # Top(t).net[s] => s = r
<1> SUFFICES ASSUME NEW s \in Res
             PROVE  /\ Booked(t, Released(Top(t), r), s)
                    /\ Released(Top(t), r)[s] # Top(t).net[s] => s = r
  OBVIOUS
<1>1. Top(t).net \in [Res -> Int] /\ owner \in [Lock -> Task \cup {NoTask}]
  BY TopSound DEF FrameType
<1>2. CASE r \in Top(t).null \cap Tolerant
  <2>1. r \notin Lock
    BY <1>2, BowknotAssumption
  <2>2. owner' = owner /\ Released(Top(t), r) = Top(t).net
    BY <1>2, <2>1 DEF Drop, Released
  <2> QED BY <2>2 DEF Booked
<1>3. CASE ~(r \in Top(t).null \cap Tolerant)
  <2>1. Released(Top(t), r) = [Top(t).net EXCEPT ![r] = @ - 1]
    BY <1>3 DEF Released
  <2>2. CASE s = r
    <3>1. Released(Top(t), r)[s] = Top(t).net[s] - 1
      BY <1>1, <2>1, <2>2
    <3>2. s \in Lock => owner'[s] = NoTask
      BY <1>1, <2>2 DEF Drop
    <3>3. Booked(t, Released(Top(t), r), s)
      BY <1>3, <2>2, <3>1, <3>2 DEF Booked
    <3> QED BY <2>2, <3>3
  <2>3. CASE s # r
    <3>1. Released(Top(t), r)[s] = Top(t).net[s]
      BY <1>1, <2>1, <2>3
    <3>2. s \in Lock => owner'[s] = owner[s]
      BY <1>1, <2>3 DEF Drop
    <3>3. Booked(t, Released(Top(t), r), s)
      BY <3>1, <3>2 DEF Booked
    <3> QED BY <3>1, <3>3
  <2> QED BY <2>2, <2>3
<1> QED BY <1>2, <1>3

\* Releases, by the driver and by a cleanup block.
LEMMA ReleaseContinues ==
    ASSUME LInv, TInv', NEW t \in Task, Release(t)
    PROVE  \E fr : Continues(t, fr)
<1> DEFINE fr == [Top(t) EXCEPT !.net = Released(Top(t), At(t).r), !.ph = "check"]
<1>1. /\ depth[t] > 0 /\ At(t).op = "rel" /\ Disciplined(Top(t), At(t)) /\ Top(t).ph = "run"
      /\ depth' = depth /\ hf' = hf /\ leak' = leak /\ Becomes(t, fr) /\ Drop(At(t).r)
  BY DEF Release, Active
<1>2. Top(t) \in FrameType /\ At(t).r \in Res
  BY <1>1, TopSound, Statements DEF At
<1>3. /\ fr.net = Released(Top(t), At(t).r) /\ fr.fn = Top(t).fn
      /\ fr.irq = Top(t).irq /\ fr.ph = "check"
  BY <1>2 DEF FrameType
<1> HIDE DEF fr
<1>4. ~(At(t).r \in Top(t).null \cap Tolerant)
         => Total(frame[t], At(t).r, Side(Top(t)))[depth[t]] > 0
  BY <1>1, ReleaseBacked
<1>5. \A s \in Res : Booked(t, fr.net, s) /\ (fr.net[s] # Top(t).net[s] => s = At(t).r)
  BY <1>1, <1>2, <1>3, <1>4, ReleaseBooked
<1>6. fr.ph \notin Cleaning /\ Top(t).ph \notin Cleaning
  BY <1>1, <1>3 DEF Cleaning
<1>7. Continues(t, fr)
  BY <1>1, <1>3, <1>5, <1>6 DEF Continues
<1> QED BY <1>7

\* What a cleanup block is about to undo.
LEMMA UndoSound ==
    ASSUME LInv, NEW t \in Task, NEW r \in Res, Undoes(t, r)
    PROVE  /\ depth[t] > 0 /\ Top(t).ph = "undo" /\ ~Top(t).irq /\ Top(t).fn \notin Closing
           /\ r \in Top(t).todo /\ Undoable(Top(t), r)
           /\ First[Top(t).fn][r] \in DOMAIN Body[Top(t).fn]
           /\ Body[Top(t).fn][First[Top(t).fn][r]].op = "rel"
           /\ Body[Top(t).fn][First[Top(t).fn][r]].r = r
<1>1. depth[t] > 0 /\ Top(t).ph = "undo" /\ r \in Top(t).todo
  BY DEF Undoes, Active, IsNext
<1>2. IInv /\ Accounts /\ FrameOK(Top(t), hf[t]) /\ Placed(Top(t)) /\ Top(t).fn \in Func
  BY <1>1, TopSound
<1>3. ~Top(t).irq /\ Top(t).fn \notin Closing
  BY <1>1, <1>2 DEF FrameOK
<1>4. Accounted(Top(t), hf[t])
  BY <1>1, <1>2, <1>3, TopAccounted
<1>5. Undoable(Top(t), r)
  BY <1>1, <1>4 DEF Accounted
<1>6. r \in Undo[Top(t).fn]
  BY <1>1, <1>2 DEF Placed
<1>7. First[Top(t).fn][r] \in DOMAIN Body[Top(t).fn] /\ IsUndo(Top(t).fn, First[Top(t).fn][r], r)
  BY <1>2, <1>6, FirstIsUndo
<1> QED BY <1>1, <1>3, <1>5, <1>7 DEF IsUndo

\* The undos of a cleanup block that call nothing.
LEMMA UndoContinues ==
    ASSUME LInv, TInv', NEW t \in Task, UndoOne(t)
    PROVE  \E fr : Continues(t, fr)
<1> PICK r \in Res : /\ Undoes(t, r)
                     /\ Becomes(t, [Top(t) EXCEPT !.net = Released(Top(t), r), !.todo = @ \ {r}])
                     /\ Drop(r)
  BY DEF UndoOne
<1> DEFINE fr == [Top(t) EXCEPT !.net = Released(Top(t), r), !.todo = @ \ {r}]
<1>1. /\ depth[t] > 0 /\ Top(t).ph = "undo" /\ Undoable(Top(t), r)
      /\ depth' = depth /\ hf' = hf /\ leak' = leak
  BY UndoSound DEF UndoOne
<1>2. Top(t) \in FrameType
  BY <1>1, TopSound
<1>3. fr.net = Released(Top(t), r) /\ fr.fn = Top(t).fn /\ fr.irq = Top(t).irq /\ fr.ph = "undo"
  BY <1>1, <1>2 DEF FrameType
<1>4. Becomes(t, fr)
  OBVIOUS
<1> HIDE DEF fr
<1>5. ~(r \in Top(t).null \cap Tolerant) => Total(frame[t], r, Side(Top(t)))[depth[t]] > 0
  BY <1>1, Backed DEF Undoable
<1>6. \A s \in Res : Booked(t, fr.net, s) /\ (fr.net[s] # Top(t).net[s] => s = r)
  BY <1>1, <1>3, <1>5, ReleaseBooked
<1>7. Continues(t, fr)
  BY <1>1, <1>3, <1>4, <1>6 DEF Continues
<1> QED BY <1>7

\* The steps of the driver and of the stamps that are not about resources.
LEMMA PlainContinues ==
    ASSUME LInv, TInv', NEW t \in Task,
           Work(t) \/ Branch(t) \/ SkipBlock(t) \/ Pass(t) \/ PassBrace(t)
    PROVE  \E fr : Continues(t, fr)
<1>1. PICK fr :
        /\ fr \in {[Top(t) EXCEPT !.ph = "check"], [Top(t) EXCEPT !.ph = "then"],
                   [Top(t) EXCEPT !.pc = At(t).k],
                   [Top(t) EXCEPT !.mask = StampAfter(Top(t).fn, Top(t).pc, @),
                                  !.pc = @ + 1, !.ph = "run"],
                   [Top(t) EXCEPT !.mask = StampInThen(Top(t).fn, Top(t).pc, @),
                                  !.pc = @ + 1, !.ph = "run"]}
        /\ Becomes(t, fr)
  BY DEF Work, Branch, SkipBlock, Pass, PassBrace
<1>2. /\ depth[t] > 0 /\ depth' = depth /\ hf' = hf /\ owner' = owner /\ leak' = leak
      /\ Top(t).ph \in {"run", "check", "then"}
  BY DEF Work, Branch, SkipBlock, Pass, PassBrace, Active
<1>3. Top(t) \in FrameType
  BY <1>2, TopSound
<1>4. /\ fr.irq = Top(t).irq /\ fr.fn = Top(t).fn /\ fr.net = Top(t).net
      /\ fr.ph \in {"run", "check", "then"}
  BY <1>1, <1>2, <1>3 DEF FrameType
<1>5. fr.ph \notin Cleaning /\ Top(t).ph \notin Cleaning /\ fr.ph # "dying"
  BY <1>2, <1>4 DEF Cleaning
<1>6. Continues(t, fr)
  BY <1>1, <1>2, <1>4, <1>5, QuietContinues
<1> QED BY <1>6

\* Faults and the jump to the cleanup block: hf tells.
LEMMA FaultContinues ==
    ASSUME LInv, TInv', NEW t \in Task, Fault(t) \/ Cleanup(t) \/ CleanupOfClosing(t)
    PROVE  \E fr : Continues(t, fr)
<1>1. depth[t] > 0 /\ depth' = depth /\ owner' = owner /\ leak' = leak /\ ~Top(t).irq
  BY DEF Fault, Cleanup, CleanupOfClosing, Active, InIrq, hgoto
<1>2. Top(t) \in FrameType /\ hf \in [Task -> BOOLEAN]
  BY <1>1, TopSound
<1>3. CASE Fault(t)
  <2> DEFINE fr == [Top(t) EXCEPT !.ph = "check"]
  <2>1. Becomes(t, fr) /\ hf' = [hf EXCEPT ![t] = TRUE]
    BY <1>3 DEF Fault
  <2>2. fr.irq = Top(t).irq /\ fr.fn = Top(t).fn /\ fr.net = Top(t).net /\ fr.ph = "check"
    BY <1>2 DEF FrameType
  <2>3. hf'[t] /\ \A u \in Task \ {t} : hf'[u] = hf[u]
    BY <1>2, <2>1
  <2> HIDE DEF fr
  <2> QED BY <1>1, <2>1, <2>2, <2>3, QuietContinues
<1>4. CASE Cleanup(t)
  <2> DEFINE fr == [Top(t) EXCEPT !.ph = "undo", !.todo = Marked(Top(t))]
  <2>1. Becomes(t, fr) /\ hf' = [hf EXCEPT ![t] = FALSE] /\ hf[t]
    BY <1>4 DEF Cleanup, hgoto
  <2>2. fr.irq = Top(t).irq /\ fr.fn = Top(t).fn /\ fr.net = Top(t).net /\ fr.ph = "undo"
    BY <1>2 DEF FrameType
  <2>3. \A u \in Task \ {t} : hf'[u] = hf[u]
    BY <1>2, <2>1
  <2> HIDE DEF fr
  <2> QED BY <1>1, <2>1, <2>2, <2>3, QuietContinues
<1>5. CASE CleanupOfClosing(t)
  <2> DEFINE fr == [Top(t) EXCEPT !.ph = "dying"]
  <2>1. Becomes(t, fr) /\ hf' = hf /\ hf[t]
    BY <1>5 DEF CleanupOfClosing, hgoto
  <2>2. fr.irq = Top(t).irq /\ fr.fn = Top(t).fn /\ fr.net = Top(t).net
    BY <1>2 DEF FrameType
  <2> HIDE DEF fr
  <2> QED BY <1>1, <2>1, <2>2, QuietContinues
<1> QED BY <1>3, <1>4, <1>5

\* Calls: a function that borrows is called for a release, which is backed.
LEMMA CallStarts ==
    ASSUME Delegating, LInv, TInv', NEW t \in Task,
           Call(t) \/ Enter(t) \/ Interrupt(t) \/ UndoByCall(t)
    PROVE  \E fr, f, i : Starts(t, fr, f, i)
<1>1. CASE Call(t)
  <2> DEFINE fr == [Top(t) EXCEPT !.ph = "call"]
             f == At(t).f
             i == Top(t).irq
  <2>1. /\ depth[t] > 0 /\ hf' = hf /\ owner' = owner
        /\ Disciplined(Top(t), At(t)) /\ f # NoFunc /\ Push(t, fr, f, i)
        /\ leak' = leak /\ Top(t).ph = "run"
    BY <1>1 DEF Call, Active
  <2>2. /\ Top(t) \in FrameType /\ Top(t).fn \in Func /\ Top(t).pc \in DOMAIN Body[Top(t).fn]
        /\ f \in Func /\ At(t) = Body[Top(t).fn][Top(t).pc]
    BY <2>1, TopSound, Statements DEF At
  <2>3. fr.irq = Top(t).irq /\ fr.fn = Top(t).fn /\ fr.net = Top(t).net /\ fr.ph = "call"
    BY <2>2 DEF FrameType
  <2>4. Side(NewFrame(f, i)) = Side(Top(t))
    BY DEF Side, NewFrame, NoFrame
  <2> HIDE DEF fr, i
  <2>5. ASSUME NEW r \in Res, Borrows(f, r)
        PROVE  Total(frame[t], r, Side(NewFrame(f, i)))[depth[t]] > 0
    <3>1. At(t).op = "rel" /\ At(t).r = r
      BY <2>2, <2>5 DEF Delegating
    <3>2. At(t).r \notin Tolerant
      BY <2>1, <2>2, <3>1, BowknotAssumption
    <3>3. Total(frame[t], At(t).r, Side(Top(t)))[depth[t]] > 0
      BY <2>1, <3>1, <3>2, ReleaseBacked
    <3> QED BY <2>4, <3>1, <3>3
  <2> HIDE DEF f
  <2>6. fr.ph \notin Cleaning /\ Top(t).ph \notin Cleaning /\ (i \/ ~Top(t).irq)
    BY <2>1, <2>2, <2>3 DEF Cleaning, FrameType, i
  <2>7. Starts(t, fr, f, i)
    BY <2>1, <2>3, <2>5, <2>6 DEF Starts
  <2> QED BY <2>7
<1>2. CASE Enter(t)
  <2>1. PICK f \in Entry : Push(t, NoFrame, f, FALSE)
    BY <1>2 DEF Enter
  <2>2. /\ depth[t] = 0 /\ owner' = owner /\ leak' = leak
        /\ ~hf'[t] /\ \A u \in Task \ {t} : hf'[u] = hf[u]
    <3>1. hf \in [Task -> BOOLEAN] /\ leak \in [Task -> SUBSET Res] /\ leak[t] = {}
      BY DEF LInv, CInv, HalfExecutedUndone, IInv, TInv, TypeOK
    <3>2. leak' = [leak EXCEPT ![t] = {}] /\ hf' = [hf EXCEPT ![t] = FALSE]
      BY <1>2 DEF Enter
    <3> QED BY <1>2, <3>1, <3>2 DEF Enter
  <2>3. \A r \in Res : ~Borrows(f, r)
    BY <2>1, BowknotAssumption DEF Delegating
  <2> DEFINE fr == NoFrame
             i == FALSE
  <2>4. Push(t, fr, f, i)
    BY <2>1, Zenon
  <2> HIDE DEF fr, i
  <2>5. Starts(t, fr, f, i)
    BY <2>2, <2>3, <2>4 DEF Starts
  <2> QED BY <2>5
<1>3. CASE Interrupt(t)
  <2> DEFINE fr == IF depth[t] = 0 THEN NoFrame ELSE Top(t)
  <2>1. PICK f \in IrqEntry : Push(t, fr, f, TRUE)
    BY <1>3 DEF Interrupt
  <2>2. hf' = hf /\ owner' = owner /\ leak' = leak /\ (depth[t] > 0 => fr = Top(t))
    BY <1>3 DEF Interrupt
  <2>3. \A r \in Res : ~Borrows(f, r)
    BY <2>1, BowknotAssumption DEF Delegating
  <2> HIDE DEF fr
  <2>4. Starts(t, fr, f, TRUE)
    BY <2>1, <2>2, <2>3 DEF Starts
  <2> QED BY <2>4
<1>4. CASE UndoByCall(t)
  <2> PICK s \in Res :
             /\ Undoes(t, s)
             /\ Callee(Top(t).fn, s) # NoFunc
             /\ Push(t, [Top(t) EXCEPT !.ph = "ucall", !.pc = First[Top(t).fn][s],
                                       !.todo = @ \ {s}],
                     Callee(Top(t).fn, s), Top(t).irq)
    BY <1>4, Zenon DEF UndoByCall
  <2> DEFINE f == Callee(Top(t).fn, s)
             i == Top(t).irq
             fr == [Top(t) EXCEPT !.ph = "ucall", !.pc = First[Top(t).fn][s], !.todo = @ \ {s}]
             p == First[Top(t).fn][s]
  <2>1. /\ depth[t] > 0 /\ hf' = hf /\ owner' = owner /\ leak' = leak /\ Undoable(Top(t), s)
        /\ Top(t).ph = "undo" /\ ~Top(t).irq
        /\ p \in DOMAIN Body[Top(t).fn]
        /\ Body[Top(t).fn][p].op = "rel" /\ Body[Top(t).fn][p].r = s
    BY <1>4, UndoSound DEF UndoByCall
  <2>2. Top(t) \in FrameType /\ Top(t).fn \in Func /\ f = Body[Top(t).fn][p].f
    BY <2>1, TopSound DEF Callee
  <2>3. fr.irq = Top(t).irq /\ fr.fn = Top(t).fn /\ fr.net = Top(t).net /\ fr.ph = "ucall"
    BY <2>2 DEF FrameType
  <2>4. Side(NewFrame(f, i)) = Side(Top(t))
    BY DEF Side, NewFrame, NoFrame
  <2>5. Push(t, fr, f, i) /\ f # NoFunc /\ f \in Func
    BY <2>1, <2>2, Statements
  <2> HIDE DEF fr, i, p, f
  <2>6. ASSUME NEW r \in Res, Borrows(f, r)
        PROVE  Total(frame[t], r, Side(NewFrame(f, i)))[depth[t]] > 0
    <3>1. r = s
      BY <2>1, <2>2, <2>5, <2>6 DEF Delegating
    <3>2. s \notin Tolerant
      BY <2>1, <2>2, <2>5, BowknotAssumption
    <3>3. Top(t).net[s] = 1
      BY <2>1, <3>2 DEF Undoable
    <3>4. Total(frame[t], s, Side(Top(t)))[depth[t]] > 0
      BY <2>1, <3>3, Backed
    <3> QED BY <2>4, <3>1, <3>4
  <2>7. fr.ph \in Cleaning /\ Top(t).ph \in Cleaning
    BY <2>1, <2>3 DEF Cleaning
  <2>8. Starts(t, fr, f, i)
    BY <2>1, <2>3, <2>5, <2>6, <2>7 DEF Starts
  <2> QED BY <2>8
<1> QED BY <1>1, <1>2, <1>3, <1>4

\* A cleanup block that is done has given everything back.
LEMMA LeaveEmpty ==
    ASSUME LInv, NEW t \in Task, Leave(t)
    PROVE  \A r \in Res : Top(t).net[r] = 0
<1>1. leak' = leak /\ leak[t] = {} /\ leak \in [Task -> SUBSET Res]
  BY LeaveAccounted DEF LInv, CInv, HalfExecutedUndone, Accounts, IInv, TInv, TypeOK
<1>2. leak' = [leak EXCEPT ![t] = @ \cup {r \in Res : Top(t).net[r] # 0}]
  BY DEF Leave
<1>3. {r \in Res : Top(t).net[r] # 0} = {}
  BY <1>1, <1>2
<1> QED BY <1>3

\* Returns, to a statement, to a cleanup block and to the kernel.
LEMMA ReturnEnds ==
    ASSUME LInv, TInv', NEW t \in Task, Return(t) \/ Leave(t)
    PROVE  \E fr : Ends(t, fr)
<1>1. depth[t] > 0 /\ owner' = owner
  BY DEF Return, Leave, Active
<1>2. /\ IInv /\ hf \in [Task -> BOOLEAN]
      /\ Below(t) \in FrameType
      /\ depth[t] > 1 \/ Below(t) = NoFrame
      /\ depth[t] > 1 => /\ Below(t).ph \in {"call", "ucall"} <=> (Below(t).irq <=> Top(t).irq)
                         /\ Below(t).irq => Top(t).irq
  <2>1. IInv /\ TInv /\ hf \in [Task -> BOOLEAN]
    BY <1>1, TopSound DEF IInv
  <2>2. Below(t) \in FrameType
    BY <1>1, <2>1, BelowFits
  <2>3. depth[t] > 1 \/ Below(t) = NoFrame
    BY <1>1, <2>1, StackFits DEF Below
  <2> QED BY <2>1, <2>2, <2>3, BelowOK
<1>3. /\ Resumed(Below(t)).irq = Below(t).irq /\ Resumed(Below(t)).fn = Below(t).fn
      /\ Resumed(Below(t)).net = Below(t).net
      /\ Resumed(Below(t)).ph = "dying" => Below(t).ph = "dying"
      /\ Resumed(Below(t)).ph \in Cleaning <=> Below(t).ph \in Cleaning
  BY <1>2 DEF Resumed, FrameType, Cleaning
<1>4. CASE Return(t) /\ Below(t).ph \in {"call", "ucall"}
  <2> DEFINE err == At(t).k = 1
             net == Plus(Below(t).net, Top(t).net)
             null == Outcome(Below(t), err)
             fr == [Resumed(Below(t)) EXCEPT !.net = net, !.null = null]
  <2>1. Pop(t, fr) /\ hf' = hf /\ leak' = leak /\ Top(t).ph = "run"
    BY <1>4 DEF Return, Active
  <2>2. depth[t] > 1 /\ Below(t).irq = Top(t).irq
    <3>1. NoFrame.ph = "none"
      BY DEF NoFrame
    <3>2. depth[t] > 1
      BY <1>2, <1>4, <3>1
    <3>3. Below(t).irq \in BOOLEAN /\ Top(t).irq \in BOOLEAN
      BY <1>1, <1>2, TopSound DEF FrameType
    <3> QED BY <1>2, <1>4, <3>2, <3>3
  <2>3. Resumed(Below(t)) \in FrameType
    BY <1>1, <1>2, BelowFits DEF IInv
  <2> HIDE DEF null, net
  <2>4. /\ fr.net = net /\ fr.irq = Below(t).irq /\ fr.fn = Below(t).fn
        /\ fr.ph = "dying" => Below(t).ph = "dying"
        /\ fr.ph \in Cleaning <=> Below(t).ph \in Cleaning
    BY <1>3, <2>3 DEF FrameType
  <2> HIDE DEF fr
  <2>5. \A r \in Res : Settles(t, fr.net, r)
    BY <2>2, <2>4 DEF Settles, Plus, net
  <2>6. Ends(t, fr)
    BY <1>1, <2>1, <2>4, <2>5 DEF Ends
  <2> QED BY <2>6
<1>5. CASE Return(t) /\ Below(t).ph \notin {"call", "ucall"}
  <2>1. Pop(t, Below(t)) /\ Quits(Top(t).net) /\ hf' = hf /\ leak' = leak /\ Top(t).ph = "run"
    BY <1>5 DEF Return, Active
  <2>2. \A r \in Res : Settles(t, Below(t).net, r)
    <3>1. depth[t] > 1 => Top(t).irq
      BY <1>2, <1>5
    <3>2. ASSUME NEW r \in Res PROVE r \in Lock \/ (depth[t] > 1 /\ ~Top(t).irq) => Top(t).net[r] = 0
      BY <2>1, <3>1 DEF Quits
    <3> QED BY <3>2 DEF Settles
  <2>3. Ends(t, Below(t))
    BY <1>1, <2>1, <2>2 DEF Ends
  <2> QED BY <2>3
<1>6. CASE Leave(t)
  <2> DEFINE fr == Resumed(Below(t))
  <2>1. Pop(t, fr) /\ hf' = [hf EXCEPT ![t] = TRUE]
    BY <1>6 DEF Leave
  <2>2. hf'[t] = TRUE /\ \A u \in Task \ {t} : hf'[u] = hf[u]
    BY <1>2, <2>1
  <2>3. \A r \in Res : Top(t).net[r] = 0
    BY <1>6, LeaveEmpty
  <2>4. \A r \in Res : Settles(t, fr.net, r)
    BY <1>3, <2>3 DEF Settles
  <2>5. Top(t).ph = "undo" /\ ~Top(t).irq
    <3>1. Top(t).ph = "undo"
      BY <1>6 DEF Leave, Active
    <3> QED BY <1>1, <3>1, TopSound DEF FrameOK
  <2>6. leak' = leak
    BY <1>2, <1>6, LeaveAccounted, TopSound, <1>1
  <2> HIDE DEF fr
  <2>7. Ends(t, fr)
    BY <1>1, <1>3, <2>1, <2>2, <2>3, <2>4, <2>5, <2>6 DEF Ends, fr
  <2> QED BY <2>7
<1> QED BY <1>4, <1>5, <1>6

\* A fresh kernel owes nothing.
LEMMA RestartLedgers ==
    ASSUME TInv', NEW t \in Task, Restart(t)
    PROVE  Ledgers'
<1>1. /\ \A u \in Task : depth'[u] = 0 /\ 1..depth'[u] = {}
      /\ \A l \in Lock : owner'[l] = NoTask
  BY DEF Restart
<1>2. \A u \in Task : u # NoTask
  BY BowknotAssumption
<1>3. ASSUME NEW u \in Task, NEW l \in Lock
      PROVE  /\ Total(frame'[u], l, "call")[0] = 0
             /\ Total(frame'[u], l, "interrupt")[0] = 0
  BY TotalAdds, BowknotAssumption DEF TInv, TypeOK
<1>4. LockLedger'
  BY <1>1, <1>2, <1>3 DEF LockLedger
<1> QED BY <1>1, <1>4 DEF Ledgers, Doomed, Solvent

-----------------------------------------------------------------------------
(* The theorems. *)

\* A step of a sheltered, covered and delegating program, as its accounts see it.
LEMMA StepShapes ==
    ASSUME Sheltered, Covered, Delegating, LInv, TInv',
           NEW t \in Task, Enter(t) \/ Step(t) \/ Surprise(t)
    PROVE  \/ \E fr : Continues(t, fr)
           \/ \E fr, f, i : Starts(t, fr, f, i)
           \/ \E fr : Ends(t, fr)
           \/ Restart(t)
<1>1. ~AcquireInCondition(t) /\ ~FaultInCondition(t) /\ ~FaultInReturn(t)
  <2>1. ASSUME depth[t] > 0
        PROVE  /\ At(t).op # "cond"
               /\ <<Top(t).fn, Top(t).pc>> \in CanFault => At(t).op \in {"acq", "rel", "work"}
    BY <2>1, TopSound DEF Sheltered, At
  <2> QED BY <2>1 DEF AcquireInCondition, FaultInCondition, FaultInReturn, Active
<1>2. ~UndoFault(t)
  BY DEF UndoFault, Sheltered
<1>3. CASE Acquire(t) \/ Release(t) \/ UndoOne(t)
  BY <1>3, AcquireContinues, ReleaseContinues, UndoContinues
<1>4. CASE Work(t) \/ Branch(t) \/ SkipBlock(t) \/ Pass(t) \/ PassBrace(t)
  BY <1>4, PlainContinues
<1>5. CASE Fault(t) \/ Cleanup(t) \/ CleanupOfClosing(t)
  BY <1>5, FaultContinues
<1>6. CASE Call(t) \/ Enter(t) \/ Interrupt(t) \/ UndoByCall(t)
  BY <1>6, CallStarts
<1>7. CASE Return(t) \/ Leave(t)
  BY <1>7, ReturnEnds
<1> QED BY <1>1, <1>2, <1>3, <1>4, <1>5, <1>6, <1>7 DEF Step, Surprise

\* Every step of a sheltered, covered and delegating program keeps LInv.
LEMMA LedgerStep == Sheltered /\ Covered /\ Delegating /\ LInv /\ [Next]_vars => LInv'
<1> SUFFICES ASSUME Sheltered, Covered, Delegating, LInv, [Next]_vars PROVE LInv'
  OBVIOUS
<1>1. CInv' /\ TInv' /\ CInv
  BY CoveredStep DEF LInv, CInv, IInv
<1>2. SUFFICES Ledgers'
  BY <1>1 DEF LInv, Ledgers
<1>3. CASE UNCHANGED vars
  BY <1>3 DEF vars, LInv, Ledgers, LockLedger, Doomed, Solvent
<1>4. ASSUME NEW t \in Task, Enter(t) \/ Step(t) \/ Surprise(t)
      PROVE  Ledgers'
  <2>1. ASSUME NEW fr, Continues(t, fr) PROVE Ledgers'
    BY <1>1, <2>1, BecomesLedgers
  <2>2. ASSUME NEW fr, NEW f, NEW i, Starts(t, fr, f, i) PROVE Ledgers'
    BY <1>1, <2>2, PushLedgers
  <2>3. ASSUME NEW fr, Ends(t, fr) PROVE Ledgers'
    BY <1>1, <2>3, PopLedgers
  <2>4. CASE Restart(t)
    BY <1>1, <2>4, RestartLedgers
  <2> QED BY <1>1, <1>4, <2>1, <2>2, <2>3, <2>4, StepShapes
<1>5. CASE Next
  BY <1>4, <1>5 DEF Next
<1> QED BY <1>3, <1>5

\* In every sheltered, covered and delegating program LInv always holds: the
\* accounts of every stack, call and interrupt apart, never run into debt, the
\* locks' owners are who the accounts say, and only a call cut short restarts
\* the kernel.
THEOREM LedgerInvariant ==
    ASSUME Sheltered, Covered, Delegating
    PROVE  Spec => []LInv
<1>1. Init => LInv
  <2> SUFFICES ASSUME Init PROVE LInv
    OBVIOUS
  <2>1. CInv
    BY InitOK DEF Init, CInv, HalfExecutedUndone
  <2>2. /\ \A u \in Task : depth[u] = 0 /\ 1..depth[u] = {}
        /\ \A l \in Lock : owner[l] = NoTask
    BY DEF Init
  <2>3. \A u \in Task : u # NoTask
    BY BowknotAssumption
  <2>4. ASSUME NEW u \in Task, NEW l \in Lock
        PROVE  /\ Total(frame[u], l, "call")[0] = 0
               /\ Total(frame[u], l, "interrupt")[0] = 0
    BY <2>1, TotalAdds, BowknotAssumption DEF CInv, IInv, TInv, TypeOK
  <2>5. LockLedger
    BY <2>2, <2>3, <2>4 DEF LockLedger
  <2> QED BY <2>1, <2>2, <2>5 DEF LInv, Doomed, Solvent
<1> QED BY <1>1, LedgerStep, PTL DEF Spec

\* generate_cleanup_str across tasks: in every sheltered, covered and delegating
\* program what the frames of a task account for is exactly what it owns, so no
\* cleanup lets go of a lock another task holds, and none keeps one.
THEOREM LedgerCorrect ==
    ASSUME Sheltered, Covered, Delegating
    PROVE  Spec => []LockLedger
<1>1. LInv => LockLedger
  BY DEF LInv
<1> QED BY <1>1, LedgerInvariant, PTL

-----------------------------------------------------------------------------
(* What shows of the tasks. *)

\* A step that is about t alone.
Alone(t) ==
    \A u \in Task \ {t} :
        frame'[u] = frame[u] /\ depth'[u] = depth[u] /\ hf'[u] = hf[u] /\ leak'[u] = leak[u]

\* It shows of t alone.
LEMMA OthersSeen ==
    ASSUME NEW t \in Task, Alone(t), NEW u \in Task \ {t}
    PROVE  /\ u \in Inside' <=> u \in Inside
           /\ u \in Cut' <=> u \in Cut
           /\ Holds(u)' = Holds(u)
BY DEF Alone, Inside, Cut, Own, Holds

\* The sets of tasks that show, after a step that is about t alone.
LEMMA TasksSeen ==
    ASSUME NEW t \in Task, Alone(t)
    PROVE  /\ Inside \subseteq Task /\ Cut \subseteq Inside
           /\ (t \in Inside' <=> t \in Inside) => Inside' = Inside
           /\ t \in Inside' => Inside' = Inside \cup {t}
           /\ t \notin Inside' => Inside' = Inside \ {t}
           /\ (t \in Cut' <=> t \in Cut) => Cut' = Cut
           /\ t \in Cut' => Cut' = Cut \cup {t}
           /\ t \notin Cut' => Cut' = Cut \ {t}
<1>1. Inside \subseteq Task /\ Inside' \subseteq Task
  BY DEF Inside
<1>2. Cut \subseteq Inside /\ Cut' \subseteq Inside'
  BY DEF Cut
<1>3. \A u \in Task \ {t} : (u \in Inside' <=> u \in Inside) /\ (u \in Cut' <=> u \in Cut)
  BY OthersSeen
<1> DEFINE in == Inside
           on == Inside'
           cut == Cut
           out == Cut'
<1>4. /\ in \subseteq Task /\ on \subseteq Task /\ cut \subseteq in /\ out \subseteq on
      /\ \A u \in Task \ {t} : (u \in on <=> u \in in) /\ (u \in out <=> u \in cut)
  BY <1>1, <1>2, <1>3
<1> HIDE DEF in, on, cut, out
<1>5. /\ (t \in on <=> t \in in) => on = in
      /\ t \in on => on = in \cup {t}
      /\ t \notin on => on = in \ {t}
  BY <1>4
<1>6. /\ (t \in out <=> t \in cut) => out = cut
      /\ t \in out => out = cut \cup {t}
      /\ t \notin out => out = cut \ {t}
  BY <1>4
<1> QED BY <1>4, <1>5, <1>6 DEF in, on, cut, out

\* What the tasks hold, after a step that is about t alone.
LEMMA HoldingsSeen ==
    ASSUME NEW t \in Task, Alone(t)
    PROVE  /\ Holds(t)' = Holds(t) => [u \in Task |-> Holds(u)]' = [u \in Task |-> Holds(u)]
           /\ [u \in Task |-> Holds(u)]' = [[u \in Task |-> Holds(u)] EXCEPT ![t] = Holds(t)']
<1>1. \A u \in Task \ {t} : Holds(u)' = Holds(u)
  BY OthersSeen
<1> DEFINE new(u) == Holds(u)'
           old(u) == Holds(u)
<1>2. \A u \in Task \ {t} : new(u) = old(u)
  BY <1>1
<1> HIDE DEF new, old
<1>3. /\ new(t) = old(t) => [u \in Task |-> new(u)] = [u \in Task |-> old(u)]
      /\ [u \in Task |-> new(u)] = [[u \in Task |-> old(u)] EXCEPT ![t] = new(t)]
  BY <1>2
<1> QED BY <1>3 DEF new, old

\* What t accounts for on the side of its call.
Held(t, r) == Total(frame[t], r, "call")[depth[t]]

\* Nothing is left behind, so what shows of t is what it accounts for.
LEMMA HoldsHeld ==
    ASSUME LInv, NEW t \in Task
    PROVE  /\ Holds(t) = [r \in Res |-> Held(t, r)]
           /\ \A r \in Res : Held(t, r) \in Nat
<1>1. leak[t] = {} /\ \A r \in Res : Held(t, r) \in Nat
  BY HasOwner DEF LInv, CInv, HalfExecutedUndone, Held
<1>2. \A r \in Res : Held(t, r) + (IF r \in leak[t] THEN 1 ELSE 0) = Held(t, r)
  BY <1>1
<1> QED BY <1>1, <1>2 DEF Holds, Held

\* What shows of t follows its account.
LEMMA HoldsMoves ==
    ASSUME LInv, NEW t \in Task, leak'[t] = leak[t], NEW r \in Res, NEW change \in Int,
           Held(t, r)' = Held(t, r) + change,
           \A s \in Res \ {r} : Held(t, s)' = Held(t, s)
    PROVE  Holds(t)' = [Holds(t) EXCEPT ![r] = @ + change]
<1>1. leak'[t] = {} /\ Holds(t) = [s \in Res |-> Held(t, s)] /\ \A s \in Res : Held(t, s) \in Nat
  BY HoldsHeld DEF LInv, CInv, HalfExecutedUndone
<1>2. \A s \in Res : Held(t, s)' = IF s = r THEN Held(t, s) + change ELSE Held(t, s)
  OBVIOUS
<1>3. \A s \in Res : Held(t, s)' + (IF s \in leak'[t] THEN 1 ELSE 0) = Held(t, s)'
  <2>1. \A s \in Res : Held(t, s)' \in Int
    BY <1>1, <1>2
  <2> QED BY <1>1, <2>1
<1>4. Holds(t)' = [s \in Res |-> Held(t, s)']
  BY <1>3 DEF Holds, Held
<1> QED BY <1>1, <1>2, <1>4

\* It does not change when the account does not.
LEMMA HoldsStays ==
    ASSUME NEW t \in Task, leak'[t] = leak[t], \A r \in Res : Held(t, r)' = Held(t, r)
    PROVE  Holds(t)' = Holds(t)
BY DEF Holds, Held

-----------------------------------------------------------------------------
(* The abstract steps. *)

\* What does not show.
LEMMA Stutters ==
    ASSUME NEW t \in Task, Alone(t), t \in Inside' <=> t \in Inside, t \in Cut' <=> t \in Cut,
           Holds(t)' = Holds(t)
    PROVE  UNCHANGED Abstract!vars
BY TasksSeen, HoldingsSeen DEF Abstract!vars

\* The call of t takes r.
LEMMA Takes ==
    ASSUME NEW t \in Task, NEW r \in Res, Alone(t), t \in Inside, t \in Inside',
           t \in Cut' <=> t \in Cut,
           r \in Lock => \A u \in Task : Holds(u)[r] = 0,
           Holds(t)' = [Holds(t) EXCEPT ![r] = @ + 1]
    PROVE  Abstract!Take(t, r)
<1>1. Inside' = Inside /\ Cut' = Cut
  BY TasksSeen
<1>2. [u \in Task |-> Holds(u)]' = [[u \in Task |-> Holds(u)] EXCEPT ![t][r] = @ + 1]
  BY HoldingsSeen
<1> QED BY <1>1, <1>2 DEF Abstract!Take

\* It gives r back.
LEMMA Gives ==
    ASSUME NEW t \in Task, NEW r \in Res, Alone(t), t \in Inside, t \in Inside',
           t \in Cut' <=> t \in Cut, Holds(t)[r] > 0,
           Holds(t)' = [Holds(t) EXCEPT ![r] = @ - 1]
    PROVE  Abstract!Give(t, r)
<1>1. Inside' = Inside /\ Cut' = Cut
  BY TasksSeen
<1>2. [u \in Task |-> Holds(u)]' = [[u \in Task |-> Holds(u)] EXCEPT ![t][r] = @ - 1]
  BY HoldingsSeen
<1> QED BY <1>1, <1>2 DEF Abstract!Give

-----------------------------------------------------------------------------
(* A step of the last frame. *)

\* Frames of a call lie below the frames of an interrupt on it, so that the call
\* is there if the frame that runs is one of its frames.
LEMMA RunningInside ==
    ASSUME TInv, NEW t \in Task, depth[t] > 0, ~Top(t).irq
    PROVE  depth[t] \in Own(t) /\ t \in Inside /\ (hf[t] => t \in Cut)
<1>1. depth[t] \in 1..depth[t]
  BY StackFits
<1>2. depth[t] \in Own(t)
  BY <1>1 DEF Own, Top
<1> QED BY <1>2 DEF Inside, Cut

\* The call keeps its frames, and is cut short as it was unless hf or the start
\* of a cleanup block says otherwise.
LEMMA ContinuesInside ==
    ASSUME TInv, NEW t \in Task, NEW fr, Continues(t, fr)
    PROVE  /\ Alone(t)
           /\ t \in Inside' <=> t \in Inside
           /\ hf'[t] = hf[t] /\ (fr.ph \in Cleaning <=> Top(t).ph \in Cleaning)
                => (t \in Cut' <=> t \in Cut)
           /\ ~Top(t).irq => t \in Inside
           /\ ~Top(t).irq /\ hf[t] => t \in Cut
           /\ ~Top(t).irq /\ (hf'[t] \/ fr.ph \in Cleaning) => t \in Cut'
<1>1. /\ depth[t] > 0 /\ depth' = depth /\ Becomes(t, fr) /\ fr.irq = Top(t).irq /\ leak' = leak
      /\ \A u \in Task \ {t} : hf'[u] = hf[u]
  BY DEF Continues
<1>2. Alone(t)
  BY <1>1, TotalsOfOthers DEF Alone
<1>3. ASSUME NEW d \in 1..depth[t]
      PROVE  /\ frame'[t][d].irq = frame[t][d].irq
             /\ d # depth[t] => frame'[t][d] = frame[t][d]
             /\ d = depth[t] => frame'[t][d] = fr /\ frame[t][d] = Top(t)
  <2>1. frame'[t][d] = IF d = depth[t] THEN fr ELSE frame[t][d]
    BY <1>1, FramesAfterBecomes
  <2> QED BY <1>1, <2>1 DEF Top
<1>4. Own(t)' = Own(t) /\ Own(t) \subseteq 1..depth[t]
  BY <1>1, <1>3 DEF Own
<1>5. t \in Inside' <=> t \in Inside
  BY <1>4 DEF Inside
<1>6. ASSUME hf'[t] = hf[t], fr.ph \in Cleaning <=> Top(t).ph \in Cleaning
      PROVE  t \in Cut' <=> t \in Cut
  <2>1. \A d \in Own(t) : frame'[t][d].ph \in Cleaning <=> frame[t][d].ph \in Cleaning
    BY <1>3, <1>4, <1>6
  <2> QED BY <1>4, <1>5, <1>6, <2>1 DEF Cut, Cleaning
<1>7. ASSUME ~Top(t).irq, hf'[t] \/ fr.ph \in Cleaning
      PROVE  t \in Cut'
  <2>1. depth[t] \in Own(t) /\ t \in Inside
    BY <1>1, <1>7, RunningInside
  <2>2. frame'[t][depth[t]] = fr
    BY <1>3, <1>4, <2>1
  <2> QED BY <1>4, <1>5, <1>7, <2>1, <2>2 DEF Cut, Cleaning
<1> QED BY <1>1, <1>2, <1>5, <1>6, <1>7, RunningInside

\* It takes or gives one resource, or is cut short, or nothing shows.
LEMMA ContinuesRefines ==
    ASSUME LInv, TInv', NEW t \in Task, NEW fr, Continues(t, fr)
    PROVE  Abstract!Next \/ UNCHANGED Abstract!vars
<1>1. /\ TInv /\ leak'[t] = leak[t] /\ depth[t] > 0 /\ depth'[t] = depth[t]
  BY DEF LInv, CInv, IInv, Continues
<1>2. /\ Alone(t) /\ (t \in Inside' <=> t \in Inside)
      /\ hf'[t] = hf[t] /\ (fr.ph \in Cleaning <=> Top(t).ph \in Cleaning)
           => (t \in Cut' <=> t \in Cut)
      /\ ~Top(t).irq => t \in Inside
      /\ ~Top(t).irq /\ hf[t] => t \in Cut
      /\ ~Top(t).irq /\ (hf'[t] \/ fr.ph \in Cleaning) => t \in Cut'
  BY <1>1, ContinuesInside
<1>3. ASSUME NEW r \in Res
      PROVE  /\ Held(t, r)' = Held(t, r) + IF Side(Top(t)) = "call" THEN fr.net[r] - Top(t).net[r] ELSE 0
             /\ Held(t, r) \in Nat /\ fr.net[r] \in Int /\ Top(t).net[r] \in Int
  <2>1. /\ Total(frame'[t], r, "call")[depth[t]] = Total(frame[t], r, "call")[depth[t]]
              + IF Side(Top(t)) = "call" THEN fr.net[r] - Top(t).net[r] ELSE 0
        /\ Total(frame[t], r, "call")[depth[t]] \in Nat
        /\ fr.net[r] \in Int /\ Top(t).net[r] \in Int
    BY ContinuesTotals
  <2> QED BY <1>1, <2>1 DEF Held
<1>4. CASE hf'[t] = hf[t] /\ (fr.ph \in Cleaning <=> Top(t).ph \in Cleaning)
  <2>1. CASE Top(t).irq \/ \A r \in Res : fr.net[r] = Top(t).net[r]
    <3>1. Top(t).irq => Side(Top(t)) # "call"
      BY DEF Side
    <3>2. \A r \in Res : Held(t, r)' = Held(t, r)
      BY <1>3, <2>1, <3>1
    <3>3. Holds(t)' = Holds(t)
      BY <1>1, <3>2, HoldsStays
    <3> QED BY <1>2, <1>4, <3>3, Stutters
  <2>2. CASE ~Top(t).irq /\ \E r \in Res : fr.net[r] # Top(t).net[r]
    <3>1. PICK r \in Res : fr.net[r] # Top(t).net[r]
      BY <2>2
    <3>2. Side(Top(t)) = "call"
      BY <2>2 DEF Side
    <3>3. \A s \in Res \ {r} : fr.net[s] = Top(t).net[s]
      BY <3>1 DEF Continues
    <3>4. \A s \in Res \ {r} : Held(t, s)' = Held(t, s)
      BY <1>3, <3>3
    <3>5. Holds(t) = [s \in Res |-> Held(t, s)]
      BY HoldsHeld
    <3>6. Booked(t, fr.net, r)
      BY DEF Continues
    <3>7. CASE fr.net[r] = Top(t).net[r] + 1
      <4>1. r \in Lock => owner[r] = NoTask
        BY <1>3, <3>6, <3>7 DEF Booked
      <4>2. ASSUME r \in Lock, NEW u \in Task PROVE Holds(u)[r] = 0
        <5>1. Has(u, r) = 0
          BY <4>1, <4>2, HasOwner, BowknotAssumption
        <5>2. Held(u, r) = 0
          BY <5>1, HasOwner DEF Has, Held
        <5> QED BY <5>2, HoldsHeld
      <4>3. Held(t, r)' = Held(t, r) + 1
        BY <1>3, <3>2, <3>7
      <4>4. Holds(t)' = [Holds(t) EXCEPT ![r] = @ + 1]
        BY <1>1, <3>4, <4>3, HoldsMoves
      <4>5. Abstract!Take(t, r)
        BY <1>2, <1>4, <2>2, <4>2, <4>4, Takes
      <4> QED BY <4>5 DEF Abstract!Next
    <3>8. CASE fr.net[r] = Top(t).net[r] - 1
      <4>1. Total(frame[t], r, Side(Top(t)))[depth[t]] > 0
        BY <1>3, <3>6, <3>8 DEF Booked
      <4>2. Holds(t)[r] > 0
        BY <3>2, <3>5, <4>1 DEF Held
      <4>3. Held(t, r)' = Held(t, r) + (-1)
        BY <1>3, <3>2, <3>8
      <4>4. Holds(t)' = [Holds(t) EXCEPT ![r] = @ + (-1)]
        BY <1>1, <3>4, <4>3, HoldsMoves
      <4>5. Holds(t)' = [Holds(t) EXCEPT ![r] = @ - 1]
        BY <1>3, <3>5, <4>4
      <4>6. Abstract!Give(t, r)
        BY <1>2, <1>4, <2>2, <4>2, <4>5, Gives
      <4> QED BY <4>6 DEF Abstract!Next
    <3> QED BY <3>1, <3>6, <3>7, <3>8 DEF Booked
  <2> QED BY <2>1, <2>2
<1>5. CASE ~Top(t).irq /\ fr.net = Top(t).net /\ (hf'[t] \/ (hf[t] /\ fr.ph = "undo"))
  <2>1. \A r \in Res : Held(t, r)' = Held(t, r)
    BY <1>3, <1>5
  <2>2. Holds(t)' = Holds(t)
    BY <1>1, <2>1, HoldsStays
  <2>3. t \in Inside /\ t \in Inside' /\ t \in Cut'
    BY <1>2, <1>5 DEF Cleaning
  <2>4. CASE t \in Cut
    BY <1>2, <2>2, <2>3, <2>4, Stutters
  <2>5. CASE t \notin Cut
    <3>1. Inside' = Inside /\ Cut' = Cut \cup {t}
      BY <1>2, <2>3, TasksSeen
    <3>2. [u \in Task |-> Holds(u)]' = [u \in Task |-> Holds(u)]
      BY <1>2, <2>2, HoldingsSeen
    <3>3. Abstract!CutShort(t)
      BY <2>3, <2>5, <3>1, <3>2 DEF Abstract!CutShort
    <3> QED BY <3>3 DEF Abstract!Next
  <2> QED BY <2>4, <2>5
<1> QED BY <1>4, <1>5 DEF Continues

-----------------------------------------------------------------------------
(* A function starts. *)

\* The frames that were there show what they showed, and the new one is at its
\* first statement.
LEMMA StartsInside ==
    ASSUME TInv, NEW t \in Task, NEW fr, NEW f, NEW i, Starts(t, fr, f, i)
    PROVE  /\ Alone(t)
           /\ depth[t] > 0 => (t \in Inside' <=> t \in Inside) /\ (t \in Cut' <=> t \in Cut)
           /\ depth[t] = 0 => /\ t \notin Inside /\ t \notin Cut /\ t \notin Cut'
                              /\ i => t \notin Inside'
<1>1. /\ Push(t, fr, f, i) /\ leak' = leak /\ \A u \in Task \ {t} : hf'[u] = hf[u]
      /\ depth[t] > 0 => /\ fr.irq = Top(t).irq /\ (fr.ph \in Cleaning <=> Top(t).ph \in Cleaning)
                         /\ i \/ ~Top(t).irq
      /\ hf'[t] = hf[t] \/ depth[t] = 0
      /\ depth[t] = 0 => i \/ ~hf'[t]
  BY DEF Starts
<1>2. Alone(t)
  BY <1>1, TotalsOfOthers DEF Alone
<1>3. depth[t] \in Nat /\ depth'[t] = depth[t] + 1
  BY <1>1, StackFits DEF Push, TInv, TypeOK
<1>4. ASSUME NEW d \in 1..depth'[t]
      PROVE  /\ d = depth[t] + 1 => (frame'[t][d].irq <=> i) /\ frame'[t][d].ph \notin Cleaning
             /\ d # depth[t] + 1 => /\ d \in 1..depth[t]
                                    /\ frame'[t][d].irq <=> frame[t][d].irq
                                    /\ frame'[t][d].ph \in Cleaning <=> frame[t][d].ph \in Cleaning
  <2>1. /\ d # depth[t] + 1 => d \in 1..depth[t]
        /\ frame'[t][d] = IF d = depth[t] + 1 THEN NewFrame(f, i)
                          ELSE IF d = depth[t] THEN fr ELSE frame[t][d]
    BY <1>1, FramesAfterPush
  <2>2. CASE d = depth[t] + 1
    <3>1. NewFrame(f, i).irq = i /\ NewFrame(f, i).ph = "run"
      BY DEF NewFrame, NoFrame
    <3> QED BY <2>1, <2>2, <3>1 DEF Cleaning
  <2>3. CASE d # depth[t] + 1 /\ d = depth[t]
    BY <1>1, <2>1, <2>3 DEF Top
  <2>4. CASE d # depth[t] + 1 /\ d # depth[t]
    BY <2>1, <2>4
  <2> QED BY <2>2, <2>3, <2>4
<1>5. ASSUME NEW d \in 1..depth[t]
      PROVE  d \in 1..depth'[t] /\ d # depth[t] + 1
  BY <1>3
<1>6. CASE depth[t] > 0
  <2>1. \A d \in Own(t) : d \in Own(t)' /\ (frame'[t][d].ph \in Cleaning <=> frame[t][d].ph \in Cleaning)
    BY <1>4, <1>5 DEF Own
  <2>2. \A d \in Own(t)' : d # depth[t] + 1 => d \in Own(t)
    BY <1>4 DEF Own
  <2>3. \A d \in Own(t)' : d = depth[t] + 1 => Own(t) # {} /\ frame'[t][d].ph \notin Cleaning
    <3>1. SUFFICES ASSUME NEW d \in Own(t)', d = depth[t] + 1
                   PROVE  Own(t) # {} /\ frame'[t][d].ph \notin Cleaning
      OBVIOUS
    <3>2. d \in 1..depth'[t] /\ ~frame'[t][d].irq
      BY DEF Own
    <3>3. ~i /\ frame'[t][d].ph \notin Cleaning
      BY <1>4, <3>1, <3>2
    <3> QED BY <1>1, <1>6, <3>3, RunningInside
  <2>4. t \in Inside' <=> t \in Inside
    BY <2>1, <2>2, <2>3 DEF Inside
  <2>5. t \in Cut' <=> t \in Cut
    BY <1>1, <1>6, <2>1, <2>2, <2>3, <2>4 DEF Cut, Cleaning
  <2> QED BY <1>2, <1>6, <2>4, <2>5
<1>7. CASE depth[t] = 0
  <2>1. Own(t) = {}
    BY <1>7 DEF Own
  <2>2. \A d \in Own(t)' : ~i /\ frame'[t][d].ph \notin Cleaning
    <3>1. \A d \in 1..depth'[t] : d = depth[t] + 1
      BY <1>3, <1>7
    <3> QED BY <1>4, <3>1 DEF Own
  <2>3. t \notin Inside /\ t \notin Cut /\ (i => t \notin Inside')
    BY <2>1, <2>2 DEF Inside, Cut
  <2>4. t \notin Cut'
    BY <1>1, <1>7, <2>2, <2>3 DEF Cut, Cleaning
  <2> QED BY <1>2, <1>7, <2>3, <2>4
<1> QED BY <1>3, <1>6, <1>7

\* A system call begins, or nothing shows.
LEMMA StartsRefines ==
    ASSUME LInv, TInv', NEW t \in Task, NEW fr, NEW f, NEW i, Starts(t, fr, f, i)
    PROVE  Abstract!Next \/ UNCHANGED Abstract!vars
<1>1. TInv /\ leak'[t] = leak[t] /\ Push(t, fr, f, i)
  BY DEF LInv, CInv, IInv, Starts
<1>2. depth[t] \in Nat /\ depth'[t] = depth[t] + 1
  BY <1>1, StackFits DEF Push, TInv, TypeOK
<1>3. ASSUME NEW r \in Res PROVE Held(t, r)' = Held(t, r)
  <2>1. Total(frame'[t], r, "call")[depth[t] + 1] = Total(frame[t], r, "call")[depth[t]]
    BY StartsTotals
  <2> QED BY <1>2, <2>1 DEF Held
<1>4. Holds(t)' = Holds(t)
  BY <1>1, <1>3, HoldsStays
<1>5. /\ Alone(t)
      /\ depth[t] > 0 => (t \in Inside' <=> t \in Inside) /\ (t \in Cut' <=> t \in Cut)
      /\ depth[t] = 0 => t \notin Inside /\ t \notin Cut /\ t \notin Cut'
  BY <1>1, StartsInside
<1>6. CASE depth[t] > 0 \/ t \notin Inside'
  BY <1>2, <1>4, <1>5, <1>6, Stutters
<1>7. CASE depth[t] = 0 /\ t \in Inside'
  <2>1. Inside' = Inside \cup {t} /\ Cut' = Cut
    BY <1>5, <1>7, TasksSeen
  <2>2. [u \in Task |-> Holds(u)]' = [u \in Task |-> Holds(u)]
    BY <1>4, <1>5, HoldingsSeen
  <2>3. Abstract!Begin(t)
    BY <1>5, <1>7, <2>1, <2>2 DEF Abstract!Begin
  <2> QED BY <2>3 DEF Abstract!Next
<1> QED BY <1>2, <1>6, <1>7

-----------------------------------------------------------------------------
(* A function returns. *)

\* The account of the call is settled, or over.
LEMMA EndsHeld ==
    ASSUME LInv, TInv', NEW t \in Task, NEW fr, Ends(t, fr), NEW r \in Res
    PROVE  /\ depth[t] > 1 \/ Top(t).irq => Held(t, r)' = Held(t, r)
           /\ depth[t] = 1 => Held(t, r)' = 0
           /\ depth[t] = 1 /\ ~Top(t).irq => Held(t, r) = Top(t).net[r]
<1> DEFINE n == depth[t]
           old == Total(frame[t], r, "call")
           new == Total(frame'[t], r, "call")
<1>1. TInv /\ Pop(t, fr) /\ n > 0 /\ Settles(t, fr.net, r)
  BY DEF LInv, CInv, IInv, Ends
<1>2. n > 1 => Side(fr) = Side(Below(t))
  BY DEF Side, Ends
<1>3. /\ depth'[t] = n - 1
      /\ n > 1 => new[n - 1] = old[n - 1]
                     + IF Side(Below(t)) = "call" THEN fr.net[r] - Below(t).net[r] ELSE 0
  BY <1>1, <1>2, PopTotals
<1>4. /\ old[n] = old[n - 1] + IF Side(Top(t)) = "call" THEN Top(t).net[r] ELSE 0
      /\ old[n - 1] \in Nat
  BY <1>1, TopTotals
<1>5. Top(t).net[r] \in Int /\ Below(t).net[r] \in Int
  <2>1. Top(t) \in FrameType /\ Below(t) \in FrameType
    BY <1>1, TopFits, BelowFits
  <2> QED BY <2>1 DEF FrameType
<1>6. new[0] = 0 /\ old[0] = 0
  <2>1. frame'[t] \in [Level -> FrameType]
    BY DEF TInv, TypeOK
  <2> QED BY <1>1, <2>1, StackFits, TotalAdds
<1>7. Held(t, r) = old[n] /\ Held(t, r)' = new[n - 1] /\ n \in Nat
  BY <1>1, <1>3, StackFits DEF Held
<1> HIDE DEF n, old, new
<1>8. CASE n = 1
  <2>1. Side(Top(t)) = IF Top(t).irq THEN "interrupt" ELSE "call"
    BY DEF Side
  <2>2. old[n] = (IF Side(Top(t)) = "call" THEN Top(t).net[r] ELSE 0) /\ new[n - 1] = 0
    BY <1>4, <1>5, <1>6, <1>8
  <2> QED BY <1>7, <1>8, <2>1, <2>2 DEF n
<1>9. CASE n > 1
  <2>1. CASE Below(t).irq = Top(t).irq /\ fr.net[r] = Below(t).net[r] + Top(t).net[r]
    <3>1. Side(Below(t)) = Side(Top(t))
      BY <2>1 DEF Side
    <3>2. new[n - 1] = old[n]
      BY <1>3, <1>4, <1>5, <1>9, <2>1, <3>1
    <3> QED BY <1>7, <1>9, <3>2 DEF n
  <2>2. CASE fr.net[r] = Below(t).net[r] /\ (~Top(t).irq => Top(t).net[r] = 0)
    <3>1. Side(Top(t)) = "call" => Top(t).net[r] = 0
      BY <2>2 DEF Side
    <3>2. new[n - 1] = old[n]
      BY <1>3, <1>4, <1>5, <1>9, <2>2, <3>1
    <3> QED BY <1>7, <1>9, <3>2 DEF n
  <2> QED BY <1>1, <1>9, <2>1, <2>2 DEF Settles, n
<1> QED BY <1>1, <1>7, <1>8, <1>9 DEF n

\* As long as the call has other frames it goes on, cut short as it was.
LEMMA EndsInside ==
    ASSUME IInv, NEW t \in Task, NEW fr, Ends(t, fr)
    PROVE  /\ Alone(t)
           /\ depth[t] > 1 \/ Top(t).irq => (t \in Inside' <=> t \in Inside) /\ (t \in Cut' <=> t \in Cut)
           /\ depth[t] = 1 /\ ~Top(t).irq =>
                /\ t \in Inside /\ t \notin Inside' /\ t \notin Cut'
                /\ t \in Cut <=> Top(t).ph = "undo"
<1>1. /\ TInv /\ Pop(t, fr) /\ depth[t] > 0 /\ leak' = leak /\ \A u \in Task \ {t} : hf'[u] = hf[u]
      /\ depth[t] > 1 => fr.irq = Below(t).irq /\ (fr.ph \in Cleaning <=> Below(t).ph \in Cleaning)
      /\ \/ hf'[t] = hf[t] /\ Top(t).ph = "run"
         \/ hf'[t] = TRUE /\ Top(t).ph = "undo" /\ ~Top(t).irq
  BY DEF IInv, Ends
<1>2. Alone(t)
  BY <1>1, TotalsOfOthers DEF Alone
<1>3. depth[t] \in Nat /\ depth'[t] = depth[t] - 1
  BY <1>1, StackFits DEF Pop, TInv, TypeOK
<1>4. ASSUME NEW d \in 1..depth'[t]
      PROVE  /\ d \in 1..depth[t] /\ d # depth[t]
             /\ frame'[t][d].irq <=> frame[t][d].irq
             /\ frame'[t][d].ph \in Cleaning <=> frame[t][d].ph \in Cleaning
  <2>1. /\ d \in 1..depth[t] /\ d # depth[t]
        /\ d = depth[t] - 1 => frame[t][d] = Below(t) /\ depth[t] > 1
        /\ frame'[t][d] = IF d = depth[t] - 1 THEN fr ELSE frame[t][d]
    BY <1>1, FramesAfterPop
  <2> QED BY <1>1, <2>1
<1>5. \A d \in 1..depth[t] : d # depth[t] => d \in 1..depth'[t]
  BY <1>3
<1>6. /\ \A d \in Own(t) : d # depth[t] =>
            d \in Own(t)' /\ (frame'[t][d].ph \in Cleaning <=> frame[t][d].ph \in Cleaning)
      /\ \A d \in Own(t)' : d \in Own(t) /\ d # depth[t]
  BY <1>4, <1>5 DEF Own
<1>7. CASE Top(t).irq
  <2>1. depth[t] \notin Own(t) /\ hf'[t] = hf[t]
    BY <1>1, <1>7 DEF Own, Top
  <2>2. t \in Inside' <=> t \in Inside
    BY <1>6, <2>1 DEF Inside
  <2>3. t \in Cut' <=> t \in Cut
    BY <1>6, <2>1, <2>2 DEF Cut, Cleaning
  <2> QED BY <1>2, <1>7, <2>2, <2>3
<1>8. CASE ~Top(t).irq /\ depth[t] > 1
  <2>1. depth[t] - 1 \in 1..depth[t] /\ depth[t] - 1 # depth[t] /\ Below(t) = frame[t][depth[t] - 1]
    BY <1>3, <1>8 DEF Below
  <2>2. depth[t] - 1 \in Own(t)
    BY <1>8, <2>1, BelowOK DEF Own
  <2>3. t \in Inside' /\ t \in Inside
    BY <1>6, <2>1, <2>2 DEF Inside
  <2>4. CASE hf'[t] = hf[t] /\ Top(t).ph = "run"
    <3>1. \A d \in Own(t) : d = depth[t] => frame[t][d].ph \notin Cleaning
      BY <2>4 DEF Cleaning, Top
    <3>2. t \in Cut' <=> t \in Cut
      BY <1>6, <2>3, <2>4, <3>1 DEF Cut, Cleaning
    <3> QED BY <1>2, <1>8, <2>3, <3>2
  <2>5. CASE hf'[t] = TRUE /\ Top(t).ph = "undo"
    <3>1. t \in Cut'
      BY <2>3, <2>5 DEF Cut
    <3>2. depth[t] \in Own(t)
      BY <1>1, <1>8, RunningInside
    <3>3. t \in Cut
      BY <2>3, <2>5, <3>2 DEF Cut, Top
    <3> QED BY <1>2, <1>8, <2>3, <3>1, <3>3
  <2> QED BY <1>1, <2>4, <2>5
<1>9. CASE ~Top(t).irq /\ depth[t] = 1
  <2>1. depth[t] \in Own(t) /\ t \in Inside /\ (hf[t] => t \in Cut)
    BY <1>1, <1>9, RunningInside
  <2>2. Own(t)' = {}
    BY <1>3, <1>9 DEF Own
  <2>3. t \notin Inside' /\ t \notin Cut'
    BY <2>2 DEF Inside, Cut
  <2>4. Top(t).ph = "undo" => t \in Cut
    BY <2>1 DEF Cut, Top
  <2>5. ASSUME t \in Cut PROVE Top(t).ph = "undo"
    <3>1. Top(t).ph = "run" => ~hf[t]
      BY <1>1, <1>9, TopOK DEF FrameOK
    <3>2. \A d \in Own(t) : d = depth[t]
      BY <1>3, <1>9 DEF Own
    <3>3. Top(t).ph = "run" => \A d \in Own(t) : frame[t][d].ph \notin {"undo", "ucall"}
      BY <3>2 DEF Top
    <3>4. Top(t).ph # "run"
      BY <2>5, <3>1, <3>3 DEF Cut
    <3> QED BY <1>1, <3>4
  <2> QED BY <1>2, <1>9, <2>1, <2>3, <2>4, <2>5
<1> QED BY <1>3, <1>1, <1>7, <1>8, <1>9

\* A call finishes, holding no lock, or has been undone, or nothing shows.
LEMMA EndsRefines ==
    ASSUME LInv, TInv', NEW t \in Task, NEW fr, Ends(t, fr)
    PROVE  Abstract!Next \/ UNCHANGED Abstract!vars
<1>1. IInv /\ TInv /\ leak'[t] = leak[t] /\ leak[t] = {} /\ depth[t] > 0 /\ depth[t] \in Nat
  <2>1. TInv
    BY DEF LInv, CInv, IInv
  <2> QED BY <2>1, StackFits DEF LInv, CInv, HalfExecutedUndone, Ends
<1>2. /\ Alone(t)
      /\ depth[t] > 1 \/ Top(t).irq => (t \in Inside' <=> t \in Inside) /\ (t \in Cut' <=> t \in Cut)
      /\ depth[t] = 1 /\ ~Top(t).irq =>
           /\ t \in Inside /\ t \notin Inside' /\ t \notin Cut'
           /\ t \in Cut <=> Top(t).ph = "undo"
  BY <1>1, EndsInside
<1>3. CASE depth[t] > 1 \/ Top(t).irq
  <2>1. \A r \in Res : Held(t, r)' = Held(t, r)
    BY <1>3, EndsHeld
  <2>2. Holds(t)' = Holds(t)
    BY <1>1, <2>1, HoldsStays
  <2> QED BY <1>2, <1>3, <2>2, Stutters
<1>4. CASE depth[t] = 1 /\ ~Top(t).irq
  <2>1. \A r \in Res : Held(t, r)' = 0 /\ Held(t, r) = Top(t).net[r]
    BY <1>4, EndsHeld
  <2>2. Holds(t)' = Abstract!Nothing
    BY <1>1, <2>1 DEF Holds, Held, Abstract!Nothing
  <2>3. Holds(t) = [r \in Res |-> Top(t).net[r]]
    BY <2>1, HoldsHeld
  <2>4. Inside' = Inside \ {t} /\ Cut' = Cut \ {t} /\ Cut \subseteq Inside
    BY <1>2, <1>4, TasksSeen
  <2>5. CASE Top(t).ph = "undo"
    <3>1. \A r \in Res : Top(t).net[r] = 0
      BY <2>5 DEF Ends
    <3>2. Holds(t) = Abstract!Nothing
      BY <2>3, <3>1 DEF Abstract!Nothing
    <3>3. [u \in Task |-> Holds(u)]' = [u \in Task |-> Holds(u)]
      BY <1>2, <2>2, <3>2, HoldingsSeen
    <3>4. Abstract!Undone(t)
      BY <1>2, <1>4, <2>4, <2>5, <3>2, <3>3 DEF Abstract!Undone
    <3> QED BY <3>4 DEF Abstract!Next
  <2>6. CASE Top(t).ph # "undo"
    <3>1. t \notin Cut /\ Cut' = Cut
      BY <1>2, <1>4, <2>4, <2>6
    <3>2. ASSUME NEW l \in Lock PROVE Holds(t)[l] = 0
      <4>1. Settles(t, fr.net, l) /\ l \in Res
        BY BowknotAssumption DEF Ends
      <4> QED BY <1>4, <2>3, <4>1 DEF Settles
    <3>3. [u \in Task |-> Holds(u)]' = [[u \in Task |-> Holds(u)] EXCEPT ![t] = Abstract!Nothing]
      BY <1>2, <2>2, HoldingsSeen
    <3>4. Abstract!Finish(t)
      BY <1>2, <1>4, <2>4, <3>1, <3>2, <3>3 DEF Abstract!Finish
    <3> QED BY <3>4 DEF Abstract!Next
  <2> QED BY <2>5, <2>6
<1> QED BY <1>1, <1>3, <1>4

-----------------------------------------------------------------------------
(* The refinement. *)

\* A kernel that restarts does so because a call was cut short.
LEMMA RestartRefines ==
    ASSUME LInv, TInv', NEW t \in Task, Restart(t)
    PROVE  Abstract!Next
<1>1. TInv /\ depth[t] > 0 /\ Top(t).ph = "dying" /\ Doomed(t)
  BY DEF LInv, CInv, IInv, Restart, Active
<1>2. depth[t] \in 1..depth[t]
  BY <1>1, StackFits
<1>3. hf[t] /\ ~Top(t).irq
  BY <1>1, <1>2 DEF Doomed, Top
<1>4. t \in Cut
  BY <1>1, <1>3, RunningInside
<1>5. /\ \A u \in Task : depth'[u] = 0 /\ leak'[u] = {} /\ Own(u)' = {}
  BY DEF Restart, Own
<1>6. Inside' = {} /\ Cut' = {}
  BY <1>5 DEF Inside, Cut
<1>7. ASSUME NEW u \in Task PROVE Holds(u)' = Abstract!Nothing
  <2>1. frame'[u] \in [Level -> FrameType]
    BY DEF TInv, TypeOK
  <2>2. \A r \in Res : Total(frame'[u], r, "call")[0] = 0
    BY <2>1, TotalAdds
  <2> QED BY <1>5, <2>2 DEF Holds, Abstract!Nothing
<1>8. [u \in Task |-> Holds(u)]' = [u \in Task |-> Abstract!Nothing]
  BY <1>7
<1>9. Abstract!Reboot
  BY <1>4, <1>6, <1>8 DEF Abstract!Reboot
<1> QED BY <1>9 DEF Abstract!Next

\* At the start nothing shows.
LEMMA InitRefines == Init => Abstract!Init
<1> SUFFICES ASSUME Init PROVE Abstract!Init
  OBVIOUS
<1>1. \A u \in Task : depth[u] = 0 /\ leak[u] = {} /\ Own(u) = {}
  BY DEF Init, Own
<1>2. Inside = {} /\ Cut = {}
  BY <1>1 DEF Inside, Cut
<1>3. ASSUME NEW u \in Task PROVE Holds(u) = Abstract!Nothing
  <2>1. frame[u] \in [Level -> FrameType]
    BY InitTyped DEF TInv, TypeOK
  <2>2. \A r \in Res : Total(frame[u], r, "call")[0] = 0
    BY <2>1, TotalAdds
  <2> QED BY <1>1, <2>2 DEF Holds, Abstract!Nothing
<1> QED BY <1>2, <1>3 DEF Abstract!Init

\* Every step of a sheltered, covered and delegating program is one of the
\* abstract specification, or none.
LEMMA StepRefines ==
    Sheltered /\ Covered /\ Delegating /\ LInv /\ LInv' /\ [Next]_vars
        => [Abstract!Next]_(Abstract!vars)
<1> SUFFICES ASSUME Sheltered, Covered, Delegating, LInv, LInv', [Next]_vars
             PROVE  Abstract!Next \/ UNCHANGED Abstract!vars
  OBVIOUS
<1>1. TInv'
  BY DEF LInv, CInv, IInv
<1>2. CASE UNCHANGED vars
  BY <1>2 DEF vars, Abstract!vars, Inside, Cut, Own, Holds
<1>3. ASSUME NEW t \in Task, Enter(t) \/ Step(t) \/ Surprise(t)
      PROVE  Abstract!Next \/ UNCHANGED Abstract!vars
  <2>1. ASSUME NEW fr, Continues(t, fr) PROVE Abstract!Next \/ UNCHANGED Abstract!vars
    BY <1>1, <2>1, ContinuesRefines
  <2>2. ASSUME NEW fr, NEW f, NEW i, Starts(t, fr, f, i)
        PROVE  Abstract!Next \/ UNCHANGED Abstract!vars
    BY <1>1, <2>2, StartsRefines
  <2>3. ASSUME NEW fr, Ends(t, fr) PROVE Abstract!Next \/ UNCHANGED Abstract!vars
    BY <1>1, <2>3, EndsRefines
  <2>4. CASE Restart(t)
    BY <1>1, <2>4, RestartRefines
  <2> QED BY <1>1, <1>3, <2>1, <2>2, <2>3, <2>4, StepShapes
<1>4. CASE Next
  BY <1>3, <1>4 DEF Next
<1> QED BY <1>2, <1>4

\* README, "Hecaton bowknots undo the half executed functions": in every
\* sheltered, covered and delegating program, whatever faults and whatever
\* interrupts, a system call is all or nothing: once cut short it has no result,
\* and when it is over its frames have given back all they took, while it never
\* takes a lock another call holds nor keeps one.
THEOREM AtomicCorrect ==
    ASSUME Sheltered, Covered, Delegating
    PROVE  Spec => AllOrNothing
<1>1. LInv /\ LInv' /\ [Next]_vars => [Abstract!Next]_(Abstract!vars)
  BY StepRefines
<1> QED BY <1>1, InitRefines, LedgerInvariant, PTL DEF Spec, AllOrNothing, Abstract!Spec
===============================================================================
