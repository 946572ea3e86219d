----------------------------- MODULE BowknotProps -----------------------------
(****************************************************************************)
(* What the instrumented kernel promises: "Hecaton bowknots undo the half   *)
(* executed functions" (README, section on running the instrumented kernel).*)
(****************************************************************************)
EXTENDS Bowknot

FrameType ==
    [fn : Func \cup {NoFunc}, pc : Nat, ph : Phases, mask : SUBSET (1..Width),
     net : [Res -> Int], todo : SUBSET Res, null : SUBSET Res, irq : BOOLEAN]

\* The type invariant: hecaton_pairmask stays within its bits and a cleanup
\* block only ever holds undos.
TypeOK ==
    /\ depth \in [Task -> 0..MaxDepth]
    /\ frame \in [Task -> [Level -> FrameType]]
    /\ hf \in [Task -> BOOLEAN]
    /\ owner \in [Lock -> Task \cup {NoTask}]
    /\ leak \in [Task -> SUBSET Res]
    /\ faults \in 0..MaxFaults
    /\ irqs \in 0..MaxIrqs

Fits(f, r) == pairmask_id[f][r] <= Width

Undoable(fr, r) == fr.net[r] = 1 \/ r \in fr.null \cap Tolerant

\* Every undo whose resource the frame holds has its bit set, and every bit of
\* an outer undo that is set stands for a resource the frame holds.
Mirrors(fr, mask) ==
    \A r \in Undo[fr.fn] :
        /\ fr.net[r] = 1 /\ Fits(fr.fn, r) => hecaton_check_bit(mask, pairmask_id[fr.fn][r])
        /\ r \in Outer /\ hecaton_check_bit(mask, pairmask_id[fr.fn][r]) => Undoable(fr, r)

\* insert_pairmask_stamps with insert_gotos: between statements, and while a
\* callee runs, hecaton_pairmask tells exactly what the frame has done and not
\* yet undone, whatever faults and interrupts came before.
MaskMirrorsHoldings ==
    \A t \in Task : \A d \in 1..depth[t] :
        frame[t][d].ph \in {"run", "call"} => Mirrors(frame[t][d], frame[t][d].mask)

\* Of the resources a frame being cleaned up holds, the one a call is undoing
\* apart, exactly those still to be undone are left.
OnCourse(fr) ==
    \A r \in Undo[fr.fn] :
        /\ fr.net[r] = 1 /\ Fits(fr.fn, r)
             => r \in fr.todo \/ (fr.ph = "ucall" /\ Calling(fr).r = r)
        /\ r \in Outer \cap fr.todo => Undoable(fr, r)

\* generate_cleanup_str: a cleanup block never undoes twice and forgets nothing.
CleanupOnCourse ==
    \A t \in Task : \A d \in 1..depth[t] :
        frame[t][d].ph \in {"undo", "ucall"} => OnCourse(frame[t][d])

\* README: a function that was cut short leaves nothing it acquired behind and
\* undoes nothing it had not done.
HalfExecutedUndone == \A t \in Task : leak[t] = {}

Behind(fr, r) == fr.ph = "check" /\ Calling(fr).op = "rel" /\ Calling(fr).r = r

SetForReasons(fr) ==
    \A r \in Undo[fr.fn] \cap Outer :
        hecaton_check_bit(fr.mask, pairmask_id[fr.fn][r]) =>
            fr.net[r] = 1 \/ r \in fr.null \/ Behind(fr, r)

\* assign_pairmask_id and insert_pairmask_stamps: in any program, even where a
\* fault is not caught by an hgoto or hits the cleanup block, the bit of an outer
\* undo is set for one of three reasons: the frame holds the resource; it failed
\* to acquire it the last time; or it has just released it, and is at the hgoto
\* before the stamp that clears the bit.
SetForAReason ==
    \A t \in Task : \A d \in 1..depth[t] :
        frame[t][d].ph \in {"run", "call", "check", "then"} => SetForReasons(frame[t][d])

\* README: undoing the half executed function, a cleanup applies no outer undo to
\* what the frame does not hold.
NothingUndoneTwice ==
    \A t \in Task : \A d \in 1..depth[t] :
        LET fr == frame[t][d] IN
        \A r \in Undo[fr.fn] \cap Outer : fr.net[r] < 0 => Foreign(fr.fn, r)

\* insert_gotos: once a fault has raised hf no further statement of the task's
\* own functions starts, neither one of the driver nor one of a cleanup; an
\* interrupt on top of them is not concerned.
FaultStopsTask ==
    \A t \in Task : \A d \in 1..depth[t] :
        hf[t] /\ ~frame[t][d].irq => frame[t][d].ph \in {"check", "call", "ucall", "then", "dying"}

\* The running totals of an account, from its first entry up.
Running(acc) ==
    LET sum[d \in 0..MaxDepth] == IF d = 0 THEN 0 ELSE sum[d - 1] + acc[d]
    IN  sum

\* On whose account a frame acts.
Side(fr) == IF fr.irq THEN "interrupt" ELSE "call"

\* What the frames of a stack on one side have of r, from the first up.
Total(stack, r, side) ==
    Running([d \in Level |-> IF Side(stack[d]) = side THEN stack[d].net[r] ELSE 0])

\* Locks across tasks: the tasks' own accounts add up to the lock's state, so
\* that no cleanup lets go of a lock another task holds, or keeps one.
LockLedger ==
    \A l \in Lock, t \in Task :
        Total(frame[t], l, "call")[depth[t]] + Total(frame[t], l, "interrupt")[depth[t]]
          = IF owner[l] = t THEN 1 ELSE 0

\* The refinement mapping.  A call is made of the frames of its task apart from
\* those of an interrupt on top.  It holds what they hold together and what they
\* have left behind, and is cut short while hf is up or a cleanup is under way.
Own(t) == {d \in 1..depth[t] : ~frame[t][d].irq}

Inside == {t \in Task : Own(t) # {}}

Cut == {t \in Inside : hf[t] \/ \E d \in Own(t) : frame[t][d].ph \in {"undo", "ucall"}}

Holds(t) ==
    [r \in Res |-> Total(frame[t], r, "call")[depth[t]] + IF r \in leak[t] THEN 1 ELSE 0]

Abstract == INSTANCE AtomicCall WITH
                inside <- Inside, cut <- Cut, held <- [t \in Task |-> Holds(t)]

\* README: the instrumented kernel implements calls that are all or nothing.
\* Whatever faults, and in whichever frame, the call has no result from then on,
\* and when it is over all its frames have given back what they took.
AllOrNothing == Abstract!Spec

\* hgoto's in_interrupt(): an interrupt served while its task is being undone
\* runs to its end, and the undoing goes on where it was.
InterruptRunsThrough ==
    [][\A t \in Task : InIrq(t) /\ depth'[t] > 0 =>
         /\ hf'[t] = hf[t]
         /\ Top(t).ph # "undo"
         /\ \A d \in Level : d <= depth[t] /\ ~frame[t][d].irq => frame'[t][d] = frame[t][d]]_vars

\* Without a fault the instrumentation changes nothing: no cleanup starts.
FaultFreeUntouched ==
    faults = 0 => \A t \in Task :
        ~hf[t] /\ \A d \in 1..depth[t] : frame[t][d].ph \notin {"undo", "ucall", "dying"}

\* README: the system stays functional: every call ends, so that no task waits
\* for ever for a lock that a call cut short held.
EveryCallEnds == \A t \in Task : depth[t] > 0 ~> depth[t] = 0

\* The programs for which a bowknot is exact: a fault hits only statements an
\* hgoto follows, nothing is acquired in a condition, undoing a failed
\* acquisition is harmless, and what releases for another is a closing function.
Sheltered ==
    /\ ~UndoFaults
    /\ CanFail \subseteq Tolerant
    /\ \A f \in Func : \A p \in DOMAIN Body[f] :
          LET st == Body[f][p] IN
          /\ st.op # "cond"
          /\ <<f, p>> \in CanFault => st.op \in {"acq", "rel", "work"}
          /\ st.op = "rel" /\ st.f # NoFunc => st.f \in Closing

(****************************************************************************)
(* The inductive invariants.  Placed is what makes TypeOK inductive: where  *)
(* in its function's text a frame can be.  FrameOK says what is true of one *)
(* frame of a sheltered program, given its task's hf; Linked relates a      *)
(* frame to the one above it.                                               *)
(****************************************************************************)
Placed(fr) ==
    /\ fr.fn \in Func /\ fr.pc \in DOMAIN Body[fr.fn]
    /\ fr.todo \subseteq Undo[fr.fn]
    /\ fr.ph # "none"
    /\ fr.ph \in {"call", "check"} => Calling(fr).op \in {"acq", "rel", "work"}
    /\ fr.ph = "then" => Calling(fr).op \in {"if", "iferr", "cond"}
    /\ fr.ph = "ucall" => Calling(fr).op = "rel"

TInv == TypeOK /\ \A t \in Task : \A d \in 1..depth[t] : Placed(frame[t][d])

\* The mask once the statement is done with, stamps included, if it was done.
Settled(fr, h) ==
    IF h /\ ~fr.irq THEN fr.mask ELSE StampAfter(fr.fn, fr.pc, fr.mask)

FrameOK(fr, h) ==
    /\ \A r \in Res : fr.net[r] <= 1 /\ (r \in fr.null => fr.net[r] # 1)
    /\ fr.irq => fr.ph \in {"run", "check", "then", "call"}
    /\ h /\ ~fr.irq => fr.ph \in {"check", "call", "ucall", "dying"}
    /\ fr.ph \in {"run", "call", "then"} => Mirrors(fr, fr.mask)
    /\ fr.ph = "call" => Disciplined(fr, Calling(fr))
    /\ fr.ph = "check" => Mirrors(fr, Settled(fr, h))
    /\ fr.ph \in {"undo", "ucall"} => fr.fn \notin Closing /\ OnCourse(fr)
    /\ fr.ph = "ucall" => Calling(fr).r \notin fr.todo

\* A frame waits for the one above it exactly if that is no interrupt on it.
Stacked(t, d) ==
    IF d = depth[t] THEN frame[t][d].ph \notin {"call", "ucall"}
    ELSE frame[t][d].ph \in {"call", "ucall"} <=> (frame[t][d].irq <=> frame[t][d + 1].irq)

Linked(t, d) ==
    /\ Stacked(t, d)
    /\ d # depth[t] /\ frame[t][d].ph = "ucall" => frame[t][d + 1].fn \in Closing

\* What every step of a sheltered program keeps.  Interrupts lie on top.
IInv ==
    /\ TInv
    /\ \A t \in Task : \A d, e \in 1..depth[t] : d <= e /\ frame[t][d].irq => frame[t][e].irq
    /\ \A t \in Task : \A d \in 1..depth[t] : FrameOK(frame[t][d], hf[t]) /\ Linked(t, d)

\* The same without Sheltered.  Of what a frame did, only this is certain: at
\* the hgoto behind it, an acquisition was made or failed, or hf is raised.
Effective(fr, h) ==
    \/ h /\ ~fr.irq
    \/ Calling(fr).op \in {"acq", "cond"} =>
          fr.net[Calling(fr).r] = 1 \/ Calling(fr).r \in fr.null

Explained(fr, h) ==
    /\ fr.irq => fr.ph \in {"run", "check", "then", "call"}
    /\ fr.ph = "call" => Disciplined(fr, Calling(fr))
    /\ fr.ph \in {"run", "call", "check", "then"} => SetForReasons(fr)
    /\ fr.ph \in {"check", "then"} => Effective(fr, h)

\* What every step of every program keeps.
EveryInv ==
    /\ TInv
    /\ \A t \in Task : \A d, e \in 1..depth[t] : d <= e /\ frame[t][d].irq => frame[t][e].irq
    /\ \A t \in Task : \A d \in 1..depth[t] : Explained(frame[t][d], hf[t]) /\ Stacked(t, d)

(****************************************************************************)
(* The programs whose functions undo all they do: whatever one acquires it  *)
(* has an undo for, within the width of the mask, it releases nothing for   *)
(* its caller unless it is a closing function, and it returns right behind  *)
(* an inner undo, which no clear follows.                                   *)
(****************************************************************************)
Covered ==
    \A f \in Func \ Closing : \A p \in DOMAIN Body[f] :
        LET st == Body[f][p] IN
        st.op \in {"acq", "rel"} =>
            /\ st.r \in Undo[f] /\ Fits(f, st.r) /\ ~Foreign(f, st.r)
            /\ st.op = "rel" /\ st.r \notin Outer => Body[f][p + 1].op = "ret"

\* An inner undo that has run, in a frame that is about to return.
Over(fr, r, h) ==
    \/ fr.ph = "run" /\ Calling(fr).op = "ret"
    \/ Behind(fr, r) /\ ~(h /\ ~fr.irq)

\* An inner undo whose bit is set stands for something the frame can undo.
InnerExact(fr, mask, h) ==
    \A r \in Undo[fr.fn] \ Outer :
        hecaton_check_bit(mask, pairmask_id[fr.fn][r]) => Undoable(fr, r) \/ Over(fr, r, h)

\* What a frame holds can be undone, and what can be undone it holds.
Accounted(fr, h) ==
    /\ \A r \in Res : fr.net[r] \in {0, 1} /\ (fr.net[r] = 1 => r \in Undo[fr.fn] /\ Fits(fr.fn, r))
    /\ fr.ph \in {"run", "call", "then"} => InnerExact(fr, fr.mask, h)
    /\ fr.ph = "check" => InnerExact(fr, Settled(fr, h), h)
    /\ fr.ph \in {"undo", "ucall"} => \A r \in fr.todo : Undoable(fr, r)
    /\ fr.ph \in {"call", "ucall"} /\ Calling(fr).op = "rel" => fr.net[Calling(fr).r] = 1

\* What every step of a sheltered and covered program keeps.
CInv ==
    /\ IInv
    /\ HalfExecutedUndone
    /\ \A t \in Task : \A d \in 1..depth[t] :
          frame[t][d].fn \notin Closing => Accounted(frame[t][d], hf[t])

(****************************************************************************)
(* The accounts of a whole stack.  A function that releases what it never   *)
(* acquires does so for its caller: in a delegating program it is called    *)
(* only by the statements that release just that.                           *)
(****************************************************************************)
Borrows(f, r) ==
    Foreign(f, r) /\ \E p \in DOMAIN Body[f] : Body[f][p].op = "rel" /\ Body[f][p].r = r

Delegating ==
    \A f \in Func, r \in Res : Borrows(f, r) =>
        /\ f \notin Entry \cup IrqEntry
        /\ \A g \in Func : \A p \in DOMAIN Body[g] :
              Body[g][p].f = f => Body[g][p].op = "rel" /\ Body[g][p].r = r

\* Up to each frame, nothing is given back that was not taken below it, by the
\* call for the call and by the interrupt for the interrupt.
Solvent(t, r) ==
    \A d \in 1..depth[t] :
        /\ \A side \in {"call", "interrupt"} : Total(frame[t], r, side)[d] >= 0
        /\ Borrows(frame[t][d].fn, r) => Total(frame[t], r, Side(frame[t][d]))[d - 1] > 0

\* The kernel restarts because of a fault.
Doomed(t) == \A d \in 1..depth[t] : frame[t][d].ph = "dying" => hf[t] /\ ~frame[t][d].irq

\* What every step of a sheltered, covered and delegating program keeps.
LInv ==
    /\ CInv
    /\ LockLedger
    /\ \A t \in Task : Doomed(t) /\ \A r \in Res : Solvent(t, r)
===============================================================================
