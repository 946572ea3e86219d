------------------------------- MODULE Bowknot --------------------------------
(****************************************************************************)
(* The instrumented kernel at run time.                                     *)
(*                                                                          *)
(* Tasks call instrumented functions.  When a statement faults, the         *)
(* exception handler (outside this repository) cuts the statement short,    *)
(* raises current->hf and resumes the innermost instrumented function, as   *)
(* if the statement had returned.  The hgoto after the statement then       *)
(* leads to the cleanup block, which lowers hf, undoes what the pair mask   *)
(* says was done, raises hf again and returns, so that the caller is undone *)
(* in turn.  A closing function has no undo; its cleanup block restarts the *)
(* kernel.                                                                  *)
(*                                                                          *)
(* A frame is [fn, pc, ph, mask, net, todo, null, irq]; ph says where in   *)
(* the instrumented text the frame is:                                      *)
(*   run    at statement pc         check  at the hgoto and stamps after it *)
(*   call   in the function that    then   at the hgoto behind the brace of *)
(*          statement pc calls             the Then block of statement pc   *)
(*   undo   in the cleanup block    ucall  in a function the cleanup calls  *)
(*   dying  in a closing function's cleanup block, before kernel_restart    *)
(* null holds the resources whose last acquisition failed.  net is a        *)
(* history variable: acquisitions less releases made in the frame.          *)
(****************************************************************************)
EXTENDS Instrument

CONSTANTS
    Task, NoTask,
    Lock,        \* the resources one task at a time may hold
    Tolerant,    \* resources whose undo ignores a failed acquisition: kfree(NULL)
    CanFail,     \* resources whose acquisition may fail without a fault
    Entry,       \* functions a system call enters
    IrqEntry,    \* functions an interrupt enters
    CanFault,    \* the <<function, statement>> pairs that may fault
    UndoFaults,  \* whether a statement of a cleanup block may fault as well
    MaxDepth,    \* frames of one task's stack
    MaxFaults,   \* faults in a behaviour
    MaxIrqs      \* interrupts in a behaviour

ASSUME BowknotAssumption ==
    /\ NoTask \notin Task
    /\ Lock \subseteq Res /\ Tolerant \subseteq Res \ Lock /\ CanFail \subseteq Res
    /\ Entry \subseteq Func /\ IrqEntry \subseteq Func
    /\ CanFault \subseteq Func \X Nat
    /\ UndoFaults \in BOOLEAN
    /\ \A f \in Func : \A p \in DOMAIN Body[f] :
          Body[f][p].op = "rel" /\ Body[f][p].f # NoFunc => Body[f][p].r \notin Tolerant
    /\ MaxDepth \in Nat \ {0} /\ MaxFaults \in Nat /\ MaxIrqs \in Nat

VARIABLES
    depth,    \* depth[t]: how many frames t has
    frame,    \* frame[t][d]: the d-th frame of t, NoFrame above depth[t]
    hf,       \* hf[t]: current->hf
    owner,    \* owner[l]: the task that holds lock l
    leak,     \* leak[t]: history, what a cleanup of t did not bring back to 0
    faults, irqs

vars == <<depth, frame, hf, owner, leak, faults, irqs>>

Phases == {"none", "run", "call", "check", "then", "undo", "ucall", "dying"}

Level == 1 .. MaxDepth

Zero == [r \in Res |-> 0]

NoFrame == [fn |-> NoFunc, pc |-> 0, ph |-> "none", mask |-> {}, net |-> Zero,
            todo |-> {}, null |-> {}, irq |-> FALSE]

\* A function starts at its first statement with hecaton_pairmask = 0.
NewFrame(f, irq) == [NoFrame EXCEPT !.fn = f, !.pc = 1, !.ph = "run", !.irq = irq]

Init ==
    /\ depth = [t \in Task |-> 0]
    /\ frame = [t \in Task |-> [d \in Level |-> NoFrame]]
    /\ hf = [t \in Task |-> FALSE]
    /\ owner = [l \in Lock |-> NoTask]
    /\ leak = [t \in Task |-> {}]
    /\ faults = 0
    /\ irqs = 0

Top(t) == frame[t][depth[t]]
Active(t, ph) == depth[t] > 0 /\ Top(t).ph = ph
At(t) == Body[Top(t).fn][Top(t).pc]

\* in_interrupt()
InIrq(t) == depth[t] > 0 /\ Top(t).irq

Becomes(t, fr) == frame' = [frame EXCEPT ![t][depth[t]] = fr]

Push(t, fr, f, irq) ==
    /\ depth[t] < MaxDepth
    /\ depth' = [depth EXCEPT ![t] = @ + 1]
    /\ frame' = [frame EXCEPT ![t] =
          [d \in Level |-> IF d = depth[t] + 1 THEN NewFrame(f, irq)
                           ELSE IF d = depth[t] THEN fr ELSE @[d]]]

Pop(t, below) ==
    /\ depth' = [depth EXCEPT ![t] = @ - 1]
    /\ frame' = [frame EXCEPT ![t] =
          [d \in Level |-> IF d = depth[t] THEN NoFrame
                           ELSE IF d = depth[t] - 1 THEN below ELSE @[d]]]

Foreign(f, r) == \A p \in DOMAIN Body[f] : Body[f][p].r = r => Body[f][p].op = "rel"

\* The driver's own discipline: it acquires what it does not hold and releases
\* what it holds, or what its caller holds when it never acquires it itself.
Disciplined(fr, st) ==
    CASE st.op \in {"acq", "cond"} -> fr.net[st.r] = 0
      [] st.op = "rel" -> \/ fr.net[st.r] = 1
                          \/ st.r \in fr.null \cap Tolerant
                          \/ fr.net[st.r] = 0 /\ Foreign(fr.fn, st.r)
      [] OTHER -> TRUE

\* Releasing what was never obtained, where that is allowed, is no release.
Released(fr, r) ==
    IF r \in fr.null \cap Tolerant
    THEN fr.net
    ELSE [fr.net EXCEPT ![r] = @ - 1]

\* An acquisition that succeeds, and one that fails.
Got(fr, r) == [fr EXCEPT !.net = [@ EXCEPT ![r] = 1], !.null = @ \ {r}]
Missed(fr, r) == [fr EXCEPT !.null = @ \cup {r}]

Take(t, r) == owner' = IF r \in Lock THEN [owner EXCEPT ![r] = t] ELSE owner
Drop(r) == owner' = IF r \in Lock THEN [owner EXCEPT ![r] = NoTask] ELSE owner
Free(r) == r \in Lock => owner[r] = NoTask

(****************************************************************************)
(* Outside the repository: the callers and the exception handler.           *)
(****************************************************************************)
\* A system call starts with hf lowered.
Enter(t) ==
    /\ depth[t] = 0
    /\ \E f \in Entry : Push(t, NoFrame, f, FALSE)
    /\ hf' = [hf EXCEPT ![t] = FALSE]
    /\ leak' = [leak EXCEPT ![t] = {}]
    /\ UNCHANGED <<owner, faults, irqs>>

\* An interrupt is served on the stack of whatever task runs.
Interrupt(t) ==
    /\ irqs < MaxIrqs
    /\ ~InIrq(t)
    /\ irqs' = irqs + 1
    /\ \E f \in IrqEntry : Push(t, IF depth[t] = 0 THEN NoFrame ELSE Top(t), f, TRUE)
    /\ UNCHANGED <<hf, owner, leak, faults>>

\* The statement is cut short and none of its effect remains.
Fault(t) ==
    /\ faults < MaxFaults
    /\ Active(t, "run") /\ ~InIrq(t)
    /\ <<Top(t).fn, Top(t).pc>> \in CanFault
    /\ At(t).f = NoFunc
    /\ At(t).op \in {"acq", "rel", "work"}
    /\ Becomes(t, [Top(t) EXCEPT !.ph = "check"])
    /\ hf' = [hf EXCEPT ![t] = TRUE]
    /\ faults' = faults + 1
    /\ UNCHANGED <<depth, owner, leak, irqs>>

\* The same while a condition is evaluated: its value is arbitrary.
FaultInCondition(t) ==
    /\ faults < MaxFaults
    /\ Active(t, "run") /\ ~InIrq(t)
    /\ <<Top(t).fn, Top(t).pc>> \in CanFault
    /\ At(t).op \in {"if", "iferr", "cond"}
    /\ \/ Becomes(t, [Top(t) EXCEPT !.ph = "then"])
       \/ Becomes(t, [Top(t) EXCEPT !.pc = At(t).k])
    /\ hf' = [hf EXCEPT ![t] = TRUE]
    /\ faults' = faults + 1
    /\ UNCHANGED <<depth, owner, leak, irqs>>

(****************************************************************************)
(* The statements of the driver, which the instrumentation keeps.           *)
(****************************************************************************)
Acquire(t) ==
    /\ Active(t, "run")
    /\ At(t).op = "acq" /\ At(t).f = NoFunc
    /\ Disciplined(Top(t), At(t))
    /\ \/ /\ Free(At(t).r)
          /\ Becomes(t, [Got(Top(t), At(t).r) EXCEPT !.ph = "check"])
          /\ Take(t, At(t).r)
       \/ /\ At(t).r \in CanFail
          /\ Becomes(t, [Missed(Top(t), At(t).r) EXCEPT !.ph = "check"])
          /\ UNCHANGED owner
    /\ UNCHANGED <<depth, hf, leak, faults, irqs>>

Release(t) ==
    /\ Active(t, "run")
    /\ At(t).op = "rel" /\ At(t).f = NoFunc
    /\ Disciplined(Top(t), At(t))
    /\ Becomes(t, [Top(t) EXCEPT !.net = Released(Top(t), At(t).r), !.ph = "check"])
    /\ Drop(At(t).r)
    /\ UNCHANGED <<depth, hf, leak, faults, irqs>>

Work(t) ==
    /\ Active(t, "run")
    /\ At(t).op = "work" /\ At(t).f = NoFunc
    /\ Becomes(t, [Top(t) EXCEPT !.ph = "check"])
    /\ UNCHANGED <<depth, hf, owner, leak, faults, irqs>>

Call(t) ==
    /\ Active(t, "run")
    /\ At(t).op \in {"acq", "rel", "work"} /\ At(t).f # NoFunc
    /\ Disciplined(Top(t), At(t))
    /\ Push(t, [Top(t) EXCEPT !.ph = "call"], At(t).f, Top(t).irq)
    /\ UNCHANGED <<hf, owner, leak, faults, irqs>>

Branch(t) ==
    /\ Active(t, "run")
    /\ \/ At(t).op = "if"
       \/ At(t).op = "iferr" /\ At(t).r \in Top(t).null
    /\ Becomes(t, [Top(t) EXCEPT !.ph = "then"])
    /\ UNCHANGED <<depth, hf, owner, leak, faults, irqs>>

SkipBlock(t) ==
    /\ Active(t, "run")
    /\ \/ At(t).op \in {"if", "goto"}
       \/ At(t).op = "iferr" /\ At(t).r \notin Top(t).null
    /\ Becomes(t, [Top(t) EXCEPT !.pc = At(t).k])
    /\ UNCHANGED <<depth, hf, owner, leak, faults, irqs>>

\* if (acquire(r)) { ... }: the block is the one taken on failure.
AcquireInCondition(t) ==
    /\ Active(t, "run")
    /\ At(t).op = "cond"
    /\ Disciplined(Top(t), At(t))
    /\ \/ /\ Free(At(t).r)
          /\ Becomes(t, [Got(Top(t), At(t).r) EXCEPT !.pc = At(t).k])
          /\ Take(t, At(t).r)
       \/ /\ At(t).r \in CanFail
          /\ Becomes(t, [Missed(Top(t), At(t).r) EXCEPT !.ph = "then"])
          /\ UNCHANGED owner
    /\ UNCHANGED <<depth, hf, leak, faults, irqs>>

\* What a caller's statement st counts on from the function it calls.
Delivers(st, net, err) ==
    CASE st.op = "acq" -> \/ ~err /\ net = [Zero EXCEPT ![st.r] = 1]
                          \/ err /\ st.r \in CanFail /\ net = Zero
      [] st.op = "rel" -> net = [Zero EXCEPT ![st.r] = -1]
      [] OTHER -> net = Zero

\* What the kernel counts on when a system call or an interrupt ends.
Quits(net) == \A l \in Lock : net[l] = 0

Below(t) == IF depth[t] = 1 THEN NoFrame ELSE frame[t][depth[t] - 1]

\* The caller's frame, once the function it called is gone.
Resumed(fr) ==
    CASE fr.ph = "call"  -> [fr EXCEPT !.ph = "check"]
      [] fr.ph = "ucall" -> [fr EXCEPT !.ph = "undo"]
      [] OTHER -> fr

Plus(m, n) == [r \in Res |-> m[r] + n[r]]

Calling(fr) == Body[fr.fn][fr.pc]

\* What the caller's frame learns of an acquisition made by a call.
Outcome(fr, err) ==
    IF Calling(fr).op # "acq" THEN fr.null
    ELSE IF err THEN fr.null \cup {Calling(fr).r}
    ELSE fr.null \ {Calling(fr).r}

Return(t) ==
    /\ Active(t, "run")
    /\ At(t).op = "ret"
    /\ LET err == At(t).k = 1
           fr  == Below(t)
       IN  IF fr.ph \in {"call", "ucall"}
           THEN /\ Delivers(Calling(fr), Top(t).net, err)
                /\ Pop(t, [Resumed(fr) EXCEPT !.net = Plus(fr.net, Top(t).net),
                                            !.null = Outcome(fr, err)])
           ELSE Quits(Top(t).net) /\ Pop(t, fr)
    /\ UNCHANGED <<hf, owner, leak, faults, irqs>>

\* return g(x); where g faults: no hgoto follows a return statement.
FaultInReturn(t) ==
    /\ faults < MaxFaults
    /\ Active(t, "run") /\ ~InIrq(t)
    /\ <<Top(t).fn, Top(t).pc>> \in CanFault
    /\ At(t).op = "ret"
    /\ Pop(t, Resumed(Below(t)))
    /\ hf' = [hf EXCEPT ![t] = TRUE]
    /\ leak' = [leak EXCEPT ![t] = @ \cup {r \in Res : Top(t).net[r] # 0}]
    /\ faults' = faults + 1
    /\ UNCHANGED <<owner, irqs>>

(****************************************************************************)
(* The statements the instrumentation adds.                                 *)
(****************************************************************************)
\* Without in_interrupt(), and without hf.
hgoto_anywhere(t) == hf[t]
hgoto_always(t) == ~InIrq(t)

\* #define hgoto(x) if(current->hf){ if(!in_interrupt()){ goto x;}}
hgoto(t) == hf[t] /\ ~InIrq(t)

\* The hgoto after a statement leads on to the stamps of that statement.
Pass(t) ==
    /\ Active(t, "check") /\ ~hgoto(t)
    /\ Becomes(t, [Top(t) EXCEPT !.mask = StampAfter(Top(t).fn, Top(t).pc, @),
                                 !.pc = @ + 1, !.ph = "run"])
    /\ UNCHANGED <<depth, hf, owner, leak, faults, irqs>>

\* So does the hgoto behind the opening brace of a block.
PassBrace(t) ==
    /\ Active(t, "then") /\ ~hgoto(t)
    /\ Becomes(t, [Top(t) EXCEPT !.mask = StampInThen(Top(t).fn, Top(t).pc, @),
                                 !.pc = @ + 1, !.ph = "run"])
    /\ UNCHANGED <<depth, hf, owner, leak, faults, irqs>>

\* A cleanup that does not test the mask, and one that undoes nothing.
MarkedAll(fr) == Undo[fr.fn]
MarkedNone(fr) == {}

Marked(fr) == {r \in Undo[fr.fn] : hecaton_check_bit(fr.mask, pairmask_id[fr.fn][r])}

\* A cleanup block that leaves hf raised.
CleanupKeepsHf(t) ==
    /\ Active(t, "check") \/ Active(t, "then")
    /\ hgoto(t)
    /\ Top(t).fn \notin Closing
    /\ Becomes(t, [Top(t) EXCEPT !.ph = "undo", !.todo = Marked(Top(t))])
    /\ UNCHANGED <<depth, hf, owner, leak, faults, irqs>>

\* The jump to hecaton_label: the cleanup block lowers hf and tests the mask.
Cleanup(t) ==
    /\ Active(t, "check") \/ Active(t, "then")
    /\ hgoto(t)
    /\ Top(t).fn \notin Closing
    /\ Becomes(t, [Top(t) EXCEPT !.ph = "undo", !.todo = Marked(Top(t))])
    /\ hf' = [hf EXCEPT ![t] = FALSE]
    /\ UNCHANGED <<depth, owner, leak, faults, irqs>>

\* The cleanup block of a closing function sleeps, then restarts the kernel.
CleanupOfClosing(t) ==
    /\ Active(t, "check") \/ Active(t, "then")
    /\ hgoto(t)
    /\ Top(t).fn \in Closing
    /\ Becomes(t, [Top(t) EXCEPT !.ph = "dying"])
    /\ UNCHANGED <<depth, hf, owner, leak, faults, irqs>>

\* The next undo whose bit is set: the text of the statement that gave it its
\* entry, once more, with no hgoto behind it.
Undoes(t, r) ==
    /\ Active(t, "undo")
    /\ IsNext(Top(t).fn, r, Top(t).todo)

Callee(fn, r) == Body[fn][First[fn][r]].f

UndoOne(t) ==
    /\ \E r \in Res :
       /\ Undoes(t, r)
       /\ Callee(Top(t).fn, r) = NoFunc
       /\ Becomes(t, [Top(t) EXCEPT !.net = Released(Top(t), r), !.todo = @ \ {r}])
       /\ Drop(r)
    /\ UNCHANGED <<depth, hf, leak, faults, irqs>>

UndoByCall(t) ==
    /\ \E r \in Res :
       /\ Undoes(t, r)
       /\ Callee(Top(t).fn, r) # NoFunc
       /\ Push(t, [Top(t) EXCEPT !.ph = "ucall", !.pc = First[Top(t).fn][r], !.todo = @ \ {r}],
               Callee(Top(t).fn, r), Top(t).irq)
    /\ UNCHANGED <<hf, owner, leak, faults, irqs>>

\* An undo statement that faults is lost, and the one after it runs.
UndoFault(t) ==
    /\ UndoFaults /\ faults < MaxFaults /\ ~InIrq(t)
    /\ \E r \in Res :
       /\ Undoes(t, r)
       /\ Callee(Top(t).fn, r) = NoFunc
       /\ Becomes(t, [Top(t) EXCEPT !.todo = @ \ {r}])
    /\ hf' = [hf EXCEPT ![t] = TRUE]
    /\ faults' = faults + 1
    /\ UNCHANGED <<depth, owner, leak, irqs>>

\* return -1; alone.
LeaveQuietly(t) ==
    /\ Active(t, "undo") /\ Top(t).todo = {}
    /\ Pop(t, Resumed(Below(t)))
    /\ leak' = [leak EXCEPT ![t] = @ \cup {r \in Res : Top(t).net[r] # 0}]
    /\ UNCHANGED <<hf, owner, faults, irqs>>

\* current->hf = 1; return -1;
Leave(t) ==
    /\ Active(t, "undo") /\ Top(t).todo = {}
    /\ Pop(t, Resumed(Below(t)))
    /\ hf' = [hf EXCEPT ![t] = TRUE]
    /\ leak' = [leak EXCEPT ![t] = @ \cup {r \in Res : Top(t).net[r] # 0}]
    /\ UNCHANGED <<owner, faults, irqs>>

\* kernel_restart(NULL): a fresh kernel, whatever the other tasks were doing.
Restart(t) ==
    /\ Active(t, "dying")
    /\ depth' = [u \in Task |-> 0]
    /\ frame' = [u \in Task |-> [d \in Level |-> NoFrame]]
    /\ hf' = [u \in Task |-> FALSE]
    /\ owner' = [l \in Lock |-> NoTask]
    /\ leak' = [u \in Task |-> {}]
    /\ UNCHANGED <<faults, irqs>>

\* What t does by itself once it is in the kernel.
Step(t) ==
    \/ Acquire(t) \/ Release(t) \/ Work(t) \/ Call(t) \/ Branch(t)
    \/ SkipBlock(t) \/ AcquireInCondition(t) \/ Return(t)
    \/ Pass(t) \/ PassBrace(t) \/ Cleanup(t) \/ CleanupOfClosing(t)
    \/ UndoOne(t) \/ UndoByCall(t) \/ Leave(t) \/ Restart(t)

Surprise(t) ==
    \/ Fault(t) \/ FaultInCondition(t) \/ FaultInReturn(t) \/ UndoFault(t)
    \/ Interrupt(t)

Next == \E t \in Task : Enter(t) \/ Step(t) \/ Surprise(t)

Spec == Init /\ [][Next]_vars

\* Every task keeps running, and a lock that keeps coming free is not withheld
\* from one waiter for ever: the kernel's mutexes queue their waiters.
Fairness == \A t \in Task : SF_vars(Step(t))

FairSpec == Spec /\ Fairness
===============================================================================
