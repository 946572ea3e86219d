------------------------------- MODULE MCBowknot ------------------------------
(****************************************************************************)
(* Small drivers for TLC.                                                   *)
(****************************************************************************)
EXTENDS BowknotProps, TLC

CONSTANTS t1, t2, lk, buf, cfg, ref, ioctl, step, buf_release, tick

St(op, r, f, k, e) == [op |-> op, r |-> r, f |-> f, k |-> k, e |-> e]
acq(r)      == St("acq", r, NoFunc, 0, 0)
rel(r)      == St("rel", r, NoFunc, 0, 0)
work        == St("work", NoRes, NoFunc, 0, 0)
ifthen(k)   == St("if", NoRes, NoFunc, k, 0)
iffailed(r, k) == St("iferr", r, NoFunc, k, 0)
jump(k)     == St("goto", NoRes, NoFunc, k, 0)
ok          == St("ret", NoRes, NoFunc, 0, 0)
error       == St("ret", NoRes, NoFunc, 1, 0)

MCTasks == {t1, t2}
Symmetry == Permutations(MCTasks)
MCRes == {lk, buf, cfg, ref}
MCFunc == {ioctl, step, buf_release, tick}

\* A driver as Pass 1 leaves it: a lock, an allocation that may fail, an inner
\* undo (cfg), a call that may be cut short on its own, and a release function.
DriverBody ==
    (ioctl :> <<
        acq(lk),                                     \*  1 mutex_lock(&lk);
        acq(cfg),                                    \*  2 cfg = build();
        iffailed(cfg, 6),                            \*  3 if (!cfg) {
        rel(lk),                                     \*  4   mutex_unlock(&lk);
        error,                                       \*  5   return -ENOMEM; }
        St("acq", buf, step, 0, 0),                  \*  6 buf = step();
        ifthen(12),                                  \*  7 if (bad) {
        St("rel", buf, buf_release, 0, 0),           \*  8   buf_release(buf);
        rel(lk),                                     \*  9   mutex_unlock(&lk);
        St("rel", cfg, NoFunc, 0, 2),                \* 10   discard(cfg);
        error,                                       \* 11   return -EINVAL; }
        work,                                        \* 12 publish(cfg, buf);
        St("rel", buf, buf_release, 0, 0),           \* 13 buf_release(buf);
        rel(lk),                                     \* 14 mutex_unlock(&lk);
        ok >>) @@                                    \* 15 return 0;
    (step :> <<
        acq(ref),
        acq(buf),
        ifthen(7),
        rel(buf),
        acq(buf),
        jump(3),
        rel(ref),
        ok >>) @@
    (buf_release :> << rel(buf), work, ok >>) @@
    (tick :> << acq(ref), work, rel(ref), ok >>)

\* The same driver with step's loop left out, so that every call is finite.
LoopFreeBody == (step :> << acq(ref), acq(buf), rel(ref), ok >>) @@ DriverBody

\* A driver for faults in places no hgoto covers: conditions, returns and the
\* cleanup itself.
UncaughtBody ==
    (ioctl :> <<
        St("cond", lk, NoFunc, 3, 0),                \*  if (down_interruptible(&lk))
        error,                                       \*    return -EINTR;
        St("acq", buf, step, 0, 0),
        ifthen(6),
        work,
        St("rel", buf, buf_release, 0, 0),
        ifthen(9),
        work,
        rel(lk),
        ok >>) @@
    (step :> << acq(ref), acq(buf), rel(ref), ok >>) @@
    DriverBody

\* if (down_interruptible(&lk)) { return -EINTR; } use(); up(&lk);
ConditionBody ==
    (ioctl :> << St("cond", lk, NoFunc, 3, 0), error, work, rel(lk), ok >>) @@ DriverBody

\* mutex_lock(&lk); if (bad) { work(); } mutex_unlock(&lk);
SkippedBody == (ioctl :> << acq(lk), ifthen(4), work, rel(lk), ok >>) @@ DriverBody

\* if (bad) { discard(cfg); mutex_unlock(&lk); return -EINVAL; }
InnerBody ==
    (ioctl :> << acq(lk), acq(cfg), ifthen(7), St("rel", cfg, NoFunc, 0, 1), rel(lk),
                 error, rel(lk), ok >>) @@ DriverBody

Statements(body, ops) ==
    {s \in MCFunc \X (1..15) : s[2] \in DOMAIN body[s[1]] /\ body[s[1]][s[2]].op \in ops}
DriverFaults == Statements(DriverBody, {"acq", "rel", "work"})
LoopFreeFaults == Statements(LoopFreeBody, {"acq", "rel", "work"})
UncaughtFaults == Statements(UncaughtBody, {"acq", "rel", "work", "ret", "cond", "if"})
ConditionFaults == Statements(ConditionBody, {"cond", "rel", "work"})
SkippedFaults == Statements(SkippedBody, {"if"})
InnerFaults == Statements(InnerBody, {"rel"})
===============================================================================
