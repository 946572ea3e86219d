------------------------------ MODULE AtomicCall ------------------------------
(****************************************************************************)
(* What a bowknot promises, seen from outside the instrumented functions: a *)
(* system call is all or nothing.  It takes resources one by one, and may   *)
(* give them back; once it is cut short it has no result, and is over only  *)
(* when it has given back everything.  No statements, frames, masks or hf   *)
(* are visible.                                                             *)
(****************************************************************************)
EXTENDS Integers

CONSTANTS
    Task, Res,
    Lock       \* the resources one task at a time may hold

VARIABLES
    inside,    \* the tasks in a system call
    cut,       \* those of them whose call has been cut short
    held       \* held[t][r]: how often the call of t has taken r and not given it back

vars == <<inside, cut, held>>

Nothing == [r \in Res |-> 0]

Init == inside = {} /\ cut = {} /\ held = [t \in Task |-> Nothing]

Begin(t) ==
    /\ t \notin inside
    /\ inside' = inside \cup {t}
    /\ UNCHANGED <<cut, held>>

\* A call that is cut short may take what it needs for giving back.
Take(t, r) ==
    /\ t \in inside
    /\ r \in Lock => \A u \in Task : held[u][r] = 0
    /\ held' = [held EXCEPT ![t][r] = @ + 1]
    /\ UNCHANGED <<inside, cut>>

Give(t, r) ==
    /\ t \in inside /\ held[t][r] > 0
    /\ held' = [held EXCEPT ![t][r] = @ - 1]
    /\ UNCHANGED <<inside, cut>>

CutShort(t) ==
    /\ t \in inside \ cut
    /\ cut' = cut \cup {t}
    /\ UNCHANGED <<inside, held>>

\* All: what the call still holds, no lock, is its result.
Finish(t) ==
    /\ t \in inside \ cut /\ \A l \in Lock : held[t][l] = 0
    /\ inside' = inside \ {t}
    /\ held' = [held EXCEPT ![t] = Nothing]
    /\ UNCHANGED cut

\* Or nothing.
Undone(t) ==
    /\ t \in cut /\ held[t] = Nothing
    /\ inside' = inside \ {t} /\ cut' = cut \ {t}
    /\ UNCHANGED held

\* The machine starts again with nothing taken, because of a call cut short.
Reboot ==
    /\ cut # {}
    /\ inside' = {} /\ cut' = {} /\ held' = [t \in Task |-> Nothing]

Next ==
    \/ \E t \in Task : \/ Begin(t) \/ CutShort(t) \/ Finish(t) \/ Undone(t)
                       \/ \E r \in Res : Take(t, r) \/ Give(t, r)
    \/ Reboot

Spec == Init /\ [][Next]_vars
===============================================================================
