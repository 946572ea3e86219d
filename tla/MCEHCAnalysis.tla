----------------------------- MODULE MCEHCAnalysis ----------------------------
(****************************************************************************)
(* Small functions for TLC: up to three ifs out of a stock of nine.         *)
(****************************************************************************)
EXTENDS EHCProps, TLC

CONSTANTS
    kfree_a,     \* kfree(a): in ehc_fncs, and is_pair knows its partner
    kzfree_b,    \* kzfree(b): is_pair knows its partner, ehc_fncs does not
    reset,       \* reset_hw(): a call no table knows
    count,       \* dev->count--;
    lock,        \* mutex_lock(&m), a direct call
    wait,        \* wait_for (a): a direct call whose text reads like a loop
    assign,      \* res = -5; which the return of res takes with it
    log, brk, loop, ret, ret_inval,
    labelled,    \* a statement behind a label, inside the block
    macro,       \* a statement out of a macro
    err_a, out

MCText == {kfree_a, kzfree_b, reset, count, lock, wait, assign, log, brk, loop, ret,
           ret_inval, labelled, macro}

MCDirect == {kfree_a, kzfree_b, reset, lock, wait, log}

MCErrorSets == [s \in MCText |-> IF s = ret THEN {assign} ELSE {}]

MCKind == [s \in {kfree_a, kzfree_b, reset, count, assign} |-> "plain"]
          @@ wait :> "loop" @@ log :> "noise" @@ brk :> "stop" @@ loop :> "loop" @@ lock :> "lock"
          @@ ret :> "ret" @@ ret_inval :> "errret" @@ labelled :> "label" @@ macro :> "plain"

Block(body, jump) == [body |-> body, jump |-> jump]
If(neg, then, els) == [neg |-> neg, then |-> then, els |-> els]

Ifs == {
    If(TRUE,  Block(<<kfree_a, lock, ret>>, NoLabel), NoBlock),
    If(FALSE, Block(<<log, reset, ret>>, NoLabel), NoBlock),
    If(FALSE, Block(<<count, kzfree_b, ret_inval>>, NoLabel), NoBlock),
    If(FALSE, Block(<<macro, kfree_a, brk>>, NoLabel), Block(<<reset, reset>>, out)),
    If(FALSE, Block(<<count>>, err_a), Block(<<log>>, out)),
    If(FALSE, Block(<<assign, count, ret>>, NoLabel), NoBlock),
    If(FALSE, Block(<<labelled, loop, ret>>, NoLabel), Block(<<reset, ret_inval>>, NoLabel)),
    If(TRUE,  Block(<<kzfree_b>>, out), NoBlock),
    If(FALSE, Block(<<lock, ret>>, NoLabel), Block(<<wait, ret>>, NoLabel)) }

At(text, lab) == [text |-> text, labelled |-> lab]

FromLabel == err_a :> <<At(kfree_a, TRUE), At(ret, TRUE), At(count, FALSE), At(ret_inval, FALSE)>>
        @@ out :> <<At(ret, TRUE), At(count, FALSE), At(ret_inval, FALSE)>>

MCPrograms == {[ifs |-> i, rest |-> <<kfree_a, lock, reset>>, tail |-> FromLabel] :
                  i \in UNION {[1..n -> Ifs] : n \in 0..3}}
===============================================================================
