----------------------------- MODULE MCPairSearch -----------------------------
(****************************************************************************)
(* Small functions for TLC: two acquisitions, an error handling block, a    *)
(* third statement, another block and an end, out of a handful of each.     *)
(****************************************************************************)
EXTENDS PairProps, TLC

CONSTANTS kfree, kfree_skb, kmalloc, kstrdup, get, put, mutex_lock, mutex_unlock, unlock_irq,
          use, undo, ops_get, p, q, n, l, ll

MCDatabase == << <<kfree, kfree>>, <<kfree, kmalloc>>, <<kfree, kstrdup>>, <<put, get>>,
                 <<put, kmalloc>>, <<mutex_unlock, use>>,
                 <<kfree_skb, get>> >>
MCPart == {<<l, ll>>}
MCLockOf == mutex_unlock :> {mutex_lock} @@ unlock_irq :> {mutex_lock}
MCSimilarity == [fs \in Fn \X Fn |-> CASE fs = <<undo, use>> -> 60
                                       [] fs[1] = undo /\ fs[2] \in {get, put, ops_get} -> 30
                                       [] OTHER -> 0]

\* A statement is a tree of its own, whose nodes count from 1 and whose root is
\* the child of 0.
Nd(kind, up, lhs, fn, args) == [kind |-> kind, up |-> up, lhs |-> lhs, fn |-> fn, args |-> args]
Call(f, args) == <<Nd("call", 0, NoTok, f, args)>>
Put(lhs, f, args) == <<Nd("assign", 0, lhs, f, args), Nd("call", 1, NoTok, f, args)>>
Cast(lhs, f, args) == <<Nd("assign", 0, lhs, f, args), Nd("cast", 1, NoTok, f, args),
                        Nd("call", 2, NoTok, f, args)>>
Shift(tree, by, under) ==
    [k \in DOMAIN tree |-> [tree[k] EXCEPT !.up = IF @ = 0 THEN under ELSE @ + by]]
Block(stmts, up) ==
    FoldLeft(LAMBDA acc, tree : acc \o Shift(tree, Len(acc), 1),
             <<Nd("block", up, NoTok, NoFn, <<>>)>>, stmts)
If(kind, f, args, stmts) ==
    <<Nd("if", 0, NoTok, NoFn, <<>>), Nd(kind, 1, NoTok, f, args)>> \o
    Shift(Block(stmts, 0), 2, 1)

First == {Cast(p, kmalloc, <<n>>), Put(p, kstrdup, <<n>>), Put(p, get, <<n>>),
          Call(get, <<p>>), Call(mutex_lock, <<l>>)}
Second == {Cast(q, kmalloc, <<n>>), Call(put, <<p>>), Call(kmalloc, <<p, n>>), Call(use, <<n, p>>),
           Call(mutex_lock, <<ll>>), If("call", use, <<p>>, <<Call(get, <<p>>)>>)}
Ehc1 == {If("call", use, <<p>>, <<Call(kfree, <<p>>)>>),
         If("indirect", ops_get, <<p>>, <<Call(put, <<p>>), Call(undo, <<p>>)>>),
         If("call", get, <<q>>, <<Call(mutex_unlock, <<l>>), Call(put, <<q>>), Call(use, <<n, p>>)>>)}
Third == {Call(get, <<p>>), Cast(q, kmalloc, <<n>>), Put(q, get, <<p>>)}
Ehc2 == {If("call", use, <<p>>, <<Call(undo, <<q>>), Call(put, <<q>>)>>),
         If("call", use, <<n>>, <<Call(undo, <<p>>), Call(unlock_irq, <<l>>)>>)}
Fourth == {Call(use, <<n>>), Call(get, <<q>>)}
Ends == {<<Call(kfree, <<p>>), Call(put, <<p>>)>>, <<Call(unlock_irq, <<l>>)>>, <<Call(undo, <<n>>), Call(kfree, <<p>>)>>,
         <<Call(kfree_skb, <<q>>)>>}

\* The undos that are new in the blocks: what is not in an earlier block.  A use
\* is a library call that delete_blacklist_functions takes out.
FunctionOf(stmts, inMacro, doubtful) ==
    LET node   == Block(stmts, 0)
        macros == IF inMacro THEN {Len(node)} ELSE {}
        heads  == SetToSortSeq({i \in DOMAIN node : /\ node[i].kind = "if"
                       /\ \E j \in DOMAIN node : node[j].fn \in {put, undo, kfree}
                             /\ node[j].up # 0 /\ node[node[j].up].kind = "block"
                             /\ node[node[j].up].up = i}, <)
        In(h)  == {j \in DOMAIN node : /\ node[j].fn \notin {use, NoFn}
                                       /\ node[node[j].up].kind = "block" /\ node[node[j].up].up = h}
        New(h) == {j \in In(h) \ macros : ~\E g \in ToSet(heads) : g < h /\ \E i \in In(g) :
                       node[i].fn = node[j].fn /\ node[i].args = node[j].args}
    IN  [node |-> [node EXCEPT ![1].up = 1],
         ehcs |-> [k \in DOMAIN heads |-> [head |-> heads[k], verified |-> doubtful,
                                           news |-> SetToSortSeq(New(heads[k]), <)]],
         macros |-> macros]

\* doubtful also says whether the last statement comes out of a macro.
MCFunctions ==
    {FunctionOf(<<a, b, c, d, e, f>> \o g, doubtful, doubtful) :
        a \in First, b \in Second, c \in Ehc1, d \in Third, e \in Ehc2, f \in Fourth, g \in Ends,
        doubtful \in BOOLEAN}
===============================================================================
