---------------------------- MODULE MCPairDatabase ----------------------------
(****************************************************************************)
(* Small functions for TLC: an acquisition, three ifs, and an end with two  *)
(* labels.                                                                  *)
(****************************************************************************)
EXTENDS DatabaseProps, TLC

CONSTANTS get, put, mutex_lock, mutex_unlock, printk, pr_debug, is_err, ptr_err, use,
          p, q, l, rc, ret, Five, Value, out, err

MCLockOf == mutex_unlock :> {mutex_lock}
MCSimilarity == [fs \in Fn \X Fn |-> CASE fs = <<put, get>> -> 60
                                       [] fs = <<put, use>> -> 30
                                       [] OTHER -> 0]

\* A statement is a tree of its own, whose nodes count from 1 and whose root is
\* the child of 0.
Nd(kind, up, lhs, fn, args) == [kind |-> kind, up |-> up, lhs |-> lhs, fn |-> fn, args |-> args]
Shift(tree, by, under) ==
    [k \in DOMAIN tree |-> [tree[k] EXCEPT !.up = IF @ = 0 THEN under ELSE @ + by]]
Join(root, trees) ==
    FoldLeft(LAMBDA acc, tree : acc \o Shift(tree, Len(acc), 1), <<root>>, trees)

Call(f, args) == Join(Nd("call", 0, NoTok, f, args), << <<Nd("ref", 0, NoTok, NoFn, <<>>)>> >>)
Assign(lhs, f, args) == Join(Nd("assign", 0, lhs, f, args), <<Call(f, args)>>)
Code(lhs, v) == <<Nd("assign", 0, lhs, NoFn, <<v>>)>>
Return(v) == <<Nd("return", 0, NoTok, NoFn, <<v>>)>>
ReturnCall(f, args) == Join(Nd("return", 0, NoTok, NoFn, <<>>), <<Call(f, args)>>)
Goto(label) == <<Nd("goto", 0, NoTok, label, <<>>)>>
Label(label, tree) == Join(Nd("label", 0, NoTok, label, <<>>), <<tree>>)
Block(trees) == Join(Nd("block", 0, NoTok, NoFn, <<>>), trees)
If(cond, then) == Join(Nd("if", 0, NoTok, NoFn, <<>>), <<cond, then>>)
IfElse(cond, then, else) == Join(Nd("if", 0, NoTok, NoFn, <<>>), <<cond, then, else>>)
Less == <<Nd("less", 0, NoTok, NoFn, <<>>)>>

Acquired == {Assign(p, get, <<q>>), Call(mutex_lock, <<l>>)}
Ifs == {
    Call(use, <<p>>),
    If(Less, Block(<<Call(printk, <<p>>), Return(Five)>>)),
    If(Less, Call(put, <<p>>)),
    If(Call(is_err, <<p>>), ReturnCall(ptr_err, <<p>>)),
    If(Call(use, <<p>>), Goto(out)),
    If(Call(use, <<q>>), Block(<<Call(put, <<q>>), Code(rc, Five), Code(ret, Value), Goto(err)>>)),
    IfElse(Less, Block(<<Assign(q, get, <<p>>)>>), Block(<<Call(mutex_unlock, <<l>>), Goto(out)>>)),
    IfElse(Call(use, <<p>>), Block(<<Call(mutex_lock, <<l>>)>>),
           If(Call(use, <<q>>), Block(<<Call(pr_debug, <<q>>), Call(mutex_unlock, <<l>>), Return(rc)>>))),
    If(Call(use, <<p>>), Block(<<If(Less, Block(<<Call(put, <<p>>), Return(Five)>>)), Goto(err)>>)) }
Tails == {
    <<Label(out, Call(put, <<p>>)), Label(err, Call(mutex_unlock, <<l>>)), Return(rc)>>,
    <<Label(out, Call(put, <<p>>)), Return(rc),
      Label(err, Call(mutex_unlock, <<l>>)), Code(ret, Five), Return(ret)>>,
    <<Label(out, Return(rc)), Label(err, Call(put, <<p>>)), Return(Value)>>,
    <<Return(rc), Label(err, If(Less, Block(<<Call(put, <<q>>)>>))), Label(out, Call(put, <<p>>)),
      Return(rc)>> }

MCSources ==
    {[node |-> [Block(<<a, i, j, k>> \o t) EXCEPT ![1].up = 1]] :
        a \in Acquired, i \in Ifs, j \in Ifs, k \in Ifs, t \in Tails}
===============================================================================
