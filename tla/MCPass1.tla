-------------------------------- MODULE MCPass1 -------------------------------
(****************************************************************************)
(* Small functions for TLC: the body, an if with a block in it, and another *)
(* statement behind.                                                        *)
(****************************************************************************)
EXTENDS Pass1Meaning, TLC

CONSTANTS x, y, v1, v2, v3

X == <<x, 0>>
Y == <<y, 0>>

Line(op, blk, flags, vs) ==
    [op |-> op, blk |-> blk, flags |-> flags, mark |-> FALSE, vars |-> vs]
Occ(n, ctx, init) == [name |-> n, ctx |-> ctx, init |-> init]
Dcl(blk, n, init, flags) == Line("decl", blk, flags, <<Occ(n, "word", init)>>)
Ptr(blk, n, init, flags) == Line("decl", blk, flags, <<Occ(n, "plain", init)>>)
Two(blk, m, i, n, j) == Line("decl", blk, {}, <<Occ(m, "word", i), Occ(n, "plain", j)>>)
Set(blk, n, init) == Line("set", blk, {}, <<Occ(n, "plain", init)>>)
Use(blk, n, ctx) == Line("use", blk, {}, <<Occ(n, ctx, NoInit)>>)

Heads == {Line("decl", <<>>, {"param"}, <<>>), Dcl(<<>>, Y, v3, {"param"})}

Bodies == {
    <<>>,
    <<Dcl(<<>>, X, v1, {})>>,
    <<Dcl(<<>>, X, v1, {"static"})>>,
    <<Dcl(<<>>, X, v1, {"comment"}), Dcl(<<>>, Y, NoInit, {})>>,
    <<Dcl(<<>>, X, v1, {"type"})>>,
    <<Dcl(<<>>, X, v1, {}), Dcl(<<>>, Y, X, {"const", "readonly"})>>,
    <<Dcl(<<>>, X, NoInit, {}), Ptr(<<>>, Y, X, {"const"})>>,
    <<Dcl(<<>>, Y, v3, {"brace"}), Dcl(<<>>, X, Y, {})>>,
    <<Two(<<>>, X, v1, Y, NoInit)>> }

\* The block of the if, <<1>>.
Inner == {
    <<>>,
    <<Dcl(<<1>>, X, v2, {})>>,
    <<Dcl(<<1>>, X, v2, {}), Dcl(<<1>>, Y, X, {})>>,
    <<Dcl(<<1>>, X, v2, {"const", "readonly"})>>,
    <<Dcl(<<1>>, X, v2, {"type"})>>,
    <<Dcl(<<1>>, X, v2, {"static"})>>,
    <<Dcl(<<1>>, X, v2, {"comment"})>>,
    <<Dcl(<<1>>, X, v2, {"brace"})>>,
    <<Two(<<1>>, X, v2, Y, v3)>> }

InnerUses == {
    <<Use(<<1>>, X, "plain"), Set(<<1>>, X, v3), Use(<<1>>, X, "plain")>>,
    <<Use(<<1>>, X, "word")>>,
    <<Use(<<1>>, X, "member"), Use(<<1>>, Y, "plain")>> }

\* A block in that block, <<1, 1>>, and the body of another statement, <<2>>.
Innermost == {
    <<Use(<<1, 1>>, X, "plain")>>,
    <<Ptr(<<1, 1>>, X, v3, {}), Use(<<1, 1>>, X, "plain")>>,
    <<Ptr(<<1, 1>>, X, v3, {"brace"}), Use(<<1, 1>>, X, "plain")>>,
    <<Dcl(<<1, 1>>, Y, v3, {}), Set(<<1, 1>>, Y, v1), Use(<<1, 1>>, Y, "plain")>> }

Sibling == {
    <<Use(<<2>>, X, "plain")>>,
    <<Dcl(<<2>>, X, v2, {}), Set(<<2>>, X, v3), Use(<<2>>, X, "plain")>> }

Nested ==
    {[text |-> <<h>> \o b \o i \o u \o n \o s \o <<Use(<<>>, X, "plain"), Use(<<>>, Y, "plain")>>,
      form |-> (<<1>> :> "if" @@ <<1, 1>> :> f @@ <<2>> :> f),
      bare |-> {p \in {<<1, 1>>} : Len(n) = 1} \cup {p \in {<<2>>} : Len(s) = 1},
      globals |-> g] :
        h \in Heads, b \in Bodies, i \in Inner, u \in InnerUses,
        n \in Innermost, s \in Sibling, f \in {"while", "macro"}, g \in {{}, {X, Y}}}

\* Statements without braces in one another.
Chained ==
    {[text |-> <<Dcl(<<>>, Y, v3, {"param"}), Dcl(<<>>, X, v1, {})>>
               \o <<Use(<<1, 1, 1>>, Y, "plain"), Use(<<>>, X, "plain")>>,
      form |-> (<<1>> :> f @@ <<1, 1>> :> g @@ <<1, 1, 1>> :> h),
      bare |-> {<<1>>, <<1, 1>>, <<1, 1, 1>>} \ braced,
      globals |-> {}] :
        f \in {"if", "else", "for", "macro"}, g \in {"while", "for", "macro"},
        h \in {"if", "for", "do"}, braced \in {{}, {<<1>>}, {<<1, 1>>}}}

MCFunctions == Nested \cup Chained
===============================================================================
