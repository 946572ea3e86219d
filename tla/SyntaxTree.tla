------------------------------ MODULE SyntaxTree ------------------------------
(****************************************************************************)
(* The syntax tree of a function, and the search for the pair of an undo    *)
(* that stands in an error handling block.  HecatonPass2.cpp and            *)
(* HecatonDatabase.cpp contain the same text of this search.                *)
(*                                                                          *)
(* node is the tree in preorder from the body, node[1], which is its own    *)
(* parent; a node is [kind, up, lhs, fn, args], up being its parent:        *)
(*   "block", "if"  the condition and the branches of an if are its children*)
(*   "call"         fn(args), of a function                                 *)
(*   "indirect"     fn(args), fn being a function pointer of a structure    *)
(*   "assign"       lhs = ..., whose right-hand side is a call or a number  *)
(*   "cast"         an implicit cast of a call, which is not printed        *)
(*   "ref"          a name                                                  *)
(*   "less"         a comparison with < 0                                   *)
(*   "return", "goto", "label", "break"                                     *)
(* An expression has the fn and args of the call in it.                     *)
(****************************************************************************)
EXTENDS Integers, Sequences, SequencesExt, FiniteSetsExt, Filter

CONSTANTS
    Fn, NoFn,      \* names of functions
    Uncalled,      \* of them, labels and fields that point to functions
    Token, NoTok,  \* what is passed and assigned
    Part,          \* <<s, t>>: s is part of the text of t
    LockOf,        \* the three unlock functions, and what is_pair takes for their locks
    irqrestore,    \* the unlock that takes a lock of a similar name too
    Frees, Allocs, \* kfree and kzfree; kmalloc and kzalloc
    Similarity     \* pair_evaluation, by the names of the functions

Kinds == {"block", "if", "call", "indirect", "assign", "cast", "ref", "less",
          "return", "goto", "label", "break"}

NodeType ==
    [kind : Kinds, up : Nat \ {0}, lhs : Token \cup {NoTok}, fn : Fn \cup {NoFn}, args : Seq(Token)]

\* What a node contains stands behind it.
IsPreorder(node) ==
    /\ node[1].up = 1
    /\ \A n \in 2..Len(node) :
          node[n].up < n /\ \A m \in (node[n].up + 1)..n : node[m].up >= node[n].up

\* Which statements contain statements, and what is never without a part.
IsProgram(node) ==
    LET contain == {"block", "if", "label"}
    IN  /\ node[1].kind = "block"
        /\ \A n \in DOMAIN node :
              /\ node[n].kind = "call" => node[n].fn \in Fn
              /\ node[n].kind \in contain => node[node[n].up].kind \in contain
              /\ node[n].kind = "if" => \E m \in (n + 2)..Len(node) : node[m].up = n
              /\ node[n].kind = "label" => {m \in DOMAIN node : node[m].up = n} = {n + 1}

\* What an expression consists of: a call may hold the name of what it calls, a
\* cast holds a call, an assignment either of them, and stands for it.
IsSpelled(node) ==
    \A n \in DOMAIN node :
        LET up == node[node[n].up]
            holds == {"call", "indirect", "cast", "assign"}
        IN  /\ node[n].fn # NoFn => node[n].kind \in holds \cup {"goto", "label"}
            /\ node[n].kind = "call" => node[n].fn \notin Uncalled
            /\ node[n].kind \in {"indirect", "goto", "label"} => node[n].fn \in Uncalled
            /\ node[n].lhs # NoTok <=> node[n].kind = "assign"
            /\ up.kind # "ref" /\ (up.kind \in holds => n = node[n].up + 1)
            /\ up.kind \in {"call", "indirect"} => node[n].kind = "ref"
            /\ up.kind \in {"cast", "assign"} =>
                  /\ node[n].kind \in {"call", "indirect"} \/ (node[n].kind = "cast" /\ up.kind = "assign")
                  /\ node[n].fn = up.fn /\ node[n].args = up.args
            /\ node[n].kind = "cast" => up.kind = "assign" /\ n < Len(node) /\ node[n + 1].up = n

IsTree(node) ==
    node \in Seq(NodeType) \ {<<>>} /\ IsPreorder(node) /\ IsProgram(node) /\ IsSpelled(node)

ASSUME SyntaxTreeAssumption ==
    /\ NoFn \notin Fn /\ NoTok \notin Token
    /\ Part \subseteq Token \X Token
    /\ DOMAIN LockOf \subseteq Fn /\ Frees \cup Allocs \cup Uncalled \subseteq Fn
    /\ DOMAIN LockOf \cap Frees = {}
    /\ Similarity \in [Fn \X Fn -> 0..100]

VARIABLE function   \* what is analysed, a record that has a tree, function.node

Nodes == DOMAIN function.node
Node(n) == function.node[n]

IsCall(n) == Node(n).kind = "call"
IsExpression(n) == Node(n).kind \in {"call", "indirect", "assign", "cast"}

\* In the order of the text.
InOrder(nodes) == Keep([n \in Nodes |-> n], nodes)

\* A node and its ancestors; a node and its descendants.
Above(n) ==
    LET above[m \in Nodes] == IF m = 1 THEN {1} ELSE {m} \cup above[Node(m).up]
    IN  above[n]
Below(n) == {m \in Nodes : n \in Above(m)}

\* Statements stand on lines of their own, so that a statement is a line.  The
\* first child of an if is its condition; braces are on the line before.
IsStatement(n) ==
    \/ n = 1 \/ Node(Node(n).up).kind = "block"
    \/ Node(Node(n).up).kind = "if" /\ n > Node(n).up + 1 /\ Node(n).kind # "block"
Line(n) == Max({m \in Above(n) : IsStatement(m)})

\* What printPretty prints.
Text(n) == <<Node(n).lhs, Node(n).fn, Node(n).args>>

\* The call in an expression is where the expression ends.
End(n) == Max({m \in Below(n) : Node(m).kind \in {"call", "indirect"}})

(****************************************************************************)
(* The pair of an undo that stands in a block.                              *)
(****************************************************************************)
SameLock(u, n) ==
    LET s == Node(u).args[1]
        t == Node(n).args[1]
    IN  s = t \/ (Node(u).fn = irqrestore /\ {<<s, t>>, <<t, s>>} \cap Part # {})

is_pair(u, n) ==
    \/ /\ IsCall(u) /\ Node(u).fn \in Frees
       /\ Node(n).kind = "assign" /\ Node(n).fn \in Allocs
       /\ Node(n).lhs = Node(u).args[1]
    \/ /\ IsCall(u) /\ Node(u).fn \in DOMAIN LockOf
       /\ IsCall(n) /\ Node(n).fn \in LockOf[Node(u).fn]
       /\ SameLock(u, n)

\* found is 0 again with every child, so that a pair counts only if it is
\* reached through last children; the first of these is the pair.
recursive_pair_visit(u, near) ==
    {n \in near \ {1} :
        /\ is_pair(u, n)
        /\ \A m \in Above(Node(n).up) \ {1} :
              \A s \in Nodes \ {1} : s > m => Node(s).up # Node(m).up}

recursive_probable_pair_visit(u, near) ==
    {n \in near \ {1} : \/ Node(n).kind \in {"assign", "call", "indirect"}
                        \/ Node(n).kind = "if" /\ Node(u).kind = "if"}

pair_evaluation(u, n) ==
    IF NoFn \in {Node(u).fn, Node(n).fn} THEN 0 ELSE Similarity[Node(u).fn, Node(n).fn]

\* The first of the most similar ones, 0 for none.
pick_the_most_probable(u, candidates) ==
    LET best == {n \in candidates : \A m \in candidates :
                                        pair_evaluation(u, m) <= pair_evaluation(u, n)}
    IN  IF candidates = {} THEN 0 ELSE Min(best)

PairOf(u, near) ==
    LET found == recursive_pair_visit(u, near)
    IN  IF found # {} THEN Min(found)
        ELSE pick_the_most_probable(u, recursive_probable_pair_visit(u, near))
===============================================================================
