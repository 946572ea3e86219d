----------------------------- MODULE DatabaseProofs ----------------------------
(****************************************************************************)
(* Proofs about what is written to the function pair database, for every    *)
(* tree that SyntaxTree describes, however its statements are named and     *)
(* nested.                                                                  *)
(****************************************************************************)
EXTENDS DatabaseProps, TreeProofs

-----------------------------------------------------------------------------
(* The search for a pair. *)

\* The pair of a statement stands before the branch that it is in.
LEMMA PairBefore ==
    ASSUME IsTree(function.node), NEW u \in Nodes, NEW k, heads[k].headStmt \in Nodes
    PROVE  LET pair == PairOf(u, {n \in Nodes : Window(k, n)})
           IN  pair \in Nodes \cup {0} /\ (pair # 0 => pair < heads[k].headStmt)
<1> DEFINE near == {n \in Nodes : Window(k, n)}
           pair == PairOf(u, near)
           branch == heads[k].headStmt
<1>0. Size \in Nat \ {0} /\ Nodes = 1..Size
  BY TreeNodes
<1>1. near \in SUBSET Nodes
  OBVIOUS
<1> HIDE DEF near
<1>2. pair = 0 \/ (pair \in near /\ Node(pair).kind # "block")
  BY <1>1, PairIsNear
<1> HIDE DEF pair
<1>3. ASSUME pair # 0 PROVE pair \in Nodes /\ pair < branch
  <2>1. pair \in Nodes /\ Window(k, pair) /\ Node(pair).kind # "block"
    BY <1>2, <1>3 DEF near
  <2>2. Line(pair) < Line(branch) \/ pair < branch
    BY <2>1 DEF Window
  <2>3. ASSUME pair > branch PROVE FALSE
    <3>1. Line(pair) >= Line(branch)
      BY <2>1, <2>3, LaterLines
    <3>2. Line(pair) \in 1..pair /\ Line(branch) \in 1..branch
      BY <2>1, LineIsLast, AboveBefore
    <3> QED BY <1>0, <2>1, <2>2, <2>3, <3>1, <3>2
  <2>4. ASSUME pair = branch PROVE FALSE
    <3>1. Line(branch) \in 1..branch
      BY LineIsLast, AboveBefore
    <3> QED BY <1>0, <2>2, <2>4, <3>1
  <2> QED BY <1>0, <2>1, <2>3, <2>4
<1> QED BY <1>3 DEF pair, near

-----------------------------------------------------------------------------
(* Lists of nodes. *)

\* The children of a node are the nodes whose parent it is.
LEMMA ChildrenOf ==
    ASSUME IsTree(function.node), NEW n
    PROVE  /\ Children(n) \in Seq(Nodes) /\ IsInjective(Children(n))
           /\ ToSet(Children(n)) = {m \in Nodes \ {1} : Up(m) = n}
           /\ \A k \in 1..Len(Children(n)) : Child(n, k) \in Nodes \ {1} /\ Up(Child(n, k)) = n
           /\ \A j, k \in 1..Len(Children(n)) : Child(n, j) = Child(n, k) => j = k
<1> DEFINE S == {m \in Nodes \ {1} : Node(m).up = n}
<1>1. Children(n) \in Seq(Nodes) /\ ToSet(Children(n)) = Nodes \cap S /\ IsInjective(Children(n))
  BY InOrderLists DEF Children
<1>2. DOMAIN Children(n) = 1..Len(Children(n))
  BY <1>1, LenProperties
<1>3. ToSet(Children(n)) = {m \in Nodes \ {1} : Up(m) = n}
  BY <1>1 DEF Up
<1>4. \A k \in 1..Len(Children(n)) : Child(n, k) \in ToSet(Children(n))
  BY <1>2 DEF ToSet, Child
<1>5. \A j, k \in 1..Len(Children(n)) : Child(n, j) = Child(n, k) => j = k
  BY <1>1, <1>2 DEF IsInjective, Child
<1> QED BY <1>1, <1>3, <1>4, <1>5

\* A condition and a Then at least.
LEMMA IfHasTwo ==
    ASSUME IsTree(function.node), NEW n \in Nodes, Node(n).kind = "if"
    PROVE  Len(Children(n)) \in Nat /\ Len(Children(n)) >= 2
<1>0. Size \in Nat \ {0} /\ Nodes = 1..Size
  BY TreeNodes
<1>1. PICK m \in Nodes : m >= n + 2 /\ Up(m) = n
  BY TreeShape
<1>2. Up(n + 1) = n
  <2>1. m \in 2..Len(function.node) /\ n + 1 \in (Up(m) + 1)..m /\ n + 1 \in Nodes \ {1}
    BY <1>0, <1>1 DEF Size
  <2>2. Up(n + 1) >= n
    BY <1>1, <2>1 DEF IsTree, IsPreorder, Up, Node
  <2>3. Up(n + 1) \in Nodes /\ Up(n + 1) < n + 1
    BY <2>1, TreeNodes
  <2> QED BY <1>0, <2>2, <2>3
<1>3. m \in ToSet(Children(n)) /\ n + 1 \in ToSet(Children(n)) /\ m # n + 1
  BY <1>0, <1>1, <1>2, ChildrenOf
<1>4. Children(n) \in Seq(Nodes)
  BY ChildrenOf
<1>5. Len(Children(n)) \in Nat /\ DOMAIN Children(n) = 1..Len(Children(n))
  BY <1>4, LenProperties
<1>6. PICK a, b \in 1..Len(Children(n)) : Children(n)[a] = m /\ Children(n)[b] = n + 1
  BY <1>3, <1>5 DEF ToSet
<1>7. a # b
  BY <1>3, <1>6
<1> QED BY <1>5, <1>7

-----------------------------------------------------------------------------
(* Names. *)

\* What a node is called, given what the last of its children is called.
Named(m, last) ==
    LET below == ToSet(Children(m))
        calls == {c \in below : IsCall(c)}
    IN  CASE calls # {} -> Node(Min(calls)).fn
          [] below # {} /\ calls = {} -> last
          [] OTHER -> NoFn
Lowest(m) == Max(ToSet(Children(m)))

\* A name is that of a function, or none, if that of the last child is.
LEMMA NamedIsName ==
    ASSUME IsTree(function.node), NEW m \in Nodes, NEW last,
           ToSet(Children(m)) # {} => last \in Fn \cup {NoFn}
    PROVE  Named(m, last) \in Fn \cup {NoFn}
<1>0. Size \in Nat \ {0} /\ Nodes = 1..Size
  BY TreeNodes
<1> DEFINE below == ToSet(Children(m))
           calls == {c \in below : IsCall(c)}
<1>1. calls \subseteq Nodes /\ \A c \in calls : Node(c).fn \in Fn
  BY ChildrenOf, TreeShape DEF IsCall
<1>2. calls # {} => Min(calls) \in calls
  <2>1. calls \in SUBSET (0..Size)
    BY <1>0, <1>1
  <2> HIDE DEF calls
  <2> QED BY <1>0, <2>1, Extremes
<1>3. Named(m, last) = CASE calls # {} -> Node(Min(calls)).fn
                         [] below # {} /\ calls = {} -> last
                         [] OTHER -> NoFn
  BY DEF Named
<1> HIDE DEF calls
<1>4. CASE calls # {}
  BY <1>1, <1>2, <1>3, <1>4
<1>5. CASE calls = {} /\ below # {}
  <2>1. Named(m, last) = last
    BY <1>3, <1>5
  <2> QED BY <1>5, <2>1
<1>6. CASE calls = {} /\ below = {}
  <2>1. Named(m, last) = NoFn
    BY <1>3, <1>6
  <2> QED BY <2>1
<1> QED BY <1>4, <1>5, <1>6

\* The last of the children stands behind its parent.
LEMMA LowestBehind ==
    ASSUME IsTree(function.node), NEW m \in Nodes, ToSet(Children(m)) # {}
    PROVE  Lowest(m) \in Nodes /\ Lowest(m) > m
<1>0. Size \in Nat \ {0} /\ Nodes = 1..Size
  BY TreeNodes
<1> DEFINE below == ToSet(Children(m))
<1>1. \A c \in below : c \in Nodes /\ c > m
  <2>1. ASSUME NEW c \in below PROVE c \in Nodes /\ c > m
    <3>1. c \in Nodes \ {1} /\ Up(c) = m
      BY ChildrenOf
    <3> QED BY <1>0, <3>1, TreeNodes
  <2> QED BY <2>1
<1>2. below \in SUBSET (0..Size)
  BY <1>0, <1>1
<1> HIDE DEF below
<1>3. Max(below) \in below
  <2>1. below # {}
    BY DEF below
  <2> QED BY <1>0, <1>2, <2>1, Extremes
<1> QED BY <1>1, <1>3 DEF Lowest, below

\* run[m] is the name of m, for the last d nodes.
Names(run, d) ==
    /\ run = [m \in (Size - d + 1)..Size |-> run[m]]
    /\ \A m \in (Size - d + 1)..Size : run[m] = Named(m, run[Lowest(m)])

\* What a node is called does not depend on the name of what it does not contain.
LEMMA NamedAgrees ==
    ASSUME NEW m, NEW x, NEW y, ToSet(Children(m)) # {} => x = y
    PROVE  Named(m, x) = Named(m, y)
<1>1. CASE ToSet(Children(m)) # {}
  BY <1>1
<1>2. CASE ToSet(Children(m)) = {}
  BY <1>2 DEF Named
<1> QED BY <1>1, <1>2

\* The names can be found node by node, from the last one.
LEMMA NamesRun ==
    ASSUME IsTree(function.node)
    PROVE  \E run : Names(run, Size)
<1>0. Size \in Nat \ {0} /\ Nodes = 1..Size
  BY TreeNodes
<1> DEFINE X == {d \in 0..Size : \E run : Names(run, d)}
<1>1. 0 \in X
  <2>1. (Size - 0 + 1)..Size = {}
    BY <1>0
  <2>2. Names([m \in {} |-> 0], 0)
    BY <2>1 DEF Names
  <2> QED BY <1>0, <2>2
<1>2. ASSUME NEW d \in 1..Size, d - 1 \in X PROVE d \in X
  <2>1. PICK run : Names(run, d - 1)
    BY <1>2
  <2> DEFINE new == Size - d + 1
             old == (Size - (d - 1) + 1)..Size
             first == Named(new, run[Lowest(new)])
             more == [m \in new..Size |-> IF m = new THEN first ELSE run[m]]
  <2>2. /\ new \in Nodes /\ new \in new..Size
        /\ \A m \in old : m \in new..Size /\ m # new /\ m \in Nodes
        /\ \A m \in new..Size : m = new \/ m \in old
        /\ \A m \in Nodes : m > new => m \in old
    BY <1>0
  <2> HIDE DEF new, old
  <2>3. more = [m \in new..Size |-> more[m]]
    OBVIOUS
  <2>4. more[new] = first /\ \A m \in old : more[m] = run[m]
    <3> HIDE DEF first
    <3> QED BY <2>2
  <2> HIDE DEF more
  <2>5. ASSUME NEW m \in new..Size PROVE more[m] = Named(m, more[Lowest(m)])
    <3>1. m \in Nodes
      BY <2>2
    <3>2. ToSet(Children(m)) # {} => Lowest(m) \in old
      <4>1. m = new \/ m > new
        BY <1>0, <2>2 DEF new
      <4>2. ToSet(Children(m)) # {} => Lowest(m) \in Nodes /\ Lowest(m) > m
        BY <3>1, LowestBehind
      <4>3. ToSet(Children(m)) # {} => Lowest(m) > new
        BY <1>0, <2>2, <3>1, <4>1, <4>2
      <4> QED BY <2>2, <4>2, <4>3
    <3>3. Named(m, more[Lowest(m)]) = Named(m, run[Lowest(m)])
      BY <2>4, <3>2, NamedAgrees
    <3>4. CASE m = new
      BY <2>4, <3>3, <3>4 DEF first
    <3>5. CASE m # new
      <4>1. m \in old
        BY <2>2, <3>5
      <4>2. run[m] = Named(m, run[Lowest(m)])
        BY <2>1, <4>1 DEF Names, old
      <4> QED BY <2>4, <3>3, <4>1, <4>2
    <3> QED BY <3>4, <3>5
  <2>6. Names(more, d)
    BY <2>3, <2>5 DEF Names, new
  <2> QED BY <1>0, <2>6
<1> HIDE DEF X
<1>3. Size \in X
  <2>1. \A d \in 0..Size : d \in X
    BY <1>0, <1>1, <1>2, EveryTurn
  <2> QED BY <1>0, <2>1
<1> QED BY <1>3 DEF X

\* recursive_fnc_name returns the name of a function or none.
LEMMA RecursiveName ==
    ASSUME IsTree(function.node), NEW n \in Nodes
    PROVE  recursive_fnc_name(n) \in Fn \cup {NoFn}
<1>0. Size \in Nat \ {0} /\ Nodes = 1..Size
  BY TreeNodes
<1>1. PICK run : Names(run, Size)
  BY NamesRun
<1>2. run = [m \in Nodes |-> Named(m, run[Lowest(m)])]
  <2>1. Size - Size + 1 = 1
    BY <1>0
  <2>2. run = [m \in Nodes |-> run[m]] /\ \A m \in Nodes : run[m] = Named(m, run[Lowest(m)])
    BY <1>0, <1>1, <2>1 DEF Names
  <2> QED BY <2>2
<1> DEFINE name == CHOOSE f : f = [m \in Nodes |-> NameBy(m, f)]
<1>3. name = [m \in Nodes |-> Named(m, name[Lowest(m)])]
  <2>1. \A f, m : NameBy(m, f) = Named(m, f[Lowest(m)])
    BY DEF NameBy, Named, Lowest
  <2>2. run = [m \in Nodes |-> NameBy(m, run)]
    BY <1>2, <2>1
  <2>3. name = [m \in Nodes |-> NameBy(m, name)]
    BY <2>2
  <2> HIDE DEF name
  <2> QED BY <2>1, <2>3
<1>4. recursive_fnc_name(n) = name[n]
  BY DEF recursive_fnc_name
<1> HIDE DEF name
<1> DEFINE X == {d \in 0..Size : \A m \in (Size - d + 1)..Size : name[m] \in Fn \cup {NoFn}}
<1>5. 0 \in X
  BY <1>0
<1>6. ASSUME NEW d \in 1..Size, d - 1 \in X PROVE d \in X
  <2> DEFINE new == Size - d + 1
  <2>1. /\ new \in Nodes
        /\ \A m \in Nodes : m > new => name[m] \in Fn \cup {NoFn}
        /\ \A m \in new..Size : m = new \/ (m > new /\ m \in Nodes)
    <3>1. \A m \in (Size - (d - 1) + 1)..Size : name[m] \in Fn \cup {NoFn}
      BY <1>6
    <3>2. \A m \in Nodes : m > new => m \in (Size - (d - 1) + 1)..Size
      BY <1>0
    <3> QED BY <1>0, <3>1, <3>2
  <2> HIDE DEF new
  <2>2. ToSet(Children(new)) # {} => name[Lowest(new)] \in Fn \cup {NoFn}
    BY <2>1, LowestBehind
  <2>3. name[new] \in Fn \cup {NoFn}
    <3>1. name[new] = Named(new, name[Lowest(new)])
      BY <1>3, <2>1
    <3> QED BY <2>1, <2>2, <3>1, NamedIsName
  <2>4. \A m \in new..Size : name[m] \in Fn \cup {NoFn}
    BY <2>1, <2>3
  <2> QED BY <1>0, <2>4 DEF new
<1> HIDE DEF X
<1>7. Size \in X
  <2>1. \A d \in 0..Size : d \in X
    BY <1>0, <1>5, <1>6, EveryTurn
  <2> QED BY <1>0, <2>1
<1>8. n \in (Size - Size + 1)..Size
  BY <1>0
<1> QED BY <1>4, <1>7, <1>8 DEF X

\* find_fnc_name returns the name of a function or none.
LEMMA FindName ==
    ASSUME IsTree(function.node), NEW n \in Nodes \cup {0}
    PROVE  find_fnc_name(n) \in Fn \cup {NoFn}
<1>1. n # 0 => recursive_fnc_name(n) \in Fn \cup {NoFn}
  BY RecursiveName
<1>2. n # 0 => Node(n).fn \in Fn \cup {NoFn}
  BY TreeNodes DEF NodeType
<1> QED BY <1>1, <1>2 DEF find_fnc_name

-----------------------------------------------------------------------------
(* Heads. *)

\* What is pushed for a branch is pushed once.
LEMMA HeadsOfBranch ==
    ASSUME NEW b \in Branches
    PROVE  /\ HeadsOf(b) \in Seq(HeadType) /\ IsInjective(HeadsOf(b))
           /\ \A h \in ToSet(HeadsOf(b)) : h.headStmt = b /\ h.type # "COND"
<1> DEFINE ret == [type |-> "RETURN", headStmt |-> b]
           jump == [type |-> "GOTO", headStmt |-> b]
           rets == IF Visit_return(b) THEN <<ret>> ELSE <<>>
           jumps == IF Visit_goto(b) THEN <<jump>> ELSE <<>>
<1>1. ret \in HeadType /\ jump \in HeadType /\ ret # jump
  BY DEF HeadType
<1>2. /\ ret.headStmt = b /\ jump.headStmt = b
      /\ ret.type # "COND" /\ jump.type # "COND"
  OBVIOUS
<1> HIDE DEF ret, jump
<1>3. rets \in Seq(HeadType) /\ ToSet(rets) \subseteq {ret} /\ IsInjective(rets)
  BY <1>1, Singleton, EmptyList
<1>4. jumps \in Seq(HeadType) /\ ToSet(jumps) \subseteq {jump} /\ IsInjective(jumps)
  BY <1>1, Singleton, EmptyList
<1>5. HeadsOf(b) = rets \o jumps
  BY DEF HeadsOf, ret, jump
<1> HIDE DEF rets, jumps
<1>6. ToSet(rets) \cap ToSet(jumps) = {}
  BY <1>1, <1>3, <1>4
<1>7. /\ rets \o jumps \in Seq(HeadType) /\ IsInjective(rets \o jumps)
      /\ ToSet(rets \o jumps) = ToSet(rets) \cup ToSet(jumps)
  BY <1>3, <1>4, <1>6, JoinHolds
<1>8. \A h \in ToSet(rets \o jumps) : h = ret \/ h = jump
  BY <1>3, <1>4, <1>7
<1> QED BY <1>2, <1>5, <1>7, <1>8

\* What is pushed for an if.
HeadsOfIf(i) ==
    (IF ByCondition(Child(i, 1)) THEN <<[type |-> "COND", headStmt |-> Child(i, 2)]>> ELSE <<>>) \o
    HeadsOf(Child(i, 2)) \o
    (IF Len(Children(i)) = 3 THEN HeadsOf(Child(i, 3)) ELSE <<>>)

\* It is pushed once, and nothing else for another if.
LEMMA HeadsOfIfOnce ==
    ASSUME IsTree(function.node), NEW i \in Nodes, Node(i).kind = "if"
    PROVE  /\ HeadsOfIf(i) \in Seq(HeadType) /\ IsInjective(HeadsOfIf(i))
           /\ \A h \in ToSet(HeadsOfIf(i)) : Up(h.headStmt) = i
<1> DEFINE then == Child(i, 2)
           else == Child(i, 3)
           cond == [type |-> "COND", headStmt |-> then]
           conds == IF ByCondition(Child(i, 1)) THEN <<cond>> ELSE <<>>
           elses == IF Len(Children(i)) = 3 THEN HeadsOf(else) ELSE <<>>
<1>1. Len(Children(i)) \in Nat /\ Len(Children(i)) >= 2
  BY IfHasTwo
<1>2. then \in Branches /\ Up(then) = i
  <2>1. 2 \in 1..Len(Children(i))
    BY <1>1
  <2>2. then \in Nodes \ {1} /\ Up(then) = i
    BY <2>1, ChildrenOf
  <2> QED BY <2>2 DEF Branches, Up
<1>3. Len(Children(i)) = 3 => else \in Branches /\ Up(else) = i /\ else # then
  <2>1. Len(Children(i)) = 3 => 2 \in 1..Len(Children(i)) /\ 3 \in 1..Len(Children(i))
    BY <1>1
  <2>2. Len(Children(i)) = 3 => else \in Nodes \ {1} /\ Up(else) = i
    BY <2>1, ChildrenOf
  <2>3. Len(Children(i)) = 3 => else # then
    BY <2>1, ChildrenOf
  <2> QED BY <2>2, <2>3 DEF Branches, Up
<1> HIDE DEF then, else
<1>4. cond \in HeadType /\ cond.headStmt = then /\ cond.type = "COND"
  BY <1>2 DEF HeadType
<1> HIDE DEF cond
<1>5. /\ conds \in Seq(HeadType) /\ IsInjective(conds)
      /\ \A h \in ToSet(conds) : h.headStmt = then /\ h.type = "COND"
  BY <1>4, Singleton, EmptyList
<1>6. /\ HeadsOf(then) \in Seq(HeadType) /\ IsInjective(HeadsOf(then))
      /\ \A h \in ToSet(HeadsOf(then)) : h.headStmt = then /\ h.type # "COND"
  BY <1>2, HeadsOfBranch
<1>7. /\ elses \in Seq(HeadType) /\ IsInjective(elses)
      /\ \A h \in ToSet(elses) : h.headStmt # then /\ Up(h.headStmt) = i
  BY <1>3, HeadsOfBranch, EmptyList
<1>8. HeadsOfIf(i) = conds \o HeadsOf(then) \o elses
  BY DEF HeadsOfIf, then, else, cond
<1> HIDE DEF conds, elses
<1>9. /\ conds \o HeadsOf(then) \in Seq(HeadType) /\ IsInjective(conds \o HeadsOf(then))
      /\ \A h \in ToSet(conds \o HeadsOf(then)) : h.headStmt = then
  <2>1. ToSet(conds) \cap ToSet(HeadsOf(then)) = {}
    BY <1>5, <1>6
  <2>2. /\ conds \o HeadsOf(then) \in Seq(HeadType) /\ IsInjective(conds \o HeadsOf(then))
        /\ ToSet(conds \o HeadsOf(then)) = ToSet(conds) \cup ToSet(HeadsOf(then))
    BY <1>5, <1>6, <2>1, JoinHolds
  <2> QED BY <1>5, <1>6, <2>2
<1> DEFINE thens == conds \o HeadsOf(then)
<1>10. /\ thens \in Seq(HeadType) /\ IsInjective(thens)
       /\ \A h \in ToSet(thens) : h.headStmt = then
  BY <1>9
<1>11. HeadsOfIf(i) = thens \o elses
  BY <1>8
<1> HIDE DEF thens
<1>12. ToSet(thens) \cap ToSet(elses) = {}
  BY <1>7, <1>10
<1>13. /\ thens \o elses \in Seq(HeadType) /\ IsInjective(thens \o elses)
       /\ ToSet(thens \o elses) = ToSet(thens) \cup ToSet(elses)
  BY <1>7, <1>10, <1>12, JoinHolds
<1>14. \A h \in ToSet(thens \o elses) : Up(h.headStmt) = i
  BY <1>2, <1>7, <1>10, <1>13
<1> QED BY <1>11, <1>13, <1>14

\* Nor is it for the same if.
LEMMA VisitPushes ==
    ASSUME IsTree(function.node), NEW S
    PROVE  LET ifs == InOrder({n \in Nodes : Node(n).kind = "if"})
               all == FlattenSeq([k \in DOMAIN ifs |-> HeadsOfIf(ifs[k])])
           IN  all \in Seq(HeadType) /\ IsInjective(all)
<1> DEFINE ifs == InOrder({n \in Nodes : Node(n).kind = "if"})
           ss == [k \in DOMAIN ifs |-> HeadsOfIf(ifs[k])]
<1>1. /\ ifs \in Seq(Nodes) /\ IsInjective(ifs)
      /\ ToSet(ifs) = Nodes \cap {n \in Nodes : Node(n).kind = "if"}
  BY InOrderLists
<1> HIDE DEF ifs
<1>2. \A k \in DOMAIN ifs : ifs[k] \in Nodes /\ Node(ifs[k]).kind = "if"
  BY <1>1 DEF ToSet
<1>3. DOMAIN ss = DOMAIN ifs /\ \A k \in DOMAIN ifs : ss[k] = HeadsOfIf(ifs[k])
  OBVIOUS
<1>4. ss \in Seq(Seq(HeadType))
  <2>1. \A k \in DOMAIN ifs : HeadsOfIf(ifs[k]) \in Seq(HeadType)
    BY <1>2, HeadsOfIfOnce
  <2>2. Len(ifs) \in Nat /\ DOMAIN ifs = 1..Len(ifs)
    BY <1>1, LenProperties
  <2>3. ss \in [1..Len(ifs) -> Seq(HeadType)]
    BY <2>1, <2>2
  <2> QED BY <2>2, <2>3, SeqDef
<1> HIDE DEF ss
<1>5. \A k \in DOMAIN ss : IsInjective(ss[k]) /\ \A h \in ToSet(ss[k]) : Up(h.headStmt) = ifs[k]
  BY <1>2, <1>3, HeadsOfIfOnce
<1>6. \A j, k \in DOMAIN ss : j # k => ToSet(ss[j]) \cap ToSet(ss[k]) = {}
  <2>1. \A j, k \in DOMAIN ss : j # k => ifs[j] # ifs[k]
    BY <1>1, <1>3 DEF IsInjective
  <2> QED BY <1>5, <2>1
<1>7. FlattenSeq(ss) \in Seq(HeadType) /\ IsInjective(FlattenSeq(ss))
  BY <1>4, <1>5, <1>6, FlattenHolds
<1> QED BY <1>7 DEF ss, ifs

-----------------------------------------------------------------------------
(* The handlers. *)

\* What only depends on the function does not change.
LEMMA SameFunction ==
    ASSUME function' = function
    PROVE  /\ Nodes' = Nodes /\ HeadType' = HeadType
           /\ IsTree(function.node)' = IsTree(function.node)
BY DEF Nodes, HeadType, Branches, Node, IsTree, IsPreorder, IsProgram, NodeType

\* A handler that is called once.
LEMMA AdvanceOnce ==
    ASSUME at \in Nat \ {0}, NEW next, Advance(1, next)
    PROVE  stage' = next /\ at' = 1
BY DEF Advance

\* The handlers that leave the heads alone.
LEMMA HeadsKept ==
    ASSUME HeadsInv, function' = function, heads' = heads, stage \notin Visiting
    PROVE  HeadsInv'
BY SameFunction DEF HeadsInv, IsInjective, ToSet

LEMMA Distinguish ==
    /\ Visiting = {"recursiveVisit_if", "ehc_head_clean_duplicates"}
    /\ Writing = {"find_pairs", "done"}
    /\ Stages = {"recursiveVisit_if", "ehc_head_clean_duplicates", "find_ehc_stmts",
                 "delete_printks", "handle_return", "find_ehc_new_stmts", "find_pairs", "done"}
BY DEF Visiting, Writing, Stages

\* Before lines are written there are none.
LEMMA NothingWritten ==
    ASSUME news' = <<>>, file' = <<>>, stage' \notin Writing
    PROVE  NewsInv' /\ FileInv'
<1>1. \A T : <<>> \in Seq(T)
  OBVIOUS
<1>2. ToSet(<<>>) = {} /\ DOMAIN (<<>>) = {}
  BY DEF ToSet
<1>3. stage' \notin Writing'
  BY DEF Writing
<1>4. stage' # "find_pairs"
  BY DEF Writing
<1>5. NewsInv'
  BY <1>1, <1>2, <1>3, <1>4 DEF NewsInv
<1>6. FileInv'
  BY <1>1, <1>2, <1>3 DEF FileInv
<1> QED BY <1>5, <1>6

\* recursiveVisit_if pushes what it finds.
LEMMA VisitStep ==
    ASSUME DInv, recursiveVisit_if
    PROVE  DInv'
<1>1. /\ IsTree(function.node) /\ at \in Nat \ {0} /\ function' = function
      /\ EHCs' = EHCs /\ news' = news /\ file' = file
      /\ stage = "recursiveVisit_if" /\ Advance(1, "ehc_head_clean_duplicates")
  BY DEF DInv, recursiveVisit_if
<1>2. stage' = "ehc_head_clean_duplicates" /\ at' = 1
  BY <1>1, AdvanceOnce
<1>3. heads' \in Seq(HeadType) /\ IsInjective(heads')
  <2>1. LET ifs == InOrder({n \in Nodes : Node(n).kind = "if"})
        IN  heads' = FlattenSeq([k \in DOMAIN ifs |-> HeadsOfIf(ifs[k])])
    BY DEF recursiveVisit_if, HeadsOfIf
  <2> QED BY <1>1, <2>1, VisitPushes
<1>4. EHCs = <<>> /\ news = <<>> /\ file = <<>>
  BY <1>1, Distinguish DEF DInv, BlocksInv, NewsInv, FileInv
<1>5. HeadsInv'
  BY <1>1, <1>2, <1>3, SameFunction DEF HeadsInv, Visiting
<1>6. BlocksInv'
  <2>1. EHCs' \in Seq(Seq(Nodes')) /\ Len(EHCs') = 0 /\ DOMAIN EHCs' = {}
    BY <1>1, <1>4
  <2>2. Len(heads') \in Nat
    BY <1>3, LenProperties
  <2> QED BY <1>1, <1>2, <1>4, <2>1, <2>2 DEF BlocksInv
<1>7. NewsInv' /\ FileInv'
  BY <1>1, <1>2, <1>4, NothingWritten, Distinguish
<1>8. IsTree(function.node)' /\ stage' \in Stages' /\ at' \in Nat \ {0}
  BY <1>1, <1>2, SameFunction DEF Stages
<1> QED BY <1>5, <1>6, <1>7, <1>8 DEF DInv

\* ehc_head_clean_duplicates leaves one head for a branch that is counted twice.
LEMMA CleanStep ==
    ASSUME DInv, ehc_head_clean_duplicates
    PROVE  DInv'
<1> DEFINE S == {h \in ToSet(heads) : Kept(h)}
<1>1. /\ IsTree(function.node) /\ at \in Nat \ {0} /\ function' = function
      /\ EHCs' = EHCs /\ news' = news /\ file' = file /\ heads' = Keep(heads, S)
      /\ stage = "ehc_head_clean_duplicates" /\ Advance(1, "find_ehc_stmts")
  BY DEF DInv, ehc_head_clean_duplicates
<1>2. stage' = "find_ehc_stmts" /\ at' = 1
  BY <1>1, AdvanceOnce
<1>3. heads \in Seq(HeadType) /\ IsInjective(heads)
  BY DEF DInv, HeadsInv
<1>4. heads' \in Seq(HeadType) /\ ToSet(heads') = ToSet(heads) \cap S /\ IsInjective(heads')
  <2> HIDE DEF S
  <2> QED BY <1>1, <1>3, KeepElements, KeepInjective
<1>5. EHCs = <<>> /\ news = <<>> /\ file = <<>>
  BY <1>1, Distinguish DEF DInv, BlocksInv, NewsInv, FileInv
<1>6. ASSUME NEW h \in ToSet(heads'), NEW g \in ToSet(heads'), h # g, h.headStmt = g.headStmt
      PROVE  h.type # "COND"
  <2>1. h \in HeadType /\ g \in HeadType
    BY <1>4 DEF ToSet
  <2>2. Kept(h) /\ g \in ToSet(heads)
    BY <1>4
  <2>3. h.type = "COND" => g.type # "COND"
    BY <1>6, <2>1 DEF HeadType
  <2> QED BY <1>6, <2>2, <2>3 DEF Kept
<1>7. HeadsInv'
  BY <1>1, <1>4, <1>6, SameFunction DEF HeadsInv, ToSet, IsInjective
<1>8. BlocksInv'
  <2>1. EHCs' \in Seq(Seq(Nodes')) /\ Len(EHCs') = 0 /\ EHCs' = <<>> /\ DOMAIN EHCs' = {}
    BY <1>1, <1>5
  <2>2. Len(heads') \in Nat /\ (heads' # <<>> => Len(heads') >= 1)
    BY <1>4, LenProperties, EmptySeq
  <2> QED BY <1>2, <2>1, <2>2 DEF BlocksInv
<1>9. NewsInv' /\ FileInv'
  BY <1>1, <1>2, <1>5, NothingWritten, Distinguish
<1>10. IsTree(function.node)' /\ stage' \in Stages' /\ at' \in Nat \ {0}
  BY <1>1, <1>2, SameFunction DEF Stages
<1> QED BY <1>7, <1>8, <1>9, <1>10 DEF DInv

\* A statement is below the body, or below its label.
LEMMA UnlabelledUp ==
    ASSUME IsTree(function.node), NEW n \in Nodes
    PROVE  IF Node(n).kind = "label" THEN Unlabelled(n) \in Nodes \ {1} /\ Up(Unlabelled(n)) = n
           ELSE Unlabelled(n) = n
<1>1. CASE Node(n).kind = "label"
  <2>1. n + 1 \in Nodes \ {1} /\ Up(n + 1) = n
    BY <1>1, TreeNodes, TreeShape
  <2>2. n + 1 \in ToSet(Children(n)) /\ Children(n) \in Seq(Nodes)
    BY <2>1, ChildrenOf
  <2>3. Len(Children(n)) \in Nat /\ DOMAIN Children(n) = 1..Len(Children(n))
    BY <2>2, LenProperties
  <2>4. 1 \in 1..Len(Children(n))
    BY <2>2, <2>3 DEF ToSet
  <2> QED BY <1>1, <2>4, ChildrenOf DEF Unlabelled
<1>2. CASE Node(n).kind # "label"
  BY <1>2 DEF Unlabelled
<1> QED BY <1>1, <1>2

\* A statement without its label is a node.
LEMMA UnlabelledNode ==
    ASSUME IsTree(function.node), NEW n \in Nodes
    PROVE  Unlabelled(n) \in Nodes
BY UnlabelledUp

\* Behind a label, no statement stands twice, and none of a branch.
LEMMA BehindOnce ==
    ASSUME IsTree(function.node), NEW l, NEW b \in Branches
    PROVE  LET path == InOrder(Resolve(l))
               behind == [k \in DOMAIN path |-> Unlabelled(path[k])]
           IN  behind \in Seq(Nodes) /\ IsInjective(behind) /\ ToSet(behind) \cap ToSet(Children(b)) = {}
<1> DEFINE path == InOrder(Resolve(l))
           behind == [k \in DOMAIN path |-> Unlabelled(path[k])]
<1>1. path \in Seq(Nodes) /\ ToSet(path) = Nodes \cap Resolve(l) /\ IsInjective(path)
  BY InOrderLists
<1>2. \A n \in Resolve(l) : n \in Nodes \ {1} /\ Up(n) = 1
  BY ChildrenOf DEF Resolve
<1> HIDE DEF path
<1>3. Len(path) \in Nat /\ DOMAIN path = 1..Len(path)
  BY <1>1, LenProperties
<1>4. \A k \in DOMAIN path : path[k] \in Nodes \ {1} /\ Up(path[k]) = 1
  <2>1. \A k \in DOMAIN path : path[k] \in ToSet(path)
    BY DEF ToSet
  <2> QED BY <1>1, <1>2, <2>1
<1>5. behind \in Seq(Nodes)
  <2>1. behind \in [1..Len(path) -> Nodes]
    BY <1>3, <1>4, UnlabelledNode
  <2> QED BY <1>3, <2>1, SeqDef
<1>6. ASSUME NEW n \in Nodes \ {1}, Up(n) = 1, NEW m \in Nodes \ {1}, Up(m) = 1,
             Unlabelled(n) = Unlabelled(m)
      PROVE  n = m
  <2>1. IF Node(n).kind = "label" THEN Up(Unlabelled(n)) = n ELSE Unlabelled(n) = n
    BY UnlabelledUp
  <2>2. IF Node(m).kind = "label" THEN Up(Unlabelled(m)) = m ELSE Unlabelled(m) = m
    BY UnlabelledUp
  <2> QED BY <1>6, <2>1, <2>2
<1>7. IsInjective(behind)
  <2>1. ASSUME NEW j \in DOMAIN path, NEW k \in DOMAIN path, Unlabelled(path[j]) = Unlabelled(path[k])
        PROVE  j = k
    <3>1. path[j] = path[k]
      BY <1>4, <1>6, <2>1
    <3> QED BY <1>1, <3>1 DEF IsInjective
  <2>2. DOMAIN behind = DOMAIN path /\ \A k \in DOMAIN path : behind[k] = Unlabelled(path[k])
    OBVIOUS
  <2> HIDE DEF behind
  <2> QED BY <2>1, <2>2 DEF IsInjective
<1>8. b \in Nodes \ {1} /\ Node(Up(b)).kind = "if" /\ Node(1).kind = "block"
  BY TreeNodes DEF Branches, Up
<1>9. ASSUME NEW n \in Nodes \ {1}, Up(n) = 1 PROVE Unlabelled(n) \notin ToSet(Children(b))
  <2>1. SUFFICES ASSUME Unlabelled(n) \in ToSet(Children(b)) PROVE FALSE
    OBVIOUS
  <2>2. Up(Unlabelled(n)) = b
    BY <2>1, ChildrenOf
  <2>3. CASE Node(n).kind = "label"
    <3>1. n = b
      BY <2>2, <2>3, UnlabelledUp
    <3> QED BY <1>8, <1>9, <3>1
  <2>4. CASE Node(n).kind # "label"
    <3>1. b = 1
      BY <1>9, <2>2, <2>4, UnlabelledUp
    <3> QED BY <1>8, <3>1
  <2> QED BY <2>3, <2>4
<1>10. ToSet(behind) = {Unlabelled(n) : n \in ToSet(path)}
  BY DEF ToSet
<1>11. ToSet(behind) \cap ToSet(Children(b)) = {}
  <2>1. \A n \in ToSet(path) : n \in Nodes \ {1} /\ Up(n) = 1
    BY <1>1, <1>2
  <2> QED BY <1>9, <1>10, <2>1
<1> QED BY <1>5, <1>7, <1>11 DEF path

\* What find_ehc_stmts collects for a block are nodes, each of them once.
LEMMA Collected ==
    ASSUME DInv, find_ehc_stmts, heads # <<>>
    PROVE  \E stmts \in Seq(Nodes) : EHCs' = Append(EHCs, stmts) /\ IsInjective(stmts)
<1>1. IsTree(function.node) /\ stage = "find_ehc_stmts"
  BY DEF DInv, find_ehc_stmts
<1> DEFINE inside == Children(heads[at].headStmt)
           gotos  == Keep(inside, Gotos)
           labels == IF gotos = <<>> THEN {0} \cup labelstm ELSE LabelOf(Last(gotos))
           Path(l) == InOrder(Resolve(l))
           Behind(l) == [k \in DOMAIN Path(l) |-> Unlabelled(Path(l)[k])]
           own == Keep(inside, Nodes \ Gotos)
<1>2. inside \in Seq(Nodes) /\ IsInjective(inside)
  BY <1>1, ChildrenOf
<1>3. own \in Seq(Nodes) /\ IsInjective(own) /\ ToSet(own) \subseteq ToSet(inside)
  <2> HIDE DEF inside
  <2> QED BY <1>2, KeepElements, KeepInjective
<1>4. heads[at].headStmt \in Branches
  <2>1. heads \in Seq(HeadType) /\ at \in Nat \ {0} /\ at <= Len(heads)
    BY <1>1 DEF DInv, HeadsInv, BlocksInv
  <2>2. at \in 1..Len(heads)
    BY <2>1, LenProperties
  <2>3. heads[at] \in HeadType
    BY <2>1, <2>2, ElementOfSeq
  <2> QED BY <2>3 DEF HeadType
<1>5. ASSUME NEW l
      PROVE  Behind(l) \in Seq(Nodes) /\ IsInjective(Behind(l)) /\ ToSet(Behind(l)) \cap ToSet(inside) = {}
  <2>1. PICK b \in Branches : b = heads[at].headStmt
    BY <1>4
  <2> QED BY <1>1, <2>1, BehindOnce
<1>6. CASE heads[at].type = "GOTO"
  <2>1. PICK l \in labels : EHCs' = Append(EHCs, own \o (IF l = 0 THEN <<>> ELSE Behind(l)))
    BY <1>6 DEF find_ehc_stmts
  <2> HIDE DEF own, Behind
  <2> DEFINE behind == IF l = 0 THEN <<>> ELSE Behind(l)
  <2>2. /\ behind \in Seq(Nodes) /\ IsInjective(behind)
        /\ ToSet(behind) \cap ToSet(inside) = {}
    BY <1>5, EmptyList
  <2> HIDE DEF behind, inside
  <2>3. ToSet(own) \cap ToSet(behind) = {}
    BY <1>3, <2>2
  <2>4. own \o behind \in Seq(Nodes) /\ IsInjective(own \o behind)
    BY <1>3, <2>2, <2>3, JoinHolds
  <2> QED BY <2>1, <2>4 DEF behind
<1>7. CASE heads[at].type # "GOTO"
  <2>1. EHCs' = Append(EHCs, inside)
    BY <1>7 DEF find_ehc_stmts
  <2> QED BY <1>2, <2>1
<1> QED BY <1>6, <1>7

\* find_ehc_stmts collects the statements of one block after the other.
LEMMA CollectStep ==
    ASSUME DInv, find_ehc_stmts
    PROVE  DInv'
<1>1. /\ IsTree(function.node) /\ at \in Nat \ {0} /\ function' = function
      /\ heads' = heads /\ news' = news /\ file' = file
      /\ stage = "find_ehc_stmts" /\ Advance(Len(heads), "delete_printks")
  BY DEF DInv, find_ehc_stmts
<1>2. HeadsInv' /\ stage \notin Visiting
  BY <1>1, HeadsKept, Distinguish DEF DInv
<1>3. heads \in Seq(HeadType) /\ Len(heads) \in Nat /\ EHCs \in Seq(Seq(Nodes))
  BY LenProperties DEF DInv, HeadsInv, BlocksInv
<1>4. news = <<>> /\ file = <<>>
  BY <1>1, Distinguish DEF DInv, NewsInv, FileInv
<1>5. \/ at < Len(heads) /\ stage' = stage /\ at' = at + 1
      \/ ~(at < Len(heads)) /\ stage' = "delete_printks" /\ at' = 1
  BY <1>1 DEF Advance
<1>6. stage' \in Stages /\ stage' \notin Visiting /\ stage' \notin Writing /\ at' \in Nat \ {0}
  BY <1>1, <1>5, Distinguish
<1>7. CASE heads = <<>>
  <2>1. EHCs' = EHCs
    BY <1>7 DEF find_ehc_stmts
  <2>2. BlocksInv'
    BY <1>1, <1>2, <1>3, <1>6, <1>7, <2>1, SameFunction DEF DInv, BlocksInv, Visiting
  <2> QED BY <1>1, <1>2, <1>4, <1>6, <2>2, NothingWritten, SameFunction DEF DInv, Stages
<1>8. CASE heads # <<>>
  <2>1. PICK stmts \in Seq(Nodes) : EHCs' = Append(EHCs, stmts) /\ IsInjective(stmts)
    BY <1>8, Collected
  <2>2. EHCs' \in Seq(Seq(Nodes)) /\ Len(EHCs') = Len(EHCs) + 1
    BY <1>3, <2>1, AppendProperties
  <2>3. Len(EHCs) = at - 1 /\ at <= Len(heads)
    BY <1>1, <1>8 DEF DInv, BlocksInv
  <2>4. Len(EHCs') = at
    BY <1>1, <2>2, <2>3
  <2>5. BlocksInv'
    <3>1. stage' = "find_ehc_stmts" => Len(EHCs') = at' - 1 /\ at' <= Len(heads')
      BY <1>1, <1>3, <1>5, <2>4
    <3>2. stage' \notin Visiting'
      BY <1>6 DEF Visiting
    <3>3. EHCs' \in Seq(Seq(Nodes'))
      BY <1>1, <2>2, SameFunction
    <3>4. Len(EHCs') <= Len(heads')
      BY <1>1, <2>3, <2>4
    <3>5. ASSUME NEW k \in DOMAIN EHCs' PROVE IsInjective(EHCs'[k])
      <4>1. DOMAIN EHCs' = 1..at /\ DOMAIN EHCs = 1..(at - 1)
        BY <1>3, <2>2, <2>3, <2>4, LenProperties
      <4>2. EHCs'[at] = stmts /\ \A j \in 1..(at - 1) : EHCs'[j] = EHCs[j]
        <5>1. Len(EHCs) = at - 1 /\ at \in Nat
          BY <1>1, <2>3
        <5>2. /\ \A j \in 1..Len(EHCs) : EHCs'[j] = EHCs[j]
              /\ EHCs'[Len(EHCs) + 1] = stmts
          BY <1>3, <2>1, AppendProperties
        <5>3. Len(EHCs) + 1 = at
          BY <5>1
        <5> QED BY <5>1, <5>2, <5>3
      <4>3. \A j \in 1..(at - 1) : IsInjective(EHCs[j])
        BY <4>1 DEF DInv, BlocksInv
      <4>4. k = at \/ k \in 1..(at - 1)
        BY <1>1, <4>1
      <4> QED BY <2>1, <4>2, <4>3, <4>4
    <3>6. \A k \in DOMAIN EHCs' : IsInjective(EHCs[k])'
      BY <3>5 DEF IsInjective
    <3> QED BY <3>1, <3>2, <3>3, <3>4, <3>6 DEF BlocksInv
  <2> QED BY <1>1, <1>2, <1>4, <1>6, <2>5, NothingWritten, SameFunction DEF DInv, Stages
<1> QED BY <1>7, <1>8

\* The filters of the blocks: a list of what they leave of each.
LEMMA FilteredBlocks ==
    ASSUME DInv, function' = function, heads' = heads, news' = news, file' = file, NEW left,
           EHCs' = [k \in DOMAIN EHCs |-> Keep(EHCs[k], left[k])],
           stage \notin Visiting \cup Writing, stage' \in Stages \ (Visiting \cup Writing),
           stage' # "find_ehc_stmts", at' = 1
    PROVE  DInv'
<1>1. EHCs \in Seq(Seq(Nodes)) /\ Len(EHCs) <= Len(heads)
  BY DEF DInv, BlocksInv
<1>2. Len(EHCs) \in Nat /\ DOMAIN EHCs = 1..Len(EHCs)
  BY <1>1, LenProperties
<1>3. \A k \in DOMAIN EHCs : Keep(EHCs[k], left[k]) \in Seq(Nodes)
  <2>1. \A k \in DOMAIN EHCs : EHCs[k] \in Seq(Nodes)
    BY <1>1, <1>2, ElementOfSeq
  <2> QED BY <2>1, KeepElements
<1>4. EHCs' \in [1..Len(EHCs) -> Seq(Nodes)]
  BY <1>2, <1>3
<1>5. EHCs' \in Seq(Seq(Nodes)) /\ Len(EHCs') = Len(EHCs)
  <2>1. EHCs' \in Seq(Seq(Nodes))
    BY <1>2, <1>4, SeqDef
  <2>2. DOMAIN EHCs' = 1..Len(EHCs) /\ DOMAIN EHCs' = 1..Len(EHCs') /\ Len(EHCs') \in Nat
    BY <1>4, <2>1, LenProperties
  <2> QED BY <1>2, <2>1, <2>2
<1>6. BlocksInv'
  <2>1. stage' \notin Visiting'
    BY DEF Visiting
  <2>2. \A k \in DOMAIN EHCs : EHCs[k] \in Seq(Nodes) /\ IsInjective(EHCs[k])
    BY <1>1, <1>2, ElementOfSeq DEF DInv, BlocksInv
  <2>3. \A k \in DOMAIN EHCs : IsInjective(Keep(EHCs[k], left[k]))
    BY <2>2, KeepInjective
  <2>4. DOMAIN EHCs' = DOMAIN EHCs /\ \A k \in DOMAIN EHCs : EHCs'[k] = Keep(EHCs[k], left[k])
    OBVIOUS
  <2>5. \A k \in DOMAIN EHCs' : IsInjective(EHCs[k])'
    BY <2>3, <2>4 DEF IsInjective
  <2> QED BY <1>1, <1>5, <2>1, <2>5, SameFunction DEF BlocksInv
<1>7. HeadsInv'
  BY HeadsKept DEF DInv
<1>8. news = <<>> /\ file = <<>>
  BY DEF DInv, NewsInv, FileInv
<1>9. NewsInv' /\ FileInv'
  BY <1>8, NothingWritten
<1>10. IsTree(function.node)' /\ stage' \in Stages' /\ at' \in Nat \ {0}
  BY SameFunction DEF DInv, Stages
<1> QED BY <1>6, <1>7, <1>9, <1>10 DEF DInv

\* delete_printks is one,
LEMMA DeleteStep ==
    ASSUME DInv, delete_printks
    PROVE  DInv'
<1>1. /\ at \in Nat \ {0} /\ function' = function /\ heads' = heads /\ news' = news /\ file' = file
      /\ stage = "delete_printks" /\ Advance(1, "handle_return")
      /\ EHCs' = [k \in DOMAIN EHCs |-> Keep(EHCs[k], {n \in ToSet(EHCs[k]) : ~Deleted(n)})]
  BY DEF DInv, delete_printks
<1>2. stage' = "handle_return" /\ at' = 1
  BY <1>1, AdvanceOnce
<1> DEFINE left == [k \in DOMAIN EHCs |-> {n \in ToSet(EHCs[k]) : ~Deleted(n)}]
<1>3. EHCs' = [k \in DOMAIN EHCs |-> Keep(EHCs[k], left[k])]
  BY <1>1
<1>4. /\ stage \notin Visiting \cup Writing /\ stage' # "find_ehc_stmts"
      /\ stage' \in Stages \ (Visiting \cup Writing)
  BY <1>1, <1>2, Distinguish
<1> HIDE DEF left
<1> QED BY <1>1, <1>2, <1>3, <1>4, FilteredBlocks

\* and handle_return is another.
LEMMA ReturnStep ==
    ASSUME DInv, handle_return
    PROVE  DInv'
<1>1. /\ at \in Nat \ {0} /\ function' = function /\ heads' = heads /\ news' = news /\ file' = file
      /\ stage = "handle_return" /\ Advance(1, "find_ehc_new_stmts")
      /\ EHCs' = [k \in DOMAIN EHCs |-> Keep(EHCs[k], {n \in ToSet(EHCs[k]) :
                      Node(n).kind # "return" /\ ~ReturnValue(ToSet(EHCs[k]), n)})]
  BY DEF DInv, handle_return
<1>2. stage' = "find_ehc_new_stmts" /\ at' = 1
  BY <1>1, AdvanceOnce
<1> DEFINE left == [k \in DOMAIN EHCs |-> {n \in ToSet(EHCs[k]) :
                      Node(n).kind # "return" /\ ~ReturnValue(ToSet(EHCs[k]), n)}]
<1>3. EHCs' = [k \in DOMAIN EHCs |-> Keep(EHCs[k], left[k])]
  BY <1>1
<1>4. /\ stage \notin Visiting \cup Writing /\ stage' # "find_ehc_stmts"
      /\ stage' \in Stages \ (Visiting \cup Writing)
  BY <1>1, <1>2, Distinguish
<1> HIDE DEF left
<1> QED BY <1>1, <1>2, <1>3, <1>4, FilteredBlocks

\* The lines that are written do not disturb what they are written from.
LEMMA BlocksKept ==
    ASSUME DInv, function' = function, heads' = heads, EHCs' = EHCs,
           stage \notin Visiting, stage' \in Writing
    PROVE  BlocksInv'
<1>1. stage' \notin Visiting' /\ stage' # "find_ehc_stmts"
  BY Distinguish DEF Visiting
<1>2. \A k \in DOMAIN EHCs' : IsInjective(EHCs[k])'
  BY DEF DInv, BlocksInv, IsInjective
<1> QED BY <1>1, <1>2, SameFunction DEF DInv, BlocksInv

\* A new statement is one of a block, and all blocks before it are empty.
LEMMA NewOfBlock ==
    ASSUME DInv, NEW k \in DOMAIN EHCs
    PROVE  LET new == Keep(EHCs[k], {n \in ToSet(EHCs[k]) : IsNew(k, n)})
               all == [j \in DOMAIN new |-> [ehc |-> k, stmt |-> new[j]]]
           IN  /\ all \in Seq(NewType) /\ IsInjective(all)
               /\ \A r \in ToSet(all) :
                     r.ehc = k /\ r.stmt \in ToSet(EHCs[k]) /\ AllBeforeEmpty(k)
<1> DEFINE S == {n \in ToSet(EHCs[k]) : IsNew(k, n)}
           new == Keep(EHCs[k], S)
           all == [j \in DOMAIN new |-> [ehc |-> k, stmt |-> new[j]]]
<1>1. EHCs[k] \in Seq(Nodes) /\ IsInjective(EHCs[k])
  BY LenProperties, ElementOfSeq DEF DInv, BlocksInv
<1>2. new \in Seq(Nodes) /\ ToSet(new) = ToSet(EHCs[k]) \cap S /\ IsInjective(new)
  <2> HIDE DEF S
  <2> QED BY <1>1, KeepElements, KeepInjective
<1>3. ToSet(new) # {} => AllBeforeEmpty(k)
  BY <1>2 DEF IsNew, AllBeforeEmpty
<1> HIDE DEF new
<1>4. Len(new) \in Nat /\ DOMAIN new = 1..Len(new) /\ \A j \in DOMAIN new : new[j] \in Nodes
  BY <1>2, LenProperties, ElementOfSeq
<1>5. \A j \in DOMAIN new : [ehc |-> k, stmt |-> new[j]] \in NewType
  BY <1>4 DEF NewType
<1>6. all \in [1..Len(new) -> NewType]
  BY <1>4, <1>5
<1>7. all \in Seq(NewType)
  BY <1>4, <1>6, SeqDef
<1>8. \A r \in ToSet(all) : r.ehc = k /\ r.stmt \in ToSet(new)
  BY <1>4 DEF ToSet
<1>9. \A r \in ToSet(all) : r.ehc = k /\ r.stmt \in ToSet(EHCs[k]) /\ AllBeforeEmpty(k)
  BY <1>2, <1>3, <1>8
<1>10. IsInjective(all)
  <2>1. \A i, j \in DOMAIN new : new[i] = new[j] => i = j
    BY <1>2 DEF IsInjective
  <2> QED BY <2>1 DEF IsInjective
<1> QED BY <1>7, <1>9, <1>10 DEF new

\* find_ehc_new_stmts lists them.
LEMMA NewStep ==
    ASSUME DInv, find_ehc_new_stmts
    PROVE  DInv'
<1> DEFINE New(k) == Keep(EHCs[k], {n \in ToSet(EHCs[k]) : IsNew(k, n)})
           All(k) == [j \in DOMAIN New(k) |-> [ehc |-> k, stmt |-> New(k)[j]]]
           ss == [k \in DOMAIN EHCs |-> All(k)]
<1>1. /\ at \in Nat \ {0} /\ function' = function /\ heads' = heads /\ EHCs' = EHCs
      /\ file' = file /\ stage = "find_ehc_new_stmts" /\ Advance(1, "find_pairs")
      /\ news' = FlattenSeq(ss)
  BY DEF DInv, find_ehc_new_stmts
<1>2. stage' = "find_pairs" /\ at' = 1
  BY <1>1, AdvanceOnce
<1>3. \A k \in DOMAIN EHCs :
          /\ All(k) \in Seq(NewType) /\ IsInjective(All(k))
          /\ \A r \in ToSet(All(k)) : r.ehc = k /\ r.stmt \in ToSet(EHCs[k]) /\ AllBeforeEmpty(k)
  BY NewOfBlock
<1> HIDE DEF All
<1>4. Len(EHCs) \in Nat /\ DOMAIN EHCs = 1..Len(EHCs)
  BY LenProperties DEF DInv, BlocksInv
<1>5. ss \in Seq(Seq(NewType))
  <2>1. ss \in [1..Len(EHCs) -> Seq(NewType)]
    BY <1>3, <1>4
  <2> QED BY <1>4, <2>1, SeqDef
<1>6. DOMAIN ss = DOMAIN EHCs /\ \A k \in DOMAIN EHCs : ss[k] = All(k)
  OBVIOUS
<1> HIDE DEF ss
<1>7. /\ news' \in Seq(NewType) /\ ToSet(news') = UNION {ToSet(ss[k]) : k \in DOMAIN ss}
      /\ IsInjective(news')
  <2>1. \A k \in DOMAIN ss : IsInjective(ss[k])
    BY <1>3, <1>6
  <2>2. \A j, k \in DOMAIN ss : j # k => ToSet(ss[j]) \cap ToSet(ss[k]) = {}
    BY <1>3, <1>6
  <2> QED BY <1>1, <1>5, <2>1, <2>2, FlattenHolds
<1>8. \A r \in ToSet(news') : r.stmt \in ToSet(EHCs[r.ehc]) /\ AllBeforeEmpty(r.ehc)
  BY <1>3, <1>6, <1>7
<1>9. ASSUME NEW i \in DOMAIN news', NEW j \in DOMAIN news', news'[i].stmt = news'[j].stmt
      PROVE  i = j
  <2>1. /\ news'[i] \in NewType /\ news'[j] \in NewType
        /\ news'[i] \in ToSet(news') /\ news'[j] \in ToSet(news')
    BY <1>7, LenProperties, ElementOfSeq DEF ToSet
  <2>2. PICK r \in NewType : r = news'[i]
    BY <2>1
  <2>3. PICK q \in NewType : q = news'[j]
    BY <2>1
  <2>4. /\ r.stmt \in ToSet(EHCs[r.ehc]) /\ AllBeforeEmpty(r.ehc) /\ r.ehc \in 1..Len(EHCs)
        /\ q.stmt \in ToSet(EHCs[q.ehc]) /\ AllBeforeEmpty(q.ehc) /\ q.ehc \in 1..Len(EHCs)
        /\ r.stmt = q.stmt
    BY <1>4, <1>8, <1>9, <2>1, <2>2, <2>3 DEF NewType
  <2>5. r.ehc = q.ehc
    <3>1. EHCs[r.ehc] # <<>> /\ EHCs[q.ehc] # <<>>
      <4>1. ToSet(<<>>) = {}
        BY DEF ToSet
      <4> QED BY <2>4, <4>1
    <3>2. ~(r.ehc < q.ehc) /\ ~(q.ehc < r.ehc)
      BY <1>4, <2>4, <3>1 DEF AllBeforeEmpty
    <3> QED BY <1>4, <2>4, <3>2
  <2>6. r = q
    BY <2>4, <2>5 DEF NewType
  <2> QED BY <1>7, <2>2, <2>3, <2>6 DEF IsInjective
<1>10. NewType' = NewType /\ \A k : AllBeforeEmpty(k)' = AllBeforeEmpty(k)
  BY <1>1, SameFunction DEF NewType, AllBeforeEmpty
<1>11. NewsInv'
  <2>1. stage' \in Writing'
    BY <1>2 DEF Writing
  <2>2. \A r \in ToSet(news)' : AllBeforeEmpty(r.ehc)'
    BY <1>8, <1>10 DEF ToSet
  <2>3. news' # <<>> => at' <= Len(news')
    BY <1>2, <1>7, EmptySeq
  <2> QED BY <1>7, <1>10, <1>9, <2>1, <2>2, <2>3 DEF NewsInv
<1>12. FileInv'
  <2>1. file = <<>>
    BY <1>1, Distinguish DEF DInv, FileInv
  <2>2. \A T : <<>> \in Seq(T)
    OBVIOUS
  <2>3. ToSet(<<>>) = {} /\ DOMAIN (<<>>) = {}
    BY DEF ToSet
  <2> QED BY <1>1, <2>1, <2>2, <2>3 DEF FileInv, ToSet
<1>13. stage \notin Visiting /\ stage' \in Writing /\ stage' \in Stages
  BY <1>1, <1>2, Distinguish
<1>14. HeadsInv' /\ BlocksInv'
  BY <1>1, <1>13, HeadsKept, BlocksKept DEF DInv
<1>15. IsTree(function.node)' /\ stage' \in Stages' /\ at' \in Nat \ {0}
  BY <1>1, <1>2, <1>13, SameFunction DEF DInv, Stages
<1> QED BY <1>11, <1>12, <1>14, <1>15 DEF DInv

\* A line that find_pairs writes is about the statement whose turn it is, and about
\* a call before its branch.
LEMMA WritesLine ==
    ASSUME DInv, find_pairs, file' # file
    PROVE  \E line \in LineType :
              /\ file' = Append(file, line) /\ line.stmt = news[at].stmt /\ at \in DOMAIN news
              /\ line.node # 0 => line.node < heads[line.ehc].headStmt
<1>1. IsTree(function.node) /\ stage = "find_pairs" /\ news # <<>> /\ at \in Nat \ {0}
  BY DEF DInv, find_pairs
<1>2. news \in Seq(NewType) /\ at <= Len(news)
  BY <1>1 DEF DInv, NewsInv
<1>3. at \in DOMAIN news /\ at \in 1..Len(news)
  BY <1>1, <1>2, LenProperties
<1> DEFINE k == news[at].ehc
           u == news[at].stmt
           pair == PairOf(u, {n \in Nodes : Window(k, n)})
           line == [ehc |-> k, stmt |-> u, node |-> pair,
                    undo |-> find_fnc_name(u), pair |-> find_fnc_name(pair)]
<1>4. file' = Append(file, line) /\ find_fnc_name(u) # NoFn
  BY <1>1 DEF find_pairs
<1>5. k \in DOMAIN EHCs /\ u \in Nodes /\ u = news[at].stmt
  <2>1. news[at] \in NewType
    BY <1>2, <1>3, ElementOfSeq
  <2> QED BY <2>1 DEF NewType
<1>6. heads[k].headStmt \in Nodes
  <2>1. /\ heads \in Seq(HeadType) /\ EHCs \in Seq(Seq(Nodes)) /\ Len(EHCs) <= Len(heads)
    BY DEF DInv, HeadsInv, BlocksInv
  <2>2. k \in 1..Len(heads)
    <3>1. Len(heads) \in Nat /\ Len(EHCs) \in Nat /\ DOMAIN EHCs = 1..Len(EHCs)
      BY <2>1, LenProperties
    <3> HIDE DEF k
    <3> QED BY <1>5, <2>1, <3>1
  <2>3. heads[k] \in HeadType
    BY <2>1, <2>2, ElementOfSeq
  <2> QED BY <2>3 DEF HeadType, Branches
<1> HIDE DEF k, u
<1>7. pair \in Nodes \cup {0} /\ (pair # 0 => pair < heads[k].headStmt)
  BY <1>1, <1>5, <1>6, PairBefore
<1> HIDE DEF pair
<1>8. find_fnc_name(u) \in Fn /\ find_fnc_name(pair) \in Fn \cup {NoFn}
  BY <1>1, <1>4, <1>5, <1>7, FindName
<1>9. line \in LineType /\ line.ehc = k /\ line.node = pair /\ line.stmt = u
  BY <1>5, <1>7, <1>8 DEF LineType
<1> HIDE DEF line
<1> QED BY <1>3, <1>4, <1>5, <1>7, <1>9

\* find_pairs writes a line or none for each of the new statements.
LEMMA FindStep ==
    ASSUME DInv, find_pairs
    PROVE  DInv'
<1>1. /\ at \in Nat \ {0} /\ function' = function /\ heads' = heads /\ EHCs' = EHCs
      /\ news' = news /\ stage = "find_pairs" /\ Advance(Len(news), "done")
  BY DEF DInv, find_pairs
<1>2. \/ at < Len(news) /\ stage' = stage /\ at' = at + 1
      \/ ~(at < Len(news)) /\ stage' = "done" /\ at' = 1
  BY <1>1 DEF Advance
<1>3. stage \notin Visiting /\ stage' \in Writing /\ stage' \in Stages /\ at' \in Nat \ {0}
  BY <1>1, <1>2, Distinguish
<1>4. HeadsInv' /\ BlocksInv'
  BY <1>1, <1>3, HeadsKept, BlocksKept DEF DInv
<1>5. NewType' = NewType /\ LineType' = LineType /\ \A k : AllBeforeEmpty(k)' = AllBeforeEmpty(k)
  BY <1>1, SameFunction DEF NewType, LineType, AllBeforeEmpty
<1>6. stage' \in Writing'
  BY <1>3 DEF Writing
<1>7. NewsInv'
  <2>1. news \in Seq(NewType) /\ Len(news) \in Nat
    BY LenProperties DEF DInv, NewsInv
  <2>2. stage' = "find_pairs" => at' <= Len(news)
    BY <1>1, <1>2, <2>1
  <2>3. \A r \in ToSet(news)' : AllBeforeEmpty(r.ehc)'
    BY <1>1, <1>5 DEF DInv, NewsInv, ToSet
  <2>4. \A i, j \in DOMAIN news' : news'[i].stmt = news'[j].stmt => i = j
    BY <1>1 DEF DInv, NewsInv
  <2> QED BY <1>1, <1>5, <1>6, <2>1, <2>2, <2>3, <2>4 DEF NewsInv
<1>8. FileInv'
  <2> DEFINE Right(r) == r.node # 0 => r.node < heads[r.ehc].headStmt
             Done(r, n) == \E i \in DOMAIN news : i < n /\ news[i].stmt = r.stmt
  <2>1. /\ file \in Seq(LineType) /\ \A r \in ToSet(file) : Right(r) /\ Done(r, at)
        /\ \A i, j \in DOMAIN file : file[i].stmt = file[j].stmt => i = j
    BY <1>1 DEF DInv, FileInv
  <2>2. /\ news \in Seq(NewType) /\ Len(news) \in Nat /\ DOMAIN news = 1..Len(news)
        /\ \A i, j \in DOMAIN news : news[i].stmt = news[j].stmt => i = j
    BY LenProperties DEF DInv, NewsInv
  <2>3. \A r : Done(r, at) => Done(r, at + 1)
    BY <1>1, <2>2
  <2>4. /\ file' \in Seq(LineType) /\ \A r \in ToSet(file') : Right(r) /\ Done(r, at + 1)
        /\ \A i, j \in DOMAIN file' : file'[i].stmt = file'[j].stmt => i = j
    <3>1. CASE file' = file
      <4> HIDE DEF Right, Done
      <4> QED BY <2>1, <2>3, <3>1
    <3>2. CASE file' # file
      <4>1. PICK line \in LineType :
                /\ file' = Append(file, line) /\ line.stmt = news[at].stmt /\ at \in DOMAIN news
                /\ line.node # 0 => line.node < heads[line.ehc].headStmt
        BY <3>2, WritesLine
      <4>2. Right(line) /\ Done(line, at + 1)
        BY <1>1, <4>1
      <4>3. \A r \in ToSet(file) : r.stmt # line.stmt
        BY <1>1, <2>1, <2>2, <4>1
      <4> HIDE DEF Right, Done
      <4>4. file' \in Seq(LineType) /\ ToSet(file') = ToSet(file) \cup {line}
        BY <2>1, <4>1, AppendHolds
      <4>5. /\ Len(file) \in Nat /\ DOMAIN file = 1..Len(file)
            /\ DOMAIN file' = 1..(Len(file) + 1) /\ file'[Len(file) + 1] = line
            /\ \A i \in DOMAIN file : file'[i] = file[i] /\ file[i] \in ToSet(file)
        BY <2>1, <4>1, <4>4, AppendProperties, LenProperties DEF ToSet
      <4>6. \A i \in DOMAIN file' : i = Len(file) + 1 \/ i \in DOMAIN file
        BY <4>5
      <4>7. \A i, j \in DOMAIN file' : file'[i].stmt = file'[j].stmt => i = j
        BY <2>1, <4>3, <4>5, <4>6
      <4> QED BY <2>1, <2>3, <4>2, <4>4, <4>7
    <3> QED BY <3>1, <3>2
  <2>5. \A r \in ToSet(file)' : r.node # 0 => r.node < heads'[r.ehc].headStmt
    BY <1>1, <2>4 DEF ToSet
  <2>6. stage' = "find_pairs" => \A r \in ToSet(file)' :
            \E i \in DOMAIN news' : i < at' /\ news'[i].stmt = r.stmt
    <3>1. stage' = "find_pairs" => at' = at + 1
      BY <1>2
    <3>2. \A r \in ToSet(file') : Done(r, at + 1)
      BY <2>4
    <3> QED BY <1>1, <3>1, <3>2 DEF ToSet
  <2> HIDE DEF Right, Done
  <2> QED BY <1>5, <1>6, <2>4, <2>5, <2>6 DEF FileInv
<1>9. IsTree(function.node)' /\ stage' \in Stages'
  BY <1>1, <1>3, SameFunction DEF DInv, Stages
<1> QED BY <1>3, <1>4, <1>7, <1>8, <1>9 DEF DInv

-----------------------------------------------------------------------------
(* The theorems. *)

\* At first nothing is found.
LEMMA DatabaseInit == Init => DInv
<1> SUFFICES ASSUME Init PROVE DInv
  OBVIOUS
<1>1. \A T : <<>> \in Seq(T)
  OBVIOUS
<1>2. ToSet(<<>>) = {} /\ IsInjective(<<>>) /\ Len(<<>>) = 0 /\ DOMAIN (<<>>) = {}
  BY DEF ToSet, IsInjective
<1>3. IsTree(function.node)
  BY PairDatabaseAssumption DEF Init, PairDatabaseAssumption
<1>4. stage \in Stages /\ stage \in Visiting /\ stage \notin Writing
  BY Distinguish DEF Init
<1>5. HeadsInv
  BY <1>1, <1>2, <1>4 DEF Init, HeadsInv
<1>6. BlocksInv
  BY <1>1, <1>2, <1>4 DEF Init, BlocksInv
<1>7. NewsInv
  BY <1>1, <1>2, <1>4 DEF Init, NewsInv
<1>8. FileInv
  BY <1>1, <1>2, <1>4 DEF Init, FileInv
<1> QED BY <1>3, <1>4, <1>5, <1>6, <1>7, <1>8 DEF Init, DInv

\* Every handler keeps DInv.
LEMMA DatabaseStep == DInv /\ [Next]_vars => DInv'
<1> SUFFICES ASSUME DInv, [Next]_vars PROVE DInv'
  OBVIOUS
<1>1. CASE recursiveVisit_if
  BY <1>1, VisitStep
<1>2. CASE ehc_head_clean_duplicates
  BY <1>2, CleanStep
<1>3. CASE find_ehc_stmts
  BY <1>3, CollectStep
<1>4. CASE delete_printks
  BY <1>4, DeleteStep
<1>5. CASE handle_return
  BY <1>5, ReturnStep
<1>6. CASE find_ehc_new_stmts
  BY <1>6, NewStep
<1>7. CASE find_pairs
  BY <1>7, FindStep
<1>8. CASE UNCHANGED vars
  <2>1. /\ function' = function /\ stage' = stage /\ at' = at /\ heads' = heads
        /\ EHCs' = EHCs /\ news' = news /\ file' = file
    BY <1>8 DEF vars
  <2>2. NewType' = NewType /\ LineType' = LineType /\ \A k : AllBeforeEmpty(k)' = AllBeforeEmpty(k)
    BY <2>1, SameFunction DEF NewType, LineType, AllBeforeEmpty
  <2>3. HeadsInv'
    BY <2>1, SameFunction DEF DInv, HeadsInv, IsInjective, ToSet, Visiting
  <2>4. BlocksInv'
    BY <2>1, SameFunction DEF DInv, BlocksInv, Visiting, IsInjective
  <2>5. NewsInv'
    BY <2>1, <2>2 DEF DInv, NewsInv, ToSet, Writing
  <2>6. FileInv'
    BY <2>1, <2>2 DEF DInv, FileInv, ToSet, Writing
  <2> QED BY <2>1, <2>3, <2>4, <2>5, <2>6, SameFunction DEF DInv, Stages
<1> QED BY <1>1, <1>2, <1>3, <1>4, <1>5, <1>6, <1>7, <1>8 DEF Next

\* DInv is an invariant of the pass, whatever trees the functions are.
THEOREM DatabaseInvariant == Spec => []DInv
BY DatabaseInit, DatabaseStep, PTL DEF Spec

\* DInv says what is a line.
LEMMA DatabaseTypes == DInv => DatabaseTypeOK
<1> SUFFICES ASSUME DInv PROVE DatabaseTypeOK
  OBVIOUS
<1>1. /\ heads \in Seq(HeadType) /\ IsInjective(heads)
      /\ EHCs \in Seq(Seq(Nodes)) /\ Len(EHCs) <= Len(heads) /\ file \in Seq(LineType)
  BY DEF DInv, HeadsInv, BlocksInv, FileInv
<1>2. /\ Len(heads) \in Nat /\ DOMAIN heads = 1..Len(heads)
      /\ Len(EHCs) \in Nat /\ DOMAIN EHCs = 1..Len(EHCs)
      /\ DOMAIN file = 1..Len(file)
  BY <1>1, LenProperties
<1>3. \A k \in DOMAIN heads : heads[k] \in HeadType /\ heads[k] \in ToSet(heads)
  BY <1>1, <1>2, ElementOfSeq DEF ToSet
<1>4. \A k \in DOMAIN heads : Node(Node(heads[k].headStmt).up).kind = "if"
  BY <1>3 DEF HeadType, Branches
<1>5. ASSUME NEW i \in DOMAIN EHCs, NEW j \in DOMAIN EHCs, i # j,
             heads[i].headStmt = heads[j].headStmt
      PROVE  {heads[i].type, heads[j].type} = {"RETURN", "GOTO"}
  <2>1. i \in DOMAIN heads /\ j \in DOMAIN heads
    BY <1>1, <1>2
  <2>2. heads[i] # heads[j]
    BY <1>1, <1>5, <2>1 DEF IsInjective
  <2>3. stage \notin Visiting
    <3>1. EHCs # <<>>
      BY <1>2
    <3> QED BY <3>1 DEF DInv, BlocksInv
  <2>4. heads[i].type # "COND" /\ heads[j].type # "COND"
    BY <1>3, <1>5, <2>1, <2>2, <2>3 DEF DInv, HeadsInv
  <2>5. heads[i].type \in {"COND", "RETURN", "GOTO"} /\ heads[j].type \in {"COND", "RETURN", "GOTO"}
    BY <1>3, <2>1 DEF HeadType
  <2>6. heads[i].type # heads[j].type
    BY <1>3, <1>5, <2>1, <2>2 DEF HeadType
  <2> QED BY <2>4, <2>5, <2>6
<1>6. \A k \in DOMAIN file : file[k].undo \in Fn /\ file[k].pair \in Fn \cup {NoFn}
  <2>1. \A k \in DOMAIN file : file[k] \in LineType
    BY <1>1, <1>2, ElementOfSeq
  <2> QED BY <2>1 DEF LineType
<1> QED BY <1>1, <1>4, <1>5, <1>6 DEF DInv, DatabaseTypeOK

\* A branch is counted by its condition or by how it ends, never by both, and each
\* line of the database names two functions.
THEOREM DatabaseTypeCorrect == Spec => []DatabaseTypeOK
BY DatabaseInvariant, DatabaseTypes, PTL

\* No statement has two lines: the blocks before the first one in which something
\* is left are empty, and the statements of a block are different.
LEMMA WrittenOnce == DInv => NothingWrittenTwice
BY DEF DInv, FileInv, NothingWrittenTwice

THEOREM WrittenOnceCorrect == Spec => []NothingWrittenTwice
BY DatabaseInvariant, WrittenOnce, PTL

\* What is written as the pair of a statement stands before the branch.
LEMMA BeforeBlock == DInv => PairBeforeBlock
BY DEF DInv, FileInv, PairBeforeBlock, ToSet

THEOREM PairBeforeCorrect == Spec => []PairBeforeBlock
BY DatabaseInvariant, BeforeBlock, PTL

-----------------------------------------------------------------------------
(* What is executed. *)

\* A GOTO head for what ends in a goto, a RETURN head only for what returns.
LEMMA HeadsOfEnds ==
    ASSUME NEW b \in Branches
    PROVE  /\ \A h \in ToSet(HeadsOf(b)) : h.type = "RETURN" => Visit_return(b)
           /\ Visit_goto(b) <=> [type |-> "GOTO", headStmt |-> b] \in ToSet(HeadsOf(b))
<1> DEFINE ret == [type |-> "RETURN", headStmt |-> b]
           jump == [type |-> "GOTO", headStmt |-> b]
           rets == IF Visit_return(b) THEN <<ret>> ELSE <<>>
           jumps == IF Visit_goto(b) THEN <<jump>> ELSE <<>>
<1>1. ret \in HeadType /\ jump \in HeadType /\ ret # jump /\ jump.type = "GOTO"
  BY DEF HeadType
<1> HIDE DEF ret, jump
<1>2. rets \in Seq(HeadType) /\ ToSet(rets) = IF Visit_return(b) THEN {ret} ELSE {}
  BY <1>1, Singleton, EmptyList
<1>3. jumps \in Seq(HeadType) /\ ToSet(jumps) = IF Visit_goto(b) THEN {jump} ELSE {}
  BY <1>1, Singleton, EmptyList
<1>4. HeadsOf(b) = rets \o jumps
  BY DEF HeadsOf, ret, jump
<1> HIDE DEF rets, jumps
<1>5. ToSet(HeadsOf(b)) = ToSet(rets) \cup ToSet(jumps)
  BY <1>2, <1>3, <1>4, JoinHolds
<1>6. \A h \in ToSet(HeadsOf(b)) : h.type = "RETURN" => Visit_return(b)
  BY <1>1, <1>2, <1>3, <1>5
<1>7. Visit_goto(b) <=> jump \in ToSet(HeadsOf(b))
  BY <1>1, <1>2, <1>3, <1>5
<1> QED BY <1>6, <1>7 DEF jump

\* The heads in a list say how their branches end.
Ends(hs) ==
    \A h \in hs :
        /\ h.type = "RETURN" => Visit_return(h.headStmt)
        /\ Visit_goto(h.headStmt) <=> [type |-> "GOTO", headStmt |-> h.headStmt] \in hs

\* So do those of an if,
LEMMA IfEnds ==
    ASSUME IsTree(function.node), NEW i \in Nodes, Node(i).kind = "if"
    PROVE  Ends(ToSet(HeadsOfIf(i)))
<1> DEFINE then == Child(i, 2)
           else == Child(i, 3)
           cond == [type |-> "COND", headStmt |-> then]
           conds == IF ByCondition(Child(i, 1)) THEN <<cond>> ELSE <<>>
           elses == IF Len(Children(i)) = 3 THEN HeadsOf(else) ELSE <<>>
<1>1. Len(Children(i)) \in Nat /\ Len(Children(i)) >= 2
  BY IfHasTwo
<1>2. then \in Branches
  <2>1. 2 \in 1..Len(Children(i))
    BY <1>1
  <2>2. then \in Nodes \ {1} /\ Up(then) = i
    BY <2>1, ChildrenOf
  <2> QED BY <2>2 DEF Branches, Up
<1>3. Len(Children(i)) = 3 => else \in Branches /\ else # then
  <2>1. Len(Children(i)) = 3 => 2 \in 1..Len(Children(i)) /\ 3 \in 1..Len(Children(i))
    BY <1>1
  <2>2. Len(Children(i)) = 3 => else \in Nodes \ {1} /\ Up(else) = i
    BY <2>1, ChildrenOf
  <2>3. Len(Children(i)) = 3 => else # then
    BY <2>1, ChildrenOf
  <2> QED BY <2>2, <2>3 DEF Branches, Up
<1> HIDE DEF then, else
<1>4. cond \in HeadType /\ cond.headStmt = then /\ cond.type = "COND"
  BY <1>2 DEF HeadType
<1> HIDE DEF cond
<1>5. /\ conds \in Seq(HeadType)
      /\ \A h \in ToSet(conds) : h.headStmt = then /\ h.type = "COND"
  BY <1>4, Singleton, EmptyList
<1>6. /\ HeadsOf(then) \in Seq(HeadType)
      /\ \A h \in ToSet(HeadsOf(then)) : h.headStmt = then
      /\ \A h \in ToSet(HeadsOf(then)) : h.type = "RETURN" => Visit_return(then)
      /\ Visit_goto(then) <=> [type |-> "GOTO", headStmt |-> then] \in ToSet(HeadsOf(then))
  BY <1>2, HeadsOfBranch, HeadsOfEnds
<1>7. /\ elses \in Seq(HeadType)
      /\ \A h \in ToSet(elses) : h.headStmt = else /\ h.headStmt # then
      /\ \A h \in ToSet(elses) : h.type = "RETURN" => Visit_return(else)
      /\ ToSet(elses) # {} =>
            (Visit_goto(else) <=> [type |-> "GOTO", headStmt |-> else] \in ToSet(elses))
  BY <1>3, HeadsOfBranch, HeadsOfEnds, EmptyList
<1>8. HeadsOfIf(i) = conds \o HeadsOf(then) \o elses
  BY DEF HeadsOfIf, then, else, cond
<1> HIDE DEF conds, elses
<1> DEFINE thens == conds \o HeadsOf(then)
<1>9. thens \in Seq(HeadType) /\ ToSet(thens) = ToSet(conds) \cup ToSet(HeadsOf(then))
  BY <1>5, <1>6, JoinHolds
<1>10. HeadsOfIf(i) = thens \o elses
  BY <1>8
<1> HIDE DEF thens
<1>11. ToSet(HeadsOfIf(i)) = ToSet(conds) \cup ToSet(HeadsOf(then)) \cup ToSet(elses)
  BY <1>7, <1>9, <1>10, JoinHolds
<1>12. ASSUME NEW h \in ToSet(HeadsOfIf(i)), h.headStmt = then
       PROVE  /\ h.type = "RETURN" => Visit_return(h.headStmt)
              /\ Visit_goto(h.headStmt) <=>
                    [type |-> "GOTO", headStmt |-> h.headStmt] \in ToSet(HeadsOfIf(i))
  <2>1. h.type = "RETURN" => h \in ToSet(HeadsOf(then))
    BY <1>5, <1>7, <1>11, <1>12
  <2> DEFINE jump == [type |-> "GOTO", headStmt |-> then]
  <2>2. jump.type = "GOTO" /\ jump.headStmt = then
    OBVIOUS
  <2>3. Visit_goto(then) <=> jump \in ToSet(HeadsOf(then))
    BY <1>6
  <2> HIDE DEF jump
  <2>4. jump \notin ToSet(conds) /\ jump \notin ToSet(elses)
    BY <1>5, <1>7, <2>2
  <2>5. Visit_goto(then) <=> jump \in ToSet(HeadsOfIf(i))
    BY <1>11, <2>3, <2>4
  <2> QED BY <1>6, <1>12, <2>1, <2>5 DEF jump
<1>13. ASSUME NEW h \in ToSet(HeadsOfIf(i)), h.headStmt # then
       PROVE  /\ h.type = "RETURN" => Visit_return(h.headStmt)
              /\ Visit_goto(h.headStmt) <=>
                    [type |-> "GOTO", headStmt |-> h.headStmt] \in ToSet(HeadsOfIf(i))
  <2>1. h \in ToSet(elses) /\ h.headStmt = else /\ else # then
    BY <1>5, <1>6, <1>7, <1>11, <1>13
  <2> DEFINE jump == [type |-> "GOTO", headStmt |-> else]
  <2>2. jump.headStmt = else
    OBVIOUS
  <2>3. Visit_goto(else) <=> jump \in ToSet(elses)
    BY <1>7, <2>1
  <2> HIDE DEF jump
  <2>4. jump \notin ToSet(conds) /\ jump \notin ToSet(HeadsOf(then))
    BY <1>5, <1>6, <2>1, <2>2
  <2>5. Visit_goto(else) <=> jump \in ToSet(HeadsOfIf(i))
    BY <1>11, <2>3, <2>4
  <2> QED BY <1>7, <2>1, <2>5 DEF jump
<1> QED BY <1>12, <1>13 DEF Ends

\* those of all ifs,
LEMMA VisitEnds ==
    ASSUME IsTree(function.node), recursiveVisit_if
    PROVE  Ends(ToSet(heads'))
<1> DEFINE ifs == InOrder({n \in Nodes : Node(n).kind = "if"})
           ss == [k \in DOMAIN ifs |-> HeadsOfIf(ifs[k])]
<1>1. ifs \in Seq(Nodes) /\ ToSet(ifs) = Nodes \cap {n \in Nodes : Node(n).kind = "if"}
  BY InOrderLists
<1>2. heads' = FlattenSeq(ss)
  BY DEF recursiveVisit_if, HeadsOfIf
<1> HIDE DEF ifs
<1>3. \A k \in DOMAIN ifs : ifs[k] \in Nodes /\ Node(ifs[k]).kind = "if"
  BY <1>1 DEF ToSet
<1>4. DOMAIN ss = DOMAIN ifs /\ \A k \in DOMAIN ifs : ss[k] = HeadsOfIf(ifs[k])
  OBVIOUS
<1>5. ss \in Seq(Seq(HeadType))
  <2>1. \A k \in DOMAIN ifs : HeadsOfIf(ifs[k]) \in Seq(HeadType)
    BY <1>3, HeadsOfIfOnce
  <2>2. Len(ifs) \in Nat /\ DOMAIN ifs = 1..Len(ifs)
    BY <1>1, LenProperties
  <2>3. ss \in [1..Len(ifs) -> Seq(HeadType)]
    BY <2>1, <2>2
  <2> QED BY <2>2, <2>3, SeqDef
<1> HIDE DEF ss
<1>6. ToSet(heads') = UNION {ToSet(ss[k]) : k \in DOMAIN ss}
  BY <1>2, <1>5, FlattenHolds
<1>7. \A k \in DOMAIN ss : Ends(ToSet(ss[k])) /\ \A h \in ToSet(ss[k]) : Up(h.headStmt) = ifs[k]
  BY <1>3, <1>4, IfEnds, HeadsOfIfOnce
<1>8. ASSUME NEW h \in ToSet(heads')
      PROVE  /\ h.type = "RETURN" => Visit_return(h.headStmt)
             /\ Visit_goto(h.headStmt) <=> [type |-> "GOTO", headStmt |-> h.headStmt] \in ToSet(heads')
  <2>1. PICK k \in DOMAIN ss : h \in ToSet(ss[k])
    BY <1>6
  <2> DEFINE jump == [type |-> "GOTO", headStmt |-> h.headStmt]
  <2>2. jump.headStmt = h.headStmt
    OBVIOUS
  <2>3. /\ h.type = "RETURN" => Visit_return(h.headStmt)
        /\ Visit_goto(h.headStmt) <=> jump \in ToSet(ss[k])
    BY <1>7, <2>1 DEF Ends
  <2> HIDE DEF jump
  <2>4. jump \in ToSet(heads') => jump \in ToSet(ss[k])
    <3>1. ASSUME NEW j \in DOMAIN ss, jump \in ToSet(ss[j])
          PROVE  jump \in ToSet(ss[k])
      <4>1. ifs[j] = ifs[k]
        BY <1>7, <2>1, <2>2, <3>1
      <4>2. ss[j] = ss[k]
        BY <1>4, <4>1
      <4> QED BY <3>1, <4>2
    <3> QED BY <1>6, <3>1
  <2>5. jump \in ToSet(ss[k]) => jump \in ToSet(heads')
    BY <1>6
  <2> QED BY <2>3, <2>4, <2>5 DEF jump
<1> QED BY <1>8 DEF Ends

\* and those that are left, since no GOTO head is removed.
LEMMA CleanEnds ==
    ASSUME heads \in Seq(HeadType), Ends(ToSet(heads)), ehc_head_clean_duplicates
    PROVE  Ends(ToSet(heads'))
<1> DEFINE S == {h \in ToSet(heads) : Kept(h)}
<1>1. heads' = Keep(heads, S)
  BY DEF ehc_head_clean_duplicates
<1>2. \A b : LET jump == [type |-> "GOTO", headStmt |-> b]
             IN  jump \in ToSet(heads) => jump \in S
  BY DEF Kept
<1> HIDE DEF S
<1>3. ToSet(heads') = ToSet(heads) \cap S
  BY <1>1, KeepElements
<1> QED BY <1>2, <1>3 DEF Ends

\* In a branch nothing stands behind a goto or a return, and there are no labels.
LEMMA OwnPath ==
    ASSUME IsTree(function.node), Orderly(function.node), NEW b \in Branches, Node(b).kind = "block"
    PROVE  /\ \A n \in ToSet(Children(b)) :
                 Unlabelled(n) = n /\ (Stops(n) <=> Node(n).kind \in {"goto", "return"})
           /\ \A n, m \in ToSet(Children(b)) : Node(n).kind \in {"goto", "return"} => ~(n < m)
           /\ UpToStop(ToSet(Children(b))) = ToSet(Children(b))
<1>0. Size \in Nat \ {0} /\ Nodes = 1..Size
  BY TreeNodes
<1> DEFINE own == ToSet(Children(b))
<1>1. b \in Nodes \ {1} /\ own = {m \in Nodes \ {1} : Up(m) = b}
  BY ChildrenOf DEF Branches
<1> HIDE DEF own
<1>2. \A n \in own : Node(n).kind # "label"
  BY <1>1 DEF Orderly, Up, Node, Nodes
<1>3. \A n \in own : Unlabelled(n) = n
  BY <1>2 DEF Unlabelled
<1>4. \A n \in own : Stops(n) <=> Node(n).kind \in {"goto", "return"}
  BY <1>3 DEF Stops
<1>5. ASSUME NEW n \in own, NEW m \in own, Node(n).kind \in {"goto", "return"}, n < m
      PROVE  FALSE
  <2>1. n \in Nodes \ {1} /\ m \in Nodes \ {1} /\ Up(n) = b /\ Up(m) = b
    BY <1>1
  <2>2. PICK l \in Nodes \ {1} : Node(l).kind = "label" /\ Up(l) = b
    BY <1>5, <2>1 DEF Orderly, Up, Node, Nodes
  <2> QED BY <1>1, <1>2, <2>2
<1>6. \A n, m \in own : m < n => ~Stops(m)
  BY <1>4, <1>5
<1>7. UpToStop(own) = own
  BY <1>6 DEF UpToStop
<1> QED BY <1>3, <1>4, <1>5, <1>7 DEF own

\* From the label of a goto the search goes on as far as the execution.
LEMMA ResolvedPath ==
    ASSUME IsTree(function.node), Orderly(function.node), NEW g \in Nodes, NEW l \in LabelOf(g),
           LET behind == UpToStop({n \in ToSet(Children(1)) :
                                      LabelOf(g) # {} /\ n >= Min(LabelOf(g))})
           IN  \A n \in behind : Stops(n) => Node(n).kind # "label"
    PROVE  Resolve(l) = UpToStop({n \in ToSet(Children(1)) :
                                     LabelOf(g) # {} /\ n >= Min(LabelOf(g))})
<1>0. Size \in Nat \ {0} /\ Nodes = 1..Size /\ Node(1).kind = "block"
  BY TreeNodes
<1> DEFINE body == ToSet(Children(1))
           behind == {n \in body : n >= l}
<1>1. l \in Nodes \ {1} /\ Node(l).kind = "label" /\ Up(l) = 1 /\ LabelOf(g) = {l}
  <2>1. l \in Nodes \ {1} /\ Node(l).kind = "label" /\ Node(l).fn = Node(g).fn
    BY <1>0 DEF LabelOf
  <2>2. Up(l) = 1
    BY <2>1 DEF Orderly, Up, Node, Nodes
  <2>3. ASSUME NEW m \in LabelOf(g) PROVE m = l
    <3>1. m \in Nodes \ {1} /\ Node(m).kind = "label" /\ Node(m).fn = Node(g).fn
      BY <1>0, <2>3 DEF LabelOf
    <3> QED BY <2>1, <3>1 DEF Orderly, Node, Nodes
  <2> QED BY <2>1, <2>2, <2>3
<1>2. Min(LabelOf(g)) = l
  <2>1. {l} \in SUBSET (0..Size) /\ {l} # {}
    BY <1>0, <1>1
  <2>2. Min({l}) \in {l}
    BY <1>0, <2>1, Extremes
  <2> QED BY <1>1, <2>2
<1>3. body = {m \in Nodes \ {1} : Up(m) = 1}
  BY ChildrenOf
<1>4. {n \in body : LabelOf(g) # {} /\ n >= Min(LabelOf(g))} = behind
  BY <1>1, <1>2
<1> HIDE DEF body
<1>5. l \in body /\ behind \subseteq Nat
  BY <1>0, <1>1, <1>3
<1>6. \A n \in UpToStop(behind) : Stops(n) => Node(n).kind # "label"
  BY <1>4 DEF body
<1>7. Resolve(l) = {n \in behind : \A m \in behind : m < n => Node(m).kind # "return"}
  <2>1. Resolve(l) = {n \in body : n >= l /\ l \in body /\
                        \A m \in body : Node(m).kind = "return" /\ m < n => m < l}
    BY DEF Resolve, body
  <2>2. \A m \in body : m < l <=> ~(m >= l)
    BY <1>0, <1>1, <1>3
  <2> QED BY <1>5, <2>1, <2>2
<1>8. ASSUME NEW n \in UpToStop(behind) PROVE n \in Resolve(l)
  <2>1. n \in behind /\ \A m \in behind : m < n => ~Stops(m)
    BY <1>8 DEF UpToStop
  <2>2. \A m \in behind : Node(m).kind = "return" => Stops(m)
    BY DEF Stops, Unlabelled
  <2> HIDE DEF behind
  <2> QED BY <1>7, <2>1, <2>2
<1>9. ASSUME NEW n \in Resolve(l) PROVE n \in UpToStop(behind)
  <2> DEFINE S == {m \in behind : m < n /\ Stops(m)}
  <2>1. n \in behind /\ \A m \in behind : m < n => Node(m).kind # "return"
    BY <1>7, <1>9
  <2>2. ASSUME S # {} PROVE FALSE
    <3>1. S \in SUBSET Nat
      BY <1>5
    <3>2. PICK m \in S : \A k \in S : m <= k
      BY <2>2, <3>1, LeastElement
    <3>3. m \in behind /\ m < n /\ Stops(m) /\ m \in Nat /\ n \in Nat
      BY <1>5, <2>1, <3>2
    <3>4. \A k \in behind : k < m => ~Stops(k)
      <4>1. ASSUME NEW k \in behind, k < m, Stops(k) PROVE FALSE
        <5>1. k \in Nat /\ k < n
          BY <1>5, <3>3, <4>1
        <5>2. k \in S
          BY <4>1, <5>1
        <5>3. m <= k
          BY <3>2, <5>2
        <5> QED BY <3>3, <4>1, <5>1, <5>3
      <4> QED BY <4>1
    <3>5. m \in UpToStop(behind)
      BY <3>3, <3>4 DEF UpToStop
    <3>6. Node(m).kind # "label"
      BY <1>6, <3>3, <3>5
    <3>7. Node(m).kind \in {"return", "goto"}
      BY <3>3, <3>6 DEF Stops, Unlabelled
    <3>8. Node(m).kind = "goto"
      BY <2>1, <3>3, <3>7
    <3>9. m \in Nodes \ {1} /\ Up(m) = 1 /\ m >= l
      BY <1>3, <3>3
    <3>10. m < l
      BY <1>1, <3>8, <3>9 DEF Orderly, Up, Node, Nodes
    <3> QED BY <1>0, <1>1, <3>9, <3>10
  <2>3. \A m \in behind : m < n => ~Stops(m)
    BY <2>2
  <2> QED BY <2>1, <2>3 DEF UpToStop
<1> QED BY <1>4, <1>8, <1>9 DEF body

\* Heads are of branches, and a branch that ends in a goto is not counted by its
\* condition.
LEMMA HeadEnds ==
    ASSUME DInv, EndsInv, stage \notin Visiting, NEW k \in DOMAIN heads
    PROVE  /\ heads[k].headStmt \in Branches /\ heads[k].type \in {"COND", "RETURN", "GOTO"}
           /\ heads[k].type = "RETURN" => Visit_return(heads[k].headStmt)
           /\ heads[k].type = "GOTO" => Visit_goto(heads[k].headStmt)
           /\ heads[k].type = "COND" => ~Visit_goto(heads[k].headStmt)
<1> DEFINE h == heads[k]
           jump == [type |-> "GOTO", headStmt |-> h.headStmt]
<1>1. heads \in Seq(HeadType)
  BY DEF DInv, HeadsInv
<1>2. h \in HeadType /\ h \in ToSet(heads)
  BY <1>1, LenProperties, ElementOfSeq DEF ToSet
<1>3. /\ h.type = "RETURN" => Visit_return(h.headStmt)
      /\ Visit_goto(h.headStmt) <=> jump \in ToSet(heads)
  BY <1>2 DEF EndsInv
<1>4. h.type = "GOTO" => h = jump
  BY <1>2 DEF HeadType
<1>5. h.type = "COND" => jump \notin ToSet(heads)
  <2>1. jump.type = "GOTO" /\ jump.headStmt = h.headStmt
    OBVIOUS
  <2> HIDE DEF jump
  <2> QED BY <1>2, <2>1 DEF DInv, HeadsInv
<1> QED BY <1>2, <1>3, <1>4, <1>5 DEF HeadType

\* A branch without a goto is executed to its end.
LEMMA NoJump ==
    ASSUME IsTree(function.node), Orderly(function.node), NEW b \in Branches, Node(b).kind = "block",
           \A n \in ToSet(Children(b)) : Node(n).kind # "goto"
    PROVE  {Unlabelled(n) : n \in Executed(b)} = ToSet(Children(b))
<1> DEFINE own == ToSet(Children(b))
<1>1. UpToStop(own) = own /\ \A n \in own : Unlabelled(n) = n
  BY OwnPath
<1> HIDE DEF own
<1>2. {n \in UpToStop(own) : Node(n).kind = "goto"} = {}
  BY <1>1 DEF own
<1>3. UpToStop({n \in ToSet(Children(1)) : {} # {} /\ n >= Min({})}) = {}
  BY DEF UpToStop
<1>4. UNION {LabelOf(n) : n \in {}} = {}
  OBVIOUS
<1>5. Executed(b) = own
  BY <1>1, <1>2, <1>3, <1>4 DEF Executed, own
<1> QED BY <1>1, <1>5 DEF own

\* Of a branch with a goto the goto is the last statement.
LEMMA OneJump ==
    ASSUME IsTree(function.node), Orderly(function.node), NEW b \in Branches, Node(b).kind = "block",
           NEW g \in ToSet(Children(b)), Node(g).kind = "goto"
    PROVE  /\ {n \in ToSet(Children(b)) : Node(n).kind = "goto"} = {g}
           /\ \A n \in ToSet(Children(b)) : Node(n).kind # "return"
           /\ Executed(b) = (ToSet(Children(b)) \ {g}) \cup
                 UpToStop({n \in ToSet(Children(1)) : LabelOf(g) # {} /\ n >= Min(LabelOf(g))})
<1>0. Size \in Nat \ {0} /\ Nodes = 1..Size
  BY TreeNodes
<1> DEFINE own == ToSet(Children(b))
<1>1. own \subseteq Nodes /\ g \in own
  BY ChildrenOf
<1>2. /\ UpToStop(own) = own
      /\ \A n, m \in own : Node(n).kind \in {"goto", "return"} => ~(n < m)
  BY OwnPath
<1> HIDE DEF own
<1>3. \A n \in own : Node(n).kind \in {"goto", "return"} => n = g
  BY <1>0, <1>1, <1>2
<1>4. {n \in own : Node(n).kind = "goto"} = {g}
  BY <1>1, <1>3
<1>5. UNION {LabelOf(n) : n \in {g}} = LabelOf(g)
  OBVIOUS
<1>6. Executed(b) = (own \ {g}) \cup
          UpToStop({n \in ToSet(Children(1)) : LabelOf(g) # {} /\ n >= Min(LabelOf(g))})
  BY <1>2, <1>4, <1>5 DEF Executed, own
<1> QED BY <1>3, <1>4, <1>6 DEF own

\* The statements behind a label, without theirs.
LEMMA BehindLabel ==
    ASSUME IsTree(function.node), NEW l
    PROVE  LET path == InOrder(Resolve(l))
           IN  /\ [k \in DOMAIN path |-> Unlabelled(path[k])] \in Seq(Nodes)
               /\ ToSet([k \in DOMAIN path |-> Unlabelled(path[k])]) = {Unlabelled(n) : n \in Resolve(l)}
<1> DEFINE path == InOrder(Resolve(l))
           list == [k \in DOMAIN path |-> Unlabelled(path[k])]
<1>1. path \in Seq(Nodes) /\ ToSet(path) = Nodes \cap Resolve(l)
  BY InOrderLists
<1>2. Resolve(l) \subseteq Nodes
  BY ChildrenOf DEF Resolve
<1> HIDE DEF path
<1>3. Len(path) \in Nat /\ DOMAIN path = 1..Len(path)
  BY <1>1, LenProperties
<1>4. \A k \in DOMAIN path : Unlabelled(path[k]) \in Nodes
  <2>1. \A k \in DOMAIN path : path[k] \in Nodes
    BY <1>1, <1>3, ElementOfSeq
  <2> QED BY <2>1, UnlabelledNode
<1>5. list \in [1..Len(path) -> Nodes]
  BY <1>3, <1>4
<1>6. list \in Seq(Nodes)
  BY <1>3, <1>5, SeqDef
<1>7. ToSet(list) = {Unlabelled(n) : n \in ToSet(path)}
  BY DEF ToSet
<1>8. ToSet(path) = Resolve(l)
  BY <1>1, <1>2
<1> QED BY <1>6, <1>7, <1>8 DEF path

\* find_ehc_stmts collects what is executed.
LEMMA CollectsPath ==
    ASSUME DInv, Orderly(function.node), EndsInv, find_ehc_stmts, heads # <<>>
    PROVE  \E stmts \in Seq(Nodes) : EHCs' = Append(EHCs, stmts) /\ Follows(heads[at], stmts)
<1>1. IsTree(function.node) /\ stage = "find_ehc_stmts" /\ stage \notin Visiting
  BY Distinguish DEF DInv, find_ehc_stmts
<1>2. at \in DOMAIN heads
  <2>1. heads \in Seq(HeadType) /\ at <= Len(heads) /\ at \in Nat \ {0}
    BY <1>1 DEF DInv, HeadsInv, BlocksInv
  <2> QED BY <2>1, LenProperties
<1> DEFINE h == heads[at]
           b == h.headStmt
           own == ToSet(Children(b))
<1>3. /\ b \in Branches /\ h.type \in {"COND", "RETURN", "GOTO"}
      /\ h.type = "RETURN" => Visit_return(b)
      /\ h.type = "GOTO" => Visit_goto(b)
      /\ h.type = "COND" => ~Visit_goto(b)
  BY <1>1, <1>2, HeadEnds
<1>4. Children(b) \in Seq(Nodes)
  BY <1>1, ChildrenOf
<1> DEFINE gotos == Keep(Children(b), Gotos)
           Path(l) == InOrder(Resolve(l))
           Behind(l) == [k \in DOMAIN Path(l) |-> Unlabelled(Path(l)[k])]
           labels == IF gotos = <<>> THEN {0} \cup labelstm ELSE LabelOf(Last(gotos))
           first == Keep(Children(b), Nodes \ Gotos)
<1>5. CASE Node(b).kind # "block"
  <2>1. \A stmts : Follows(h, stmts)
    BY <1>5 DEF Follows
  <2>2. PICK stmts \in Seq(Nodes) : EHCs' = Append(EHCs, stmts)
    BY Collected
  <2> QED BY <2>1, <2>2
<1>6. CASE Node(b).kind = "block" /\ h.type # "GOTO"
  <2>1. EHCs' = Append(EHCs, Children(b))
    BY <1>1, <1>6 DEF find_ehc_stmts
  <2>2. \A n \in own : Node(n).kind # "goto"
    <3>1. CASE h.type = "COND"
      BY <1>3, <3>1 DEF Visit_goto
    <3>2. CASE h.type = "RETURN"
      <4>1. PICK r \in own : Node(r).kind = "return"
        BY <1>3, <3>2 DEF Visit_return, ReturnsNegative
      <4>2. ASSUME NEW n \in own, Node(n).kind = "goto" PROVE FALSE
        BY <1>1, <1>3, <1>6, <4>1, <4>2, OneJump
      <4> QED BY <4>2
    <3> QED BY <1>3, <1>6, <3>1, <3>2
  <2>3. {Unlabelled(n) : n \in Executed(b)} = own
    BY <1>1, <1>3, <1>6, <2>2, NoJump
  <2>4. Follows(h, Children(b))
    BY <2>3 DEF Follows
  <2> QED BY <1>4, <2>1, <2>4
<1>7. CASE Node(b).kind = "block" /\ h.type = "GOTO"
  <2>1. PICK l \in labels : EHCs' = Append(EHCs, first \o (IF l = 0 THEN <<>> ELSE Behind(l)))
    BY <1>1, <1>2, <1>7 DEF find_ehc_stmts
  <2>2. PICK g \in own : Node(g).kind = "goto"
    BY <1>3, <1>7 DEF Visit_goto
  <2>3. own \subseteq Nodes /\ g \in Gotos /\ g \in Nodes
    BY <1>1, <2>2, ChildrenOf DEF Gotos
  <2>4. /\ {n \in own : Node(n).kind = "goto"} = {g}
        /\ Executed(b) = (own \ {g}) \cup
              UpToStop({n \in ToSet(Children(1)) : LabelOf(g) # {} /\ n >= Min(LabelOf(g))})
    BY <1>1, <1>3, <1>7, <2>2, OneJump
  <2> DEFINE rest == UpToStop({n \in ToSet(Children(1)) : LabelOf(g) # {} /\ n >= Min(LabelOf(g))})
  <2>5. own \cap Gotos = {g}
    BY <2>3, <2>4 DEF Gotos
  <2>6. first \in Seq(Nodes) /\ ToSet(first) = own \ {g}
    <3>1. first \in Seq(Nodes) /\ ToSet(first) = own \cap (Nodes \ Gotos)
      BY <1>4, KeepElements
    <3> QED BY <2>3, <2>5, <3>1
  <2>7. gotos \in Seq(Nodes) /\ ToSet(gotos) = {g}
    BY <1>4, <2>5, KeepElements
  <2> HIDE DEF gotos, first
  <2>8. gotos # <<>> /\ Last(gotos) = g
    <3>1. Len(gotos) \in Nat /\ DOMAIN gotos = 1..Len(gotos)
      BY <2>7, LenProperties
    <3>2. PICK k \in DOMAIN gotos : gotos[k] = g
      BY <2>7 DEF ToSet
    <3>3. Len(gotos) \in DOMAIN gotos /\ gotos # <<>>
      BY <3>1, <3>2
    <3>4. gotos[Len(gotos)] \in ToSet(gotos)
      BY <3>3 DEF ToSet
    <3> QED BY <2>7, <3>3, <3>4 DEF Last
  <2>9. l \in LabelOf(g) /\ l # 0
    <3>1. l \in LabelOf(g)
      BY <2>1, <2>8
    <3>2. LabelOf(g) \subseteq Nodes /\ 0 \notin Nodes
      BY <1>1, TreeNodes DEF LabelOf
    <3> QED BY <3>1, <3>2
  <2>10. /\ Behind(l) \in Seq(Nodes) /\ ToSet(Behind(l)) = {Unlabelled(n) : n \in Resolve(l)}
    BY <1>1, BehindLabel
  <2> HIDE DEF Behind
  <2>11. EHCs' = Append(EHCs, first \o Behind(l))
    BY <2>1, <2>9
  <2>12. first \o Behind(l) \in Seq(Nodes) /\
         ToSet(first \o Behind(l)) = (own \ {g}) \cup {Unlabelled(n) : n \in Resolve(l)}
    BY <2>6, <2>10, JoinHolds
  <2>13. Executed(b) = (own \ {g}) \cup rest
    BY <2>4
  <2>14. ASSUME \A n \in Executed(b) : Stops(n) => Node(n).kind # "label"
         PROVE  Resolve(l) = rest
    <3>1. \A n \in rest : Stops(n) => Node(n).kind # "label"
      BY <2>13, <2>14
    <3> QED BY <1>1, <2>3, <2>9, <3>1, ResolvedPath
  <2> HIDE DEF rest
  <2>15. \A n \in own : Unlabelled(n) = n
    BY <1>1, <1>3, <1>7, OwnPath
  <2>16. {Unlabelled(n) : n \in Executed(b)} = (own \ {g}) \cup {Unlabelled(n) : n \in rest}
    <3> HIDE DEF own
    <3> QED BY <2>13, <2>15
  <2>17. Follows(h, first \o Behind(l))
    BY <2>12, <2>14, <2>16 DEF Follows
  <2> QED BY <2>11, <2>12, <2>17
<1> QED BY <1>3, <1>5, <1>6, <1>7

\* What is said of a block does not change.
LEMMA SameEnds ==
    ASSUME function' = function
    PROVE  /\ Orderly(function.node)' = Orderly(function.node)
           /\ \A n : Node(n)' = Node(n) /\ Children(n)' = Children(n)
           /\ \A n : Unlabelled(n)' = Unlabelled(n) /\ Stops(n)' = Stops(n)
           /\ \A n : Executed(n)' = Executed(n)
           /\ \A n : Visit_return(n)' = Visit_return(n) /\ Visit_goto(n)' = Visit_goto(n)
<1>1. Orderly(function.node)' = Orderly(function.node)
  BY DEF Orderly
<1>2. /\ \A n : Node(n)' = Node(n) /\ Children(n)' = Children(n)
      /\ Nodes' = Nodes
  BY DEF Node, Nodes, Children, InOrder
<1>3. \A n : Visit_return(n)' = Visit_return(n) /\ Visit_goto(n)' = Visit_goto(n)
  BY <1>2 DEF Visit_return, Visit_goto, ReturnsNegative
<1>4. \A n : Unlabelled(n)' = Unlabelled(n) /\ LabelOf(n)' = LabelOf(n)
  BY <1>2 DEF Unlabelled, LabelOf, Child
<1>5. \A n : Stops(n)' = Stops(n)
  BY <1>2, <1>4 DEF Stops
<1>6. ASSUME NEW n PROVE Executed(n)' = Executed(n)
  <2> DEFINE own == ToSet(Children(n))
             Code(from) == {m \in ToSet(Children(1)) : from # {} /\ m >= Min(from)}
             Jumps(s) == UNION {LabelOf(m) : m \in {m \in s : Node(m).kind = "goto"}}
             gotos(s) == {m \in s : Node(m).kind = "goto"}
  <2>1. own' = own /\ \A from : Code(from)' = Code(from)
    BY <1>2 DEF ToSet
  <2>2. \A s : UpToStop(s)' = UpToStop(s)
    BY <1>5 DEF UpToStop
  <2>3. UpToStop(own)' = UpToStop(own)
    <3> HIDE DEF own
    <3> QED BY <1>5, <2>1 DEF UpToStop
  <2>4. \A s : Jumps(s)' = Jumps(s) /\ gotos(s)' = gotos(s)
    BY <1>2, <1>4
  <2> DEFINE mine == UpToStop(own)
  <2>5. Jumps(mine)' = Jumps(mine) /\ gotos(mine)' = gotos(mine)
    <3> HIDE DEF own, mine
    <3>1. mine' = mine
      BY <2>3 DEF mine
    <3> QED BY <1>2, <1>4, <3>1
  <2> DEFINE from == Jumps(mine)
             code == Code(from)
  <2>6. code' = code
    <3>1. from' = from
      BY <2>5
    <3> HIDE DEF from
    <3> QED BY <1>2, <3>1 DEF ToSet
  <2>7. UpToStop(code)' = UpToStop(code)
    <3> HIDE DEF code
    <3> QED BY <1>5, <2>6 DEF UpToStop
  <2>8. Executed(n) = (mine \ gotos(mine)) \cup UpToStop(code)
    BY DEF Executed
  <2>9. Executed(n)' = (mine' \ gotos(mine)') \cup UpToStop(code)'
    BY DEF Executed
  <2> QED BY <2>3, <2>5, <2>7, <2>8, <2>9
<1>7. \A n : Executed(n)' = Executed(n)
  BY <1>6
<1> QED BY <1>1, <1>2, <1>3, <1>4, <1>5, <1>7

\* Whether a list is what is executed does not change.
LEMMA SamePath ==
    ASSUME function' = function, heads' = heads, NEW k, Follows(heads[k], EHCs'[k])
    PROVE  Follows(heads[k], EHCs[k])'
<1> DEFINE b == heads[k].headStmt
<1>1. b' = b
  OBVIOUS
<1> HIDE DEF b
<1>2. Node(b)' = Node(b) /\ Children(b)' = Children(b)
  BY <1>1, SameEnds DEF Node, Children, InOrder, Nodes
<1> QED BY <1>2, SameEnds DEF Follows

\* The handlers that leave the heads alone leave alone how they end.
LEMMA EndsKept ==
    ASSUME EndsInv, function' = function, heads' = heads
    PROVE  EndsInv'
BY SameEnds DEF EndsInv, ToSet

\* PathInv is kept by find_ehc_stmts,
LEMMA CollectPath ==
    ASSUME PathInv, find_ehc_stmts
    PROVE  PathInv'
<1>1. /\ DInv /\ Orderly(function.node) /\ EndsInv /\ function' = function /\ heads' = heads
      /\ stage = "find_ehc_stmts" /\ Advance(Len(heads), "delete_printks")
      /\ \A k \in DOMAIN EHCs : Follows(heads[k], EHCs[k])
  BY DEF PathInv, find_ehc_stmts
<1>2. DInv' /\ Orderly(function.node)' /\ EndsInv'
  BY <1>1, CollectStep, SameEnds, EndsKept
<1>3. /\ EHCs \in Seq(Seq(Nodes)) /\ Len(EHCs) \in Nat /\ DOMAIN EHCs = 1..Len(EHCs)
      /\ heads \in Seq(HeadType) /\ Len(heads) \in Nat /\ at \in Nat \ {0} /\ Len(EHCs) <= Len(heads)
  BY <1>1, LenProperties DEF DInv, HeadsInv, BlocksInv
<1>4. \/ at < Len(heads) /\ stage' = stage
      \/ ~(at < Len(heads)) /\ stage' = "delete_printks"
  BY <1>1 DEF Advance
<1>5. /\ \A k \in DOMAIN EHCs' : Follows(heads[k], EHCs'[k])
      /\ stage' = "delete_printks" => Len(EHCs') = Len(heads)
  <2>1. CASE heads = <<>>
    <3>1. EHCs' = EHCs /\ Len(heads) = 0
      BY <2>1 DEF find_ehc_stmts
    <3> QED BY <1>1, <1>3, <3>1
  <2>2. CASE heads # <<>>
    <3>1. PICK stmts \in Seq(Nodes) : EHCs' = Append(EHCs, stmts) /\ Follows(heads[at], stmts)
      BY <1>1, <2>2, CollectsPath
    <3>2. Len(EHCs) = at - 1 /\ at <= Len(heads)
      BY <1>1, <2>2 DEF DInv, BlocksInv
    <3>3. /\ Len(EHCs') = at /\ DOMAIN EHCs' = 1..at /\ EHCs'[at] = stmts
          /\ \A k \in 1..(at - 1) : EHCs'[k] = EHCs[k] /\ k \in DOMAIN EHCs
      BY <1>3, <3>1, <3>2, AppendProperties
    <3>4. ASSUME NEW k \in 1..at PROVE Follows(heads[k], EHCs'[k])
      <4>1. CASE k = at
        BY <3>1, <3>3, <4>1
      <4>2. CASE k # at
        <5>1. k \in 1..(at - 1)
          BY <1>3, <4>2
        <5> QED BY <1>1, <3>3, <5>1
      <4> QED BY <4>1, <4>2
    <3>5. stage' = "delete_printks" => Len(EHCs') = Len(heads)
      BY <1>1, <1>3, <1>4, <3>2, <3>3
    <3> QED BY <3>3, <3>4, <3>5
  <2> QED BY <2>1, <2>2
<1>6. ASSUME NEW k \in DOMAIN EHCs' PROVE Follows(heads[k], EHCs[k])'
  BY <1>1, <1>5, SamePath
<1> QED BY <1>1, <1>2, <1>5, <1>6 DEF PathInv

\* and by the other handlers.
LEMMA PathStep == PathInv /\ [Next]_vars => PathInv'
<1> SUFFICES ASSUME PathInv, [Next]_vars PROVE PathInv'
  OBVIOUS
<1>1. DInv /\ Orderly(function.node) /\ EndsInv /\ DInv' /\ function' = function
  BY DatabaseStep DEF PathInv, Next, vars, recursiveVisit_if, ehc_head_clean_duplicates,
     find_ehc_stmts, delete_printks, handle_return, find_ehc_new_stmts, find_pairs
<1>2. Orderly(function.node)' /\ IsTree(function.node) /\ at \in Nat \ {0} /\ heads \in Seq(HeadType)
  BY <1>1, SameEnds DEF DInv, HeadsInv
<1>3. CASE recursiveVisit_if
  <2>1. stage' = "ehc_head_clean_duplicates"
    BY <1>2, <1>3, AdvanceOnce DEF recursiveVisit_if
  <2>2. EndsInv'
    BY <1>1, <1>2, <1>3, VisitEnds, SameEnds DEF Ends, EndsInv, ToSet
  <2> QED BY <1>1, <1>2, <2>1, <2>2 DEF PathInv
<1>4. CASE ehc_head_clean_duplicates
  <2>1. stage' = "find_ehc_stmts" /\ EHCs' = EHCs /\ EHCs = <<>>
    BY <1>1, <1>2, <1>4, AdvanceOnce, Distinguish DEF ehc_head_clean_duplicates, DInv, BlocksInv
  <2>2. EndsInv'
    BY <1>1, <1>2, <1>4, CleanEnds, SameEnds DEF Ends, EndsInv, ToSet
  <2> QED BY <1>1, <1>2, <2>1, <2>2 DEF PathInv
<1>5. CASE find_ehc_stmts
  BY <1>5, CollectPath
<1>6. CASE delete_printks \/ handle_return \/ find_ehc_new_stmts
  <2>1. heads' = heads /\ stage' \in {"handle_return", "find_ehc_new_stmts", "find_pairs"}
    BY <1>2, <1>6, AdvanceOnce DEF delete_printks, handle_return, find_ehc_new_stmts
  <2> QED BY <1>1, <1>2, <2>1, EndsKept DEF PathInv
<1>7. CASE find_pairs
  <2>1. heads' = heads /\ stage' \in {"find_pairs", "done"}
    BY <1>7 DEF find_pairs, Advance
  <2> QED BY <1>1, <1>2, <2>1, EndsKept DEF PathInv
<1>8. CASE UNCHANGED vars
  <2>1. stage' = stage /\ heads' = heads /\ EHCs' = EHCs
    BY <1>8 DEF vars
  <2>2. stage \in {"find_ehc_stmts", "delete_printks"} =>
            \A k \in DOMAIN EHCs : Follows(heads[k], EHCs[k])'
    BY <1>1, <2>1, SamePath DEF PathInv
  <2> QED BY <1>1, <1>2, <2>1, <2>2, EndsKept DEF PathInv
<1> QED BY <1>3, <1>4, <1>5, <1>6, <1>7, <1>8 DEF Next

\* PathInv is an invariant of the pass wherever goto and return are used orderly.
THEOREM PathInvariant ==
    ASSUME \A f \in Sources : Orderly(f.node)
    PROVE  Spec => []PathInv
<1>1. Init => PathInv
  <2> SUFFICES ASSUME Init PROVE PathInv
    OBVIOUS
  <2>1. DInv /\ Orderly(function.node)
    BY DatabaseInit DEF Init
  <2>2. ToSet(heads) = {} /\ stage = "recursiveVisit_if"
    BY DEF Init, ToSet
  <2> QED BY <2>1, <2>2 DEF PathInv, EndsInv
<1> QED BY <1>1, PathStep, PTL DEF Spec

\* The statements of a braced branch that ends with a goto or a return are those that
\* are executed, through the label of the goto, unless one of them is a labelled return.
THEOREM PathCorrect ==
    ASSUME \A f \in Sources : Orderly(f.node)
    PROVE  Spec => []PathFollowed
<1>1. ASSUME PathInv PROVE PathFollowed
  <2>1. ASSUME stage = "delete_printks" PROVE DOMAIN heads = DOMAIN EHCs
    BY <1>1, <2>1, LenProperties DEF PathInv, DInv, HeadsInv, BlocksInv
  <2> QED BY <1>1, <2>1 DEF PathInv, PathFollowed
<1> QED BY <1>1, PathInvariant, PTL
===============================================================================
