------------------------------ MODULE TreeProofs ------------------------------
(****************************************************************************)
(* Facts about syntax trees and what is searched for in them, which the     *)
(* proofs about the database pass and the pair search of Pass 2 rest on.    *)
(****************************************************************************)
EXTENDS SyntaxTree, FilterProofs

-----------------------------------------------------------------------------
(* The syntax tree. *)

Size == Len(function.node)
Up(n) == Node(n).up

\* The nodes are numbered, and what contains a node stands before it.
LEMMA TreeNodes ==
    ASSUME IsTree(function.node)
    PROVE  /\ Size \in Nat \ {0} /\ Nodes = 1..Size
           /\ Up(1) = 1 /\ Node(1).kind = "block"
           /\ \A n \in Nodes : Node(n) \in NodeType
           /\ \A n \in Nodes \ {1} : Up(n) \in Nodes /\ Up(n) < n
<1>1. function.node \in Seq(NodeType) /\ function.node # <<>>
  BY DEF IsTree
<1>2. Size \in Nat \ {0} /\ Nodes = 1..Size
  BY <1>1, LenProperties, EmptySeq DEF Size, Nodes
<1>3. \A n \in Nodes : Node(n) \in NodeType
  BY <1>1, <1>2, ElementOfSeq DEF Node, Size
<1>4. Up(1) = 1 /\ Node(1).kind = "block"
  BY DEF IsTree, IsPreorder, IsProgram, Up, Node
<1>5. ASSUME NEW n \in Nodes \ {1} PROVE Up(n) \in Nodes /\ Up(n) < n
  <2>1. n \in 2..Len(function.node)
    BY <1>2 DEF Size
  <2>2. Up(n) < n
    BY <2>1 DEF IsTree, IsPreorder, Up, Node
  <2>3. Up(n) \in Nat \ {0}
    BY <1>3 DEF NodeType, Up
  <2> QED BY <1>2, <2>1, <2>2, <2>3 DEF Size
<1> QED BY <1>2, <1>3, <1>4, <1>5

\* run[m] is a node and its ancestors, for the first d nodes.
Climbs(run, d) ==
    /\ run = [m \in 1..d |-> run[m]]
    /\ \A m \in 1..d : run[m] = IF m = 1 THEN {1} ELSE {m} \cup run[Up(m)]

\* They can be collected node by node.
LEMMA ClimbsRun ==
    ASSUME IsTree(function.node)
    PROVE  \E run : Climbs(run, Size)
<1>0. Size \in Nat /\ Nodes = 1..Size
  BY TreeNodes
<1> DEFINE X == {d \in 0..Size : \E run : Climbs(run, d)}
<1>1. 0 \in X
  <2>1. Climbs([d \in 1..0 |-> {}], 0)
    BY DEF Climbs
  <2> QED BY <1>0, <2>1
<1>2. ASSUME NEW d \in 1..Size, d - 1 \in X PROVE d \in X
  <2>1. PICK run : Climbs(run, d - 1)
    BY <1>2
  <2> DEFINE last == IF d = 1 THEN {1} ELSE {d} \cup run[Up(d)]
             more == [e \in 1..d |-> IF e = d THEN last ELSE run[e]]
  <2>2. more = [e \in 1..d |-> more[e]]
    OBVIOUS
  <2>3. more[d] = last /\ \A e \in 1..(d - 1) : more[e] = run[e]
    <3>1. d \in 1..d /\ \A e \in 1..(d - 1) : e \in 1..d /\ e # d
      BY <1>0
    <3> HIDE DEF last
    <3> QED BY <3>1
  <2>4. ASSUME NEW e \in 1..d
        PROVE  more[e] = IF e = 1 THEN {1} ELSE {e} \cup more[Up(e)]
    <3>1. e # 1 => Up(e) \in 1..(d - 1) /\ Up(e) < e
      <4>1. e # 1 => e \in Nodes \ {1}
        BY <1>0
      <4>2. e # 1 => Up(e) \in 1..Size /\ Up(e) < e
        BY <1>0, <4>1, TreeNodes
      <4> QED BY <1>0, <4>2
    <3>2. CASE e = d
      BY <2>3, <3>1, <3>2
    <3>3. CASE e # d
      <4>1. e \in 1..(d - 1)
        BY <3>3
      <4>2. run[e] = IF e = 1 THEN {1} ELSE {e} \cup run[Up(e)]
        BY <2>1, <4>1 DEF Climbs
      <4> QED BY <2>3, <3>1, <4>1, <4>2
    <3> QED BY <3>2, <3>3
  <2> HIDE DEF more, last
  <2>5. Climbs(more, d)
    BY <2>2, <2>4 DEF Climbs
  <2>6. d \in 0..Size
    BY <1>0
  <2> QED BY <2>5, <2>6
<1> HIDE DEF X
<1>3. Size \in X
  <2>1. \A d \in 0..Size : d \in X
    BY <1>0, <1>1, <1>2, EveryTurn
  <2> QED BY <1>0, <2>1
<1> QED BY <1>3 DEF X

\* A node is above itself, and what is above its parent is above it.
LEMMA AboveClimbs ==
    ASSUME IsTree(function.node)
    PROVE  /\ Above(1) = {1}
           /\ \A n \in Nodes \ {1} : Above(n) = {n} \cup Above(Up(n))
<1>0. Size \in Nat \ {0} /\ Nodes = 1..Size
  BY TreeNodes
<1>1. PICK run : Climbs(run, Size)
  BY ClimbsRun
<1>2. run = [m \in Nodes |-> IF m = 1 THEN {1} ELSE {m} \cup run[Node(m).up]]
  BY <1>0, <1>1 DEF Climbs, Up
<1> DEFINE above == CHOOSE f : f = [m \in Nodes |-> IF m = 1 THEN {1} ELSE {m} \cup f[Node(m).up]]
<1>3. above = [m \in Nodes |-> IF m = 1 THEN {1} ELSE {m} \cup above[Node(m).up]]
  BY <1>2
<1>4. \A n : Above(n) = above[n]
  BY DEF Above
<1> HIDE DEF above
<1>5. \A m \in Nodes : above[m] = IF m = 1 THEN {1} ELSE {m} \cup above[Node(m).up]
  BY <1>3
<1>6. 1 \in Nodes
  BY <1>0
<1> QED BY <1>4, <1>5, <1>6 DEF Up

\* What is above a node is not behind it.
LEMMA AboveBefore ==
    ASSUME IsTree(function.node), NEW n \in Nodes
    PROVE  n \in Above(n) /\ 1 \in Above(n) /\ Above(n) \subseteq 1..n
<1>0. Size \in Nat \ {0} /\ Nodes = 1..Size
  BY TreeNodes
<1> DEFINE Fine(m) == m \in Above(m) /\ 1 \in Above(m) /\ Above(m) \subseteq 1..m
           X == {d \in 0..Size : \A m \in 1..d : Fine(m)}
<1>1. 0 \in X
  BY <1>0
<1>2. ASSUME NEW d \in 1..Size, d - 1 \in X PROVE d \in X
  <2>1. \A m \in 1..(d - 1) : Fine(m)
    BY <1>2
  <2>2. Fine(d)
    <3>1. CASE d = 1
      BY <3>1, AboveClimbs
    <3>2. CASE d # 1
      <4>1. Above(d) = {d} \cup Above(Up(d)) /\ Up(d) \in Nodes /\ Up(d) < d
        BY <1>0, <3>2, AboveClimbs, TreeNodes
      <4>2. Up(d) \in 1..(d - 1)
        BY <1>0, <4>1
      <4>3. Fine(Up(d))
        <5> HIDE DEF Fine
        <5> QED BY <2>1, <4>2
      <4>4. 1..Up(d) \subseteq 1..d /\ d \in 1..d
        BY <4>2
      <4> QED BY <4>1, <4>3, <4>4
    <3> QED BY <3>1, <3>2
  <2>3. \A m \in 1..d : m = d \/ m \in 1..(d - 1)
    OBVIOUS
  <2>4. d \in 0..Size
    BY <1>0
  <2> HIDE DEF Fine
  <2> QED BY <2>1, <2>2, <2>3, <2>4
<1> HIDE DEF X
<1>3. Size \in X
  <2>1. \A d \in 0..Size : d \in X
    BY <1>0, <1>1, <1>2, EveryTurn
  <2> QED BY <1>0, <2>1
<1> QED BY <1>0, <1>3 DEF X

\* What stands between a node and one that it contains has its parent there too.
LEMMA BetweenParts ==
    ASSUME IsTree(function.node), NEW n \in Nodes, NEW m \in Above(n), NEW x \in (m + 1)..n
    PROVE  Up(x) >= m
<1>0. Size \in Nat \ {0} /\ Nodes = 1..Size
  BY TreeNodes
<1> DEFINE Fine(k) == \A a \in Above(k) : \A y \in (a + 1)..k : Up(y) >= a
           X == {d \in 0..Size : \A k \in 1..d : Fine(k)}
<1>1. 0 \in X
  BY <1>0
<1>2. ASSUME NEW d \in 1..Size, d - 1 \in X PROVE d \in X
  <2>1. \A k \in 1..(d - 1) : Fine(k)
    BY <1>2
  <2>2. ASSUME NEW a \in Above(d), NEW y \in (a + 1)..d PROVE Up(y) >= a
    <3>1. a \in 1..d
      BY <1>0, AboveBefore
    <3>2. a # d /\ d # 1 /\ d \in Nodes \ {1}
      BY <1>0, <3>1
    <3>3. a \in Above(Up(d)) /\ Up(d) \in Nodes /\ Up(d) < d
      BY <3>2, AboveClimbs, TreeNodes
    <3>4. a \in 1..Up(d)
      BY <3>3, AboveBefore
    <3>5. Up(d) \in 1..(d - 1)
      BY <1>0, <3>3
    <3>6. Fine(Up(d))
      <4> HIDE DEF Fine
      <4> QED BY <2>1, <3>5
    <3>7. CASE y <= Up(d)
      <4>1. y \in (a + 1)..Up(d)
        BY <3>1, <3>5, <3>7
      <4> QED BY <3>3, <3>6, <4>1
    <3>8. CASE ~(y <= Up(d))
      <4>1. y \in (Up(d) + 1)..d /\ y \in Nodes
        BY <1>0, <3>1, <3>5, <3>8
      <4>2. d \in 2..Len(function.node)
        BY <1>0, <3>2 DEF Size
      <4>3. Up(y) >= Up(d)
        BY <4>1, <4>2 DEF IsTree, IsPreorder, Up, Node
      <4>4. Up(y) \in Nat
        BY <4>1, TreeNodes DEF NodeType, Up
      <4> QED BY <3>4, <3>5, <4>3, <4>4
    <3> QED BY <3>7, <3>8
  <2>3. \A k \in 1..d : k = d \/ k \in 1..(d - 1)
    OBVIOUS
  <2>4. d \in 0..Size
    BY <1>0
  <2>5. Fine(d)
    BY <2>2
  <2> HIDE DEF Fine
  <2> QED BY <2>1, <2>3, <2>4, <2>5
<1> HIDE DEF X
<1>3. Size \in X
  <2>1. \A d \in 0..Size : d \in X
    BY <1>0, <1>1, <1>2, EveryTurn
  <2> QED BY <1>0, <2>1
<1> QED BY <1>0, <1>3 DEF X

\* A node contains what stands between it and one that it contains.
LEMMA Contiguous ==
    ASSUME IsTree(function.node), NEW n \in Nodes, NEW m \in Above(n), NEW x \in m..n
    PROVE  x \in Nodes /\ m \in Above(x)
<1>0. Size \in Nat \ {0} /\ Nodes = 1..Size /\ m \in 1..n
  BY TreeNodes, AboveBefore
<1> DEFINE X == {d \in 0..(n - m) : \A k \in m..(m + d) : m \in Above(k)}
<1>1. 0 \in X
  <2>1. m \in Nodes
    BY <1>0
  <2>2. m \in Above(m)
    BY <2>1, AboveBefore
  <2>3. 0 \in 0..(n - m) /\ \A k \in m..(m + 0) : k = m
    BY <1>0
  <2> QED BY <2>2, <2>3
<1>2. ASSUME NEW d \in 1..(n - m), d - 1 \in X PROVE d \in X
  <2>1. \A k \in m..(m + d - 1) : m \in Above(k)
    BY <1>0, <1>2
  <2> DEFINE k == m + d
  <2>2. k \in (m + 1)..n /\ k \in Nodes \ {1} /\ d \in 0..(n - m)
    BY <1>0
  <2>3. Up(k) >= m /\ Up(k) \in Nodes /\ Up(k) < k /\ Above(k) = {k} \cup Above(Up(k))
    BY <2>2, BetweenParts, TreeNodes, AboveClimbs
  <2>4. Up(k) \in m..(m + d - 1)
    BY <1>0, <2>3
  <2>5. m \in Above(k)
    BY <2>1, <2>3, <2>4
  <2>6. \A j \in m..(m + d) : j = k \/ j \in m..(m + d - 1)
    BY <1>0
  <2> QED BY <2>1, <2>2, <2>5, <2>6
<1> HIDE DEF X
<1>3. n - m \in Nat
  BY <1>0
<1>4. n - m \in X
  <2>1. \A d \in 0..(n - m) : d \in X
    BY <1>1, <1>2, <1>3, EveryTurn
  <2> QED BY <1>3, <2>1
<1>5. x \in m..(m + (n - m)) /\ x \in Nodes
  BY <1>0
<1> QED BY <1>4, <1>5 DEF X

\* The line of a node is the last statement that it is in.
LEMMA LineIsLast ==
    ASSUME IsTree(function.node), NEW n \in Nodes
    PROVE  /\ Line(n) \in Above(n) /\ IsStatement(Line(n))
           /\ \A m \in Above(n) : IsStatement(m) => Line(n) >= m
<1>1. Above(n) \subseteq 1..n /\ 1 \in Above(n) /\ n \in Nat
  BY AboveBefore, TreeNodes
<1> DEFINE S == {m \in Above(n) : IsStatement(m)}
<1>2. S \in SUBSET (0..n) /\ S # {}
  BY <1>1 DEF IsStatement
<1>3. Line(n) = Max(S)
  BY DEF Line
<1> HIDE DEF S
<1>4. Max(S) \in S /\ \A x \in S : Max(S) >= x
  BY <1>1, <1>2, Extremes
<1> QED BY <1>3, <1>4 DEF S

\* Statements are in blocks, ifs and labels, which are statements themselves, and
\* a label has one.
LEMMA TreeShape ==
    ASSUME IsTree(function.node), NEW n \in Nodes
    PROVE  /\ Node(n).kind \in {"block", "if", "label"} =>
                  Node(Up(n)).kind \in {"block", "if", "label"}
           /\ n # 1 /\ Node(Up(n)).kind = "label" => n = Up(n) + 1
           /\ Node(n).kind = "call" => Node(n).fn \in Fn
           /\ Node(n).kind = "if" => \E m \in Nodes : m >= n + 2 /\ Up(m) = n
           /\ Node(n).kind = "label" => n + 1 \in Nodes /\ Up(n + 1) = n
<1>0. Size \in Nat \ {0} /\ Nodes = 1..Size
  BY TreeNodes
<1>1. IsProgram(function.node)
  BY DEF IsTree
<1>2. /\ Node(n).kind = "call" => Node(n).fn \in Fn
      /\ Node(n).kind \in {"block", "if", "label"} =>
             Node(Up(n)).kind \in {"block", "if", "label"}
  BY <1>1 DEF IsProgram, Nodes, Node, Up
<1>3. Node(n).kind = "if" => \E m \in Nodes : m >= n + 2 /\ Up(m) = n
  <2>1. Node(n).kind = "if" => \E m \in (n + 2)..Size : Up(m) = n
    BY <1>1 DEF IsProgram, Nodes, Node, Up, Size
  <2> QED BY <1>0, <2>1
<1>4. \A m \in Nodes : Node(m).kind = "label" => {k \in Nodes : Up(k) = m} = {m + 1}
  BY <1>1 DEF IsProgram, Nodes, Node, Up
<1>5. n # 1 /\ Node(Up(n)).kind = "label" => n = Up(n) + 1
  <2>1. n # 1 => Up(n) \in Nodes
    BY TreeNodes
  <2> QED BY <1>4, <2>1
<1>6. Node(n).kind = "label" => n + 1 \in Nodes /\ Up(n + 1) = n
  BY <1>4
<1> QED BY <1>2, <1>3, <1>5, <1>6

\* What contains a block, an if or a label is one.
LEMMA ContainsStatements ==
    ASSUME IsTree(function.node), NEW n \in Nodes, NEW m \in Above(n),
           Node(n).kind \in {"block", "if", "label"}
    PROVE  Node(m).kind \in {"block", "if", "label"}
<1>0. Size \in Nat \ {0} /\ Nodes = 1..Size
  BY TreeNodes
<1> DEFINE Holds(k) == Node(k).kind \in {"block", "if", "label"}
           Fine(k) == Holds(k) => \A a \in Above(k) : Holds(a)
           X == {d \in 0..Size : \A k \in 1..d : Fine(k)}
<1>1. 0 \in X
  BY <1>0
<1>2. ASSUME NEW d \in 1..Size, d - 1 \in X PROVE d \in X
  <2>1. \A k \in 1..(d - 1) : Fine(k)
    BY <1>2
  <2>2. Fine(d)
    <3>1. CASE d = 1
      BY <3>1, AboveClimbs
    <3>2. CASE d # 1
      <4>1. Above(d) = {d} \cup Above(Up(d)) /\ Up(d) \in Nodes /\ Up(d) < d
        BY <1>0, <3>2, AboveClimbs, TreeNodes
      <4>2. Up(d) \in 1..(d - 1)
        BY <1>0, <4>1
      <4>3. Fine(Up(d))
        <5> HIDE DEF Fine
        <5> QED BY <2>1, <4>2
      <4>4. Holds(d) => Holds(Up(d))
        BY <1>0, TreeShape
      <4> HIDE DEF Holds
      <4> QED BY <4>1, <4>3, <4>4
    <3> QED BY <3>1, <3>2
  <2>3. \A k \in 1..d : k = d \/ k \in 1..(d - 1)
    OBVIOUS
  <2>4. d \in 0..Size
    BY <1>0
  <2> HIDE DEF Fine
  <2> QED BY <2>1, <2>2, <2>3, <2>4
<1> HIDE DEF X
<1>3. Size \in X
  <2>1. \A d \in 0..Size : d \in X
    BY <1>0, <1>1, <1>2, EveryTurn
  <2> QED BY <1>0, <2>1
<1> QED BY <1>0, <1>3 DEF X

\* The braces of an else stand on the line of its if; but apart from braces,
\* nothing that comes later in the tree has an earlier line.
LEMMA LaterLines ==
    ASSUME IsTree(function.node), NEW b \in Nodes, NEW n \in Nodes, n > b
    PROVE  Line(n) >= Line(b) \/ Node(n).kind = "block"
<1>0. Size \in Nat \ {0} /\ Nodes = 1..Size
  BY TreeNodes
<1> DEFINE M == Line(b)
           Fine(k) == k > b => Line(k) >= M \/ Node(k).kind = "block"
           X == {d \in 0..Size : \A k \in 1..d : Fine(k)}
<1>1. M \in Above(b) /\ IsStatement(M) /\ M \in 1..b
  BY LineIsLast, AboveBefore
<1> HIDE DEF M
<1>2. ASSUME NEW k \in Nodes, NEW a \in Above(k), IsStatement(a), a >= M PROVE Line(k) >= M
  <2>1. Line(k) >= a /\ Line(k) \in 1..k /\ a \in 1..k
    BY <1>2, LineIsLast, AboveBefore
  <2> QED BY <1>0, <1>1, <1>2, <2>1
<1>3. 0 \in X
  BY <1>0
<1>4. ASSUME NEW k \in 1..Size, k - 1 \in X PROVE k \in X
  <2>1. \A j \in 1..(k - 1) : Fine(j)
    BY <1>4
  <2>2. SUFFICES Fine(k)
    <3>1. \A j \in 1..k : j = k \/ j \in 1..(k - 1)
      OBVIOUS
    <3>2. k \in 0..Size
      BY <1>0
    <3> HIDE DEF Fine
    <3> QED BY <2>1, <3>1, <3>2
  <2>3. SUFFICES ASSUME k > b, Node(k).kind # "block" PROVE Line(k) >= M
    OBVIOUS
  <2>4. CASE IsStatement(k)
    <3>1. k \in Above(k) /\ k >= M
      BY <1>0, <1>1, <2>3, AboveBefore
    <3> QED BY <1>0, <1>2, <2>4, <3>1
  <2>5. CASE ~IsStatement(k)
    <3> DEFINE p == Up(k)
    <3>1. k \in Nodes \ {1}
      BY <1>0, <2>5 DEF IsStatement
    <3>2. Above(k) = {k} \cup Above(p) /\ p \in Nodes /\ p < k
      BY <3>1, AboveClimbs, TreeNodes
    <3>3. Node(p).kind # "block" /\ ~(Node(p).kind = "if" /\ k > p + 1)
      BY <2>3, <2>5 DEF IsStatement, Up
    <3> HIDE DEF p
    <3>4. CASE p > b
      <4>1. Line(p) >= M
        <5>1. p \in 1..(k - 1)
          BY <1>0, <3>2
        <5>2. Fine(p)
          <6> HIDE DEF Fine
          <6> QED BY <2>1, <5>1
        <5> QED BY <3>3, <3>4, <5>2
      <4>2. Line(p) \in Above(k) /\ IsStatement(Line(p))
        BY <3>2, LineIsLast
      <4> QED BY <1>0, <1>2, <4>1, <4>2
    <3>5. CASE ~(p > b)
      <4>1. p \in Above(k) /\ b \in p..k
        BY <1>0, <2>3, <3>2, <3>5, AboveBefore
      <4>2. p \in Above(b)
        BY <1>0, <4>1, Contiguous
      <4>3. CASE M <= p
        <5>1. p \in M..b
          BY <1>0, <1>1, <3>2, <3>5, <4>3
        <5>2. M \in Above(p)
          BY <1>1, <5>1, Contiguous
        <5>3. M \in Above(k) /\ M >= M
          BY <1>1, <3>2, <5>2
        <5> QED BY <1>0, <1>1, <1>2, <5>3
      <4>4. CASE ~(M <= p)
        <5>1. M \in p..b
          BY <1>0, <1>1, <3>2, <4>4
        <5>2. M \in Nodes /\ p \in Above(M)
          BY <4>2, <5>1, Contiguous
        <5>3. M # 1 /\ M # p
          BY <1>0, <3>2, <4>4
        <5>4. p \in Above(Up(M)) /\ Up(M) \in Nodes
          BY <5>2, <5>3, AboveClimbs, TreeNodes
        <5>5. Node(Up(M)).kind \in {"block", "if"}
          BY <1>1, <5>3 DEF IsStatement, Up
        <5>6. Node(p).kind \in {"block", "if", "label"}
          BY <5>4, <5>5, ContainsStatements
        <5>7. k > p + 1
          BY <1>0, <1>1, <2>3, <3>2, <4>4, <5>1
        <5>8. Node(p).kind # "label"
          <6>1. Node(p).kind = "label" => k = p + 1
            BY <3>1, TreeShape DEF p
          <6> QED BY <1>0, <3>2, <5>7, <6>1
        <5> QED BY <3>3, <5>6, <5>7, <5>8
      <4> QED BY <4>3, <4>4
    <3> QED BY <3>4, <3>5
  <2> QED BY <2>4, <2>5
<1> HIDE DEF X
<1>5. Size \in X
  <2>1. \A d \in 0..Size : d \in X
    BY <1>0, <1>3, <1>4, EveryTurn
  <2> QED BY <1>0, <2>1
<1>6. Fine(n)
  <2> HIDE DEF Fine
  <2> QED BY <1>0, <1>5 DEF X
<1> QED BY <1>6 DEF M

\* What is no block and stands on an earlier line stands before that line.
LEMMA EarlierLine ==
    ASSUME IsTree(function.node), NEW b \in Nodes, NEW n \in Nodes, Node(n).kind # "block",
           Line(n) < Line(b)
    PROVE  n < Line(b) /\ Line(b) \in Nodes
<1>0. Size \in Nat \ {0} /\ Nodes = 1..Size
  BY TreeNodes
<1>1. Line(b) \in 1..b /\ IsStatement(Line(b)) /\ Line(n) \in 1..n
  BY LineIsLast, AboveBefore
<1>2. Line(b) \in Nodes
  BY <1>0, <1>1
<1> DEFINE l == Line(b)
<1>3. Line(l) >= l /\ Line(l) \in 1..l
  <2> HIDE DEF l
  <2>1. l \in Above(l) /\ Line(l) \in 1..l
    BY <1>2, LineIsLast, AboveBefore DEF l
  <2>2. IsStatement(l)
    BY <1>1 DEF l
  <2> QED BY <1>2, <2>1, <2>2, LineIsLast DEF l
<1>4. n > l => Line(n) >= Line(l)
  <2> HIDE DEF l
  <2> QED BY <1>2, LaterLines DEF l
<1>5. n = l => Line(n) = Line(l)
  OBVIOUS
<1> HIDE DEF l
<1>6. l = Line(b)
  BY DEF l
<1> QED BY <1>0, <1>1, <1>2, <1>3, <1>4, <1>5, <1>6

-----------------------------------------------------------------------------
(* Expressions. *)

\* The greatest of one.
LEMMA OneElement ==
    ASSUME NEW n \in Nat
    PROVE  Max({n}) = n
<1>1. {n} \in SUBSET (0..n) /\ {n} # {}
  OBVIOUS
<1> DEFINE S == {n}
<1>2. S \in SUBSET (0..n) /\ S # {}
  BY <1>1
<1> HIDE DEF S
<1>3. Max(S) \in S
  BY <1>2, Extremes
<1> QED BY <1>3 DEF S

\* What an expression consists of, read off IsSpelled.
LEMMA Spelling ==
    ASSUME IsTree(function.node), NEW n \in Nodes
    PROVE  /\ Node(n).kind = "call" => Node(n).fn \in Fn \ Uncalled
           /\ Node(n).kind = "indirect" => Node(n).fn \in Uncalled
           /\ Node(n).fn \in Fn \ Uncalled => Node(n).kind \in {"call", "cast", "assign"}
           /\ Node(n).lhs # NoTok <=> Node(n).kind = "assign"
           /\ Node(Up(n)).kind # "ref"
           /\ Node(Up(n)).kind \in {"call", "indirect", "cast", "assign"} => n = Up(n) + 1
           /\ Node(Up(n)).kind \in {"call", "indirect"} => Node(n).kind = "ref"
<1>1. IsSpelled(function.node)
  BY DEF IsTree
<1>2. Node(n).kind = "call" => Node(n).fn \in Fn
  BY TreeShape
<1>3. NoFn \notin Fn
  BY SyntaxTreeAssumption DEF SyntaxTreeAssumption
<1> QED BY <1>1, <1>2, <1>3 DEF IsSpelled, Nodes, Node, Up

\* What stands under a cast or an assignment reads like it.
LEMMA SpelledOut ==
    ASSUME IsTree(function.node), NEW n \in Nodes, Node(Up(n)).kind \in {"cast", "assign"}
    PROVE  /\ \/ Node(n).kind \in {"call", "indirect"}
              \/ Node(n).kind = "cast" /\ Node(Up(n)).kind = "assign"
           /\ Node(n).fn = Node(Up(n)).fn /\ Node(n).args = Node(Up(n)).args
<1>1. IsSpelled(function.node)
  BY DEF IsTree
<1> QED BY <1>1 DEF IsSpelled, Nodes, Node, Up

\* A cast holds a call, and is assigned.
LEMMA CastHolds ==
    ASSUME IsTree(function.node), NEW n \in Nodes, Node(n).kind = "cast"
    PROVE  Node(Up(n)).kind = "assign" /\ n + 1 \in Nodes /\ Up(n + 1) = n
<1>0. Size \in Nat \ {0} /\ Nodes = 1..Size
  BY TreeNodes
<1>1. Node(Up(n)).kind = "assign" /\ n < Size /\ Up(n + 1) = n
  <2>1. IsSpelled(function.node)
    BY DEF IsTree
  <2> QED BY <2>1 DEF IsSpelled, Nodes, Node, Up, Size
<1> QED BY <1>0, <1>1

\* In a call there is nothing but the name of what it calls.
LEMMA UnderCall ==
    ASSUME IsTree(function.node), NEW n \in Nodes, Node(n).kind = "call", NEW m \in Below(n), m # n
    PROVE  m = n + 1 /\ Node(m).kind = "ref"
<1>0. Size \in Nat \ {0} /\ Nodes = 1..Size
  BY TreeNodes
<1>1. m \in Nodes /\ n \in Above(m) /\ m > n
  <2>1. m \in Nodes /\ n \in Above(m)
    BY DEF Below
  <2> QED BY <1>0, <2>1, AboveBefore
<1>2. ASSUME NEW x \in (n + 1)..m PROVE x \in Nodes \ {1} /\ Up(x) >= n /\ Up(x) < x
  <2>1. x \in Nodes \ {1}
    BY <1>0, <1>1, <1>2
  <2>2. Up(x) >= n
    BY <1>1, <1>2, BetweenParts
  <2> QED BY <2>1, <2>2, TreeNodes
<1>3. Up(n + 1) = n /\ n + 1 \in Nodes
  <2>1. n + 1 \in (n + 1)..m
    BY <1>0, <1>1
  <2>2. n + 1 \in Nodes \ {1} /\ Up(n + 1) >= n /\ Up(n + 1) < n + 1 /\ Up(n + 1) \in Nodes
    BY <1>2, <2>1, TreeNodes
  <2> QED BY <1>0, <2>2
<1>4. Node(n + 1).kind = "ref"
  BY <1>3, Spelling
<1>5. m = n + 1
  <2> SUFFICES ASSUME m # n + 1 PROVE FALSE
    OBVIOUS
  <2>1. n + 2 \in (n + 1)..m
    BY <1>0, <1>1
  <2>2. n + 2 \in Nodes \ {1} /\ Up(n + 2) >= n /\ Up(n + 2) < n + 2 /\ Up(n + 2) \in Nodes
    BY <1>2, <2>1, TreeNodes
  <2>3. Up(n + 2) = n \/ Up(n + 2) = n + 1
    BY <1>0, <2>2
  <2>4. Up(n + 2) # n + 1
    BY <1>4, <2>2, Spelling
  <2>5. Up(n + 2) # n
    <3>1. Up(n + 2) = n => n + 2 = Up(n + 2) + 1
      BY <2>2, Spelling
    <3> QED BY <1>0, <3>1
  <2> QED BY <2>3, <2>4, <2>5
<1> QED BY <1>4, <1>5

\* In a cast there is nothing but a call and its name.
LEMMA UnderCast ==
    ASSUME IsTree(function.node), NEW n \in Nodes, Node(n).kind = "cast",
           Node(n + 1).kind = "call", NEW m \in Below(n), m # n
    PROVE  m = n + 1 \/ Node(m).kind = "ref"
<1>0. Size \in Nat \ {0} /\ Nodes = 1..Size
  BY TreeNodes
<1>1. m \in Nodes /\ n \in Above(m) /\ m > n
  <2>1. m \in Nodes /\ n \in Above(m)
    BY DEF Below
  <2> QED BY <1>0, <2>1, AboveBefore
<1>2. n + 1 \in Nodes /\ Up(n + 1) = n
  BY CastHolds
<1> SUFFICES ASSUME m # n + 1 PROVE Node(m).kind = "ref"
  OBVIOUS
<1>3. n + 2 \in Nodes /\ n \in Above(n + 2) /\ n + 2 \in (n + 1)..(n + 2) /\ n + 2 \in n..m
  <2>1. n + 2 \in n..m
    BY <1>0, <1>1
  <2>2. n + 2 \in Nodes /\ n \in Above(n + 2)
    BY <1>1, <2>1, Contiguous
  <2> QED BY <1>0, <2>1, <2>2
<1>4. Up(n + 2) = n + 1
  <2>1. Up(n + 2) >= n /\ Up(n + 2) < n + 2 /\ Up(n + 2) \in Nodes
    <3>1. n + 2 \in Nodes \ {1}
      BY <1>0, <1>3
    <3>2. Up(n + 2) >= n
      BY <1>3, BetweenParts
    <3> QED BY <3>1, <3>2, TreeNodes
  <2>2. Up(n + 2) = n => n + 2 = Up(n + 2) + 1
    BY <1>3, Spelling
  <2> QED BY <1>0, <2>1, <2>2
<1>5. Node(n + 2).kind = "ref"
  BY <1>2, <1>3, <1>4, Spelling
<1>6. m = n + 2
  <2> SUFFICES ASSUME m # n + 2 PROVE FALSE
    OBVIOUS
  <2>1. n + 3 \in n..m /\ n + 3 \in (n + 1)..(n + 3)
    BY <1>0, <1>1
  <2>2. n + 3 \in Nodes /\ n \in Above(n + 3)
    BY <1>1, <2>1, Contiguous
  <2>3. Up(n + 3) >= n /\ Up(n + 3) < n + 3 /\ Up(n + 3) \in Nodes
    <3>1. n + 3 \in Nodes \ {1}
      BY <1>0, <2>2
    <3>2. Up(n + 3) >= n
      BY <2>1, <2>2, BetweenParts
    <3> QED BY <3>1, <3>2, TreeNodes
  <2>4. Up(n + 3) # n + 2
    BY <1>5, <2>2, Spelling
  <2>5. Up(n + 3) \in {n, n + 1} => n + 3 = Up(n + 3) + 1
    BY <1>2, <2>2, Spelling
  <2> QED BY <1>0, <2>3, <2>4, <2>5
<1> QED BY <1>5, <1>6

\* So it is the call in an expression where the expression ends.
LEMMA EndOfCall ==
    ASSUME IsTree(function.node), NEW n \in Nodes, Node(n).kind = "call"
    PROVE  End(n) = n
<1> DEFINE S == {m \in Below(n) : Node(m).kind \in {"call", "indirect"}}
<1>1. n \in Below(n)
  BY AboveBefore DEF Below
<1>2. S = {n}
  BY <1>1, UnderCall
<1>3. End(n) = Max(S)
  BY DEF End
<1> HIDE DEF S
<1>4. n \in Nat
  BY TreeNodes
<1> QED BY <1>2, <1>3, <1>4, OneElement

\* And of a cast the call in it.
LEMMA EndOfCast ==
    ASSUME IsTree(function.node), NEW n \in Nodes, Node(n).kind = "cast", Node(n + 1).kind = "call"
    PROVE  End(n) = n + 1
<1> DEFINE S == {m \in Below(n) : Node(m).kind \in {"call", "indirect"}}
<1>1. n + 1 \in Nodes /\ Up(n + 1) = n /\ n \in Nat
  BY CastHolds, TreeNodes
<1>2. n + 1 \in Below(n)
  <2>1. n + 1 # 1
    BY <1>1, TreeNodes
  <2>2. n \in Above(n) /\ Above(n + 1) = {n + 1} \cup Above(n)
    BY <1>1, <2>1, AboveClimbs, AboveBefore
  <2> QED BY <1>1, <2>2 DEF Below
<1>3. S = {n + 1}
  BY <1>2, UnderCast
<1>4. End(n) = Max(S)
  BY DEF End
<1> HIDE DEF S
<1> QED BY <1>1, <1>3, <1>4, OneElement

-----------------------------------------------------------------------------
(* The search for a pair. *)

\* The similarity of two nodes is a number up to 100.
LEMMA EvaluationBound ==
    ASSUME IsTree(function.node), NEW u \in Nodes, NEW n \in Nodes
    PROVE  pair_evaluation(u, n) \in 0..100
<1>1. Node(u).fn \in Fn \cup {NoFn} /\ Node(n).fn \in Fn \cup {NoFn}
  BY TreeNodes DEF NodeType
<1>2. CASE NoFn \in {Node(u).fn, Node(n).fn}
  BY <1>2 DEF pair_evaluation
<1>3. CASE NoFn \notin {Node(u).fn, Node(n).fn}
  <2>1. <<Node(u).fn, Node(n).fn>> \in Fn \X Fn
    BY <1>1, <1>3
  <2>2. Similarity[Node(u).fn, Node(n).fn] \in 0..100
    BY <2>1, SyntaxTreeAssumption DEF SyntaxTreeAssumption
  <2> QED BY <1>3, <2>2 DEF pair_evaluation
<1> QED BY <1>2, <1>3

\* The pair of a statement is one of those nodes that were to be looked at, and
\* no block, or there is none.
LEMMA PairIsNear ==
    ASSUME IsTree(function.node), NEW u \in Nodes, NEW near \in SUBSET Nodes
    PROVE  \/ PairOf(u, near) = 0
           \/ PairOf(u, near) \in near /\ Node(PairOf(u, near)).kind # "block"
<1>0. Size \in Nat \ {0} /\ Nodes = 1..Size
  BY TreeNodes
<1> DEFINE found == recursive_pair_visit(u, near)
           candidates == recursive_probable_pair_visit(u, near)
           best == {n \in candidates : \A m \in candidates :
                                           pair_evaluation(u, m) <= pair_evaluation(u, n)}
<1>1. found \subseteq near /\ \A n \in found : Node(n).kind # "block"
  BY DEF recursive_pair_visit, is_pair, IsCall
<1>2. candidates \subseteq near /\ \A n \in candidates : Node(n).kind # "block"
  BY DEF recursive_probable_pair_visit
<1>3. PairOf(u, near) = IF found # {} THEN Min(found)
                        ELSE IF candidates = {} THEN 0 ELSE Min(best)
  BY DEF PairOf, pick_the_most_probable
<1> HIDE DEF found, candidates
<1>4. \A S \in SUBSET near : S # {} => Min(S) \in S
  <2>1. ASSUME NEW S \in SUBSET near, S # {} PROVE Min(S) \in S
    <3>1. S \in SUBSET (0..Size) /\ Size \in Nat
      BY <1>0
    <3> QED BY <2>1, <3>1, Extremes
  <2> QED BY <2>1
<1>5. CASE found # {}
  BY <1>1, <1>3, <1>4, <1>5
<1>6. CASE found = {} /\ candidates = {}
  BY <1>3, <1>6
<1>7. CASE found = {} /\ candidates # {}
  <2> DEFINE marks == {pair_evaluation(u, n) : n \in candidates}
  <2>1. marks \in SUBSET (0..100) /\ marks # {}
    BY <1>2, <1>7, EvaluationBound
  <2>2. Max(marks) \in marks /\ \A x \in marks : Max(marks) >= x
    <3> HIDE DEF marks
    <3>1. 100 \in Nat
      OBVIOUS
    <3> QED BY <2>1, <3>1, Extremes
  <2>3. PICK n \in candidates : pair_evaluation(u, n) = Max(marks)
    BY <2>2
  <2>4. \A m \in candidates : pair_evaluation(u, m) <= pair_evaluation(u, n)
    <3>1. \A m \in candidates : pair_evaluation(u, m) \in 0..100
      BY <1>2, EvaluationBound
    <3>2. \A m \in candidates : pair_evaluation(u, n) >= pair_evaluation(u, m)
      BY <2>2, <2>3
    <3> QED BY <3>1, <3>2
  <2>5. best # {} /\ best \in SUBSET near
    BY <1>2, <2>3, <2>4
  <2>6. Min(best) \in best
    BY <1>4, <2>5
  <2> QED BY <1>2, <1>3, <1>7, <2>6
<1> QED BY <1>5, <1>6, <1>7

-----------------------------------------------------------------------------
(* Lists of nodes. *)

\* Nodes in the order of the text.
LEMMA InOrderLists ==
    ASSUME IsTree(function.node), NEW S
    PROVE  /\ InOrder(S) \in Seq(Nodes) /\ ToSet(InOrder(S)) = Nodes \cap S
           /\ IsInjective(InOrder(S))
<1>0. Size \in Nat \ {0} /\ Nodes = 1..Size
  BY TreeNodes
<1> DEFINE all == [n \in Nodes |-> n]
<1>1. all \in Seq(Nodes) /\ ToSet(all) = Nodes /\ IsInjective(all)
  <2>1. all \in [1..Size -> Nodes]
    BY <1>0
  <2>2. all \in Seq(Nodes)
    BY <1>0, <2>1, SeqDef
  <2> QED BY <2>2 DEF ToSet, IsInjective
<1>2. InOrder(S) = Keep(all, S)
  BY DEF InOrder
<1> HIDE DEF all
<1> QED BY <1>1, <1>2, KeepElements, KeepInjective
===============================================================================
