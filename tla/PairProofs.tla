------------------------------ MODULE PairProofs ------------------------------
(****************************************************************************)
(* Proofs about the pair search of Pass 2, for every database, every        *)
(* similarity of texts and every function.                                  *)
(****************************************************************************)
EXTENDS PairProps, TreeProofs

-----------------------------------------------------------------------------
(* The function. *)

\* What IsFunction says of the function that is analysed.
LEMMA TheFunction ==
    ASSUME IsFunction(function)
    PROVE  /\ IsTree(function.node)
           /\ \A n \in Nodes : /\ Len(Node(n).args) <= 2
                               /\ Node(n).fn \in Kfrees => Node(n).args # <<>>
           /\ function.ehcs \in Seq([head : Nodes, news : Seq(Nodes), verified : BOOLEAN])
           /\ \A i \in DOMAIN function.ehcs : \A n \in ToSet(function.ehcs[i].news) :
                 n \notin function.macros /\ Node(n).kind # "cast"
BY DEF IsFunction, Nodes, Node

Candid == {n \in Nodes : n \notin function.macros /\ Node(n).kind # "cast"}

\* The list of all new undos, which are neither in macros nor casts.
LEMMA NewsList ==
    ASSUME IsFunction(function)
    PROVE  News \in Seq([ehc : DOMAIN function.ehcs, stmt : Candid])
<1> DEFINE T == [ehc : DOMAIN function.ehcs, stmt : Candid]
           Of(i) == [k \in DOMAIN function.ehcs[i].news |->
                        [ehc |-> i, stmt |-> function.ehcs[i].news[k]]]
           ss == [i \in DOMAIN function.ehcs |-> Of(i)]
<1>1. ASSUME NEW i \in DOMAIN function.ehcs PROVE Of(i) \in Seq(T)
  <2>1. function.ehcs[i].news \in Seq(Nodes)
    <3> DEFINE E == [head : Nodes, news : Seq(Nodes), verified : BOOLEAN]
    <3>1. function.ehcs \in Seq(E)
      BY TheFunction
    <3> HIDE DEF E
    <3>2. function.ehcs[i] \in E
      BY <3>1, ElementOfSeq
    <3> QED BY <3>2 DEF E
  <2>2. DOMAIN function.ehcs[i].news = 1..Len(function.ehcs[i].news) /\ Len(function.ehcs[i].news) \in Nat
    BY <2>1, LenProperties
  <2>3. \A k \in DOMAIN function.ehcs[i].news : function.ehcs[i].news[k] \in Candid
    BY <2>1, TheFunction DEF Candid, ToSet
  <2>4. Of(i) \in [1..Len(function.ehcs[i].news) -> T]
    BY <2>2, <2>3
  <2> QED BY <2>2, <2>4, SeqDef
<1>2. ss \in Seq(Seq(T))
  <2>1. DOMAIN function.ehcs = 1..Len(function.ehcs) /\ Len(function.ehcs) \in Nat
    BY TheFunction, LenProperties
  <2> HIDE DEF Of, T
  <2>2. ss \in [1..Len(function.ehcs) -> Seq(T)]
    BY <1>1, <2>1
  <2> QED BY <2>1, <2>2, SeqDef
<1>3. News = FlattenSeq(ss)
  BY DEF News
<1> HIDE DEF T, ss
<1>4. FlattenSeq(ss) \in Seq(T)
  BY <1>2, FlattenHolds
<1> QED BY <1>3, <1>4 DEF T

\* A statement that reads like an outer undo is one, unless it is in a macro.
LEMMA ReadsLikeOuter ==
    ASSUME IsTree(function.node), NEW u \in Candid, NEW o \in Nodes, IsOuter(o), Text(o) = Text(u)
    PROVE  IsOuter(u)
<1>1. u \in Nodes /\ u \notin function.macros /\ Node(u).kind # "cast"
  BY DEF Candid
<1>2. Node(o).kind = "call"
  BY DEF IsOuter, IsCall
<1>3. Node(u).fn = Node(o).fn /\ Node(u).lhs = Node(o).lhs
  BY DEF Text
<1>4. Node(u).fn \in Fn \ Uncalled /\ Node(u).lhs = NoTok
  BY <1>2, <1>3, Spelling
<1>5. Node(u).kind = "call"
  BY <1>1, <1>4, Spelling
<1> QED BY <1>1, <1>3, <1>5 DEF IsOuter, IsCall

\* What is_pair takes for an undo is an outer one, unless it is in a macro.
LEMMA PairIsOuter ==
    ASSUME NEW u \in Candid, NEW n, is_pair(u, n)
    PROVE  IsOuter(u)
<1>1. u \notin function.macros
  BY DEF Candid
<1>2. IsCall(u) /\ (Node(u).fn \in Frees \/ Node(u).fn \in DOMAIN LockOf)
  BY DEF is_pair
<1>3. Node(u).fn \in Frees => find_fnc(Node(u).fn) # {}
  BY PairSearchAssumption DEF PairSearchAssumption, find_fnc
<1> QED BY <1>1, <1>2, <1>3 DEF IsOuter

-----------------------------------------------------------------------------
(* Reading alike. *)

\* All the calls that read like a call are found by their text, wherever their
\* result goes.
LEMMA DuplicatesReadAlike ==
    ASSUME IsTree(function.node), NEW n \in Nodes, IsCall(n)
    PROVE  add_all_duplicate_database_pairs(n) = ReadsLike(n) /\ n \in ReadsLike(n)
<1>0. Node(n).kind = "call" /\ Node(n).fn \in Fn \ Uncalled /\ Node(n).lhs = NoTok
  BY Spelling DEF IsCall
<1> DEFINE alike == {m \in Nodes : IsExpression(m) /\ Text(m) = Text(n)}
<1>1. add_all_duplicate_database_pairs(n) = {n} \cup {End(m) : m \in alike}
  BY DEF add_all_duplicate_database_pairs
<1>2. n \in ReadsLike(n)
  BY <1>0 DEF ReadsLike
<1>3. ASSUME NEW m \in alike PROVE End(m) \in ReadsLike(n)
  <2>1. m \in Nodes /\ Node(m).fn = Node(n).fn /\ Node(m).args = Node(n).args /\ Node(m).lhs = NoTok
    BY <1>0 DEF Text
  <2>2. Node(m).kind = "call" \/ Node(m).kind = "cast"
    BY <1>0, <2>1, Spelling
  <2>3. CASE Node(m).kind = "call"
    <3>1. End(m) = m
      BY <2>1, <2>3, EndOfCall
    <3> QED BY <2>1, <2>3, <3>1 DEF ReadsLike
  <2>4. CASE Node(m).kind = "cast"
    <3>1. m + 1 \in Nodes /\ Up(m + 1) = m
      BY <2>1, <2>4, CastHolds
    <3>2. Node(m + 1).fn = Node(n).fn /\ Node(m + 1).args = Node(n).args
          /\ Node(m + 1).kind \in {"call", "indirect"}
      BY <2>1, <2>4, <3>1, SpelledOut
    <3>3. Node(m + 1).kind = "call"
      BY <1>0, <3>1, <3>2, Spelling
    <3>4. End(m) = m + 1
      BY <2>1, <2>4, <3>3, EndOfCast
    <3> QED BY <3>1, <3>2, <3>4 DEF ReadsLike
  <2> QED BY <2>2, <2>3, <2>4
<1>4. ASSUME NEW m \in ReadsLike(n) PROVE m \in alike /\ End(m) = m
  <2>1. m \in Nodes /\ Node(m).fn = Node(n).fn /\ Node(m).args = Node(n).args
        /\ Node(m).kind \in {"call", "indirect"}
    BY DEF ReadsLike
  <2>2. Node(m).kind = "call" /\ Node(m).lhs = NoTok
    BY <1>0, <2>1, Spelling
  <2> QED BY <1>0, <2>1, <2>2, EndOfCall DEF Text, IsExpression
<1> HIDE DEF alike
<1> QED BY <1>1, <1>2, <1>3, <1>4

\* The locks that are found for an unlock are all those of its lock: no call
\* contains another one.
LEMMA LocksFound ==
    ASSUME IsTree(function.node), NEW u \in Nodes, IsCall(u), Node(u).fn \in DOMAIN LockOf
    PROVE  outer_pair_recurcive_visit(u) = {n \in Nodes : IsLockOf(u, n)}
<1>1. Node(u).fn \notin Frees
  BY SyntaxTreeAssumption DEF SyntaxTreeAssumption
<1>2. \A n : is_pair(u, n) <=> IsLockOf(u, n)
  BY <1>1 DEF is_pair, IsLockOf
<1>3. ASSUME NEW n \in Nodes, IsLockOf(u, n), NEW m \in Above(n) \ {n}
      PROVE  ~IsLockOf(u, m)
  <2>1. m \in Nodes /\ n \in Below(m)
    <3>1. m \in 1..n /\ n \in Nat /\ Nodes = 1..Size /\ Size \in Nat
      BY AboveBefore, TreeNodes
    <3> QED BY <3>1 DEF Below
  <2>2. Node(m).kind = "call" => Node(n).kind = "ref"
    BY <1>3, <2>1, UnderCall
  <2> QED BY <1>3, <2>2 DEF IsLockOf, IsCall
<1> QED BY <1>2, <1>3 DEF outer_pair_recurcive_visit

-----------------------------------------------------------------------------
(* Scores. *)

TokenOrNone == Token \cup {NoTok}

\* What is compared are lists of at most three.
Comparable(s) == s \in Seq(TokenOrNone) /\ Len(s) <= 3

\* At most nine pairs of the members of two such lists are equal.
LEMMA SharedBound ==
    ASSUME NEW s, NEW t, Comparable(s), Comparable(t)
    PROVE  /\ Cardinality(Shared(s, t)) \in 0..9
           /\ Shared(s, t) # {} <=> Cardinality(Shared(s, t)) >= 1
<1>1. /\ DOMAIN s = 1..Len(s) /\ Len(s) \in 0..3
      /\ DOMAIN t = 1..Len(t) /\ Len(t) \in 0..3
  <2>1. /\ s \in Seq(TokenOrNone) /\ Len(s) <= 3
        /\ t \in Seq(TokenOrNone) /\ Len(t) <= 3
    BY DEF Comparable
  <2>2. Len(s) \in Nat /\ DOMAIN s = 1..Len(s) /\ Len(t) \in Nat /\ DOMAIN t = 1..Len(t)
    BY <2>1, LenProperties
  <2> QED BY <2>1, <2>2
<1>2. ASSUME NEW k \in 0..3
      PROVE  IsFiniteSet(1..k) /\ Cardinality(1..k) \in 0..3
  <2>1. IsFiniteSet(1..k) /\ Cardinality(1..k) = IF 1 > k THEN 0 ELSE k - 1 + 1
    BY FS_Interval
  <2> QED BY <2>1
<1> DEFINE A == 1..Len(s)
           B == 1..Len(t)
           S == Shared(s, t)
<1>3. S \subseteq A \X B
  BY <1>1 DEF Shared
<1>4. IsFiniteSet(A \X B) /\ Cardinality(A \X B) = Cardinality(A) * Cardinality(B)
  BY <1>1, <1>2, FS_Product
<1>5. \A a, b \in 0..3 : a * b <= 9
  <2> SUFFICES ASSUME NEW a \in 0..3, NEW b \in 0..3 PROVE a * b <= 9
    OBVIOUS
  <2>1. a = 0 \/ a = 1 \/ a = 2 \/ a = 3
    OBVIOUS
  <2> QED BY <2>1
<1>6. Cardinality(A \X B) <= 9
  <2>1. Cardinality(A) \in 0..3 /\ Cardinality(B) \in 0..3
    BY <1>1, <1>2
  <2> HIDE DEF A, B
  <2> QED BY <1>4, <1>5, <2>1
<1> HIDE DEF A, B, S
<1>7. IsFiniteSet(S) /\ Cardinality(S) <= Cardinality(A \X B)
  BY <1>3, <1>4, FS_Subset
<1>8. Cardinality(S) \in Nat /\ Cardinality(A \X B) \in Nat
  BY <1>4, <1>7, FS_CardinalityType
<1>9. Cardinality(S) = 0 <=> S = {}
  BY <1>7, FS_EmptySet
<1>10. Cardinality(S) \in 0..9 /\ (S # {} <=> Cardinality(S) >= 1)
  BY <1>6, <1>7, <1>8, <1>9
<1> QED BY <1>10 DEF S

\* What the two lists of an expression and an undo have in common.
LEMMA SharedTokens ==
    ASSUME NEW l \in TokenOrNone, NEW a \in Seq(Token), NEW b \in Seq(Token)
    PROVE  Shared(<<l>> \o a, <<NoTok>> \o b) # {} <=> ToSet(b) \cap (ToSet(a) \cup {l}) # {}
<1> DEFINE s == <<l>> \o a
           t == <<NoTok>> \o b
<1>0. NoTok \notin Token
  BY SyntaxTreeAssumption DEF SyntaxTreeAssumption
<1>1. /\ DOMAIN s = 1..(Len(a) + 1) /\ s[1] = l /\ \A i \in 1..Len(a) : s[i + 1] = a[i]
      /\ DOMAIN t = 1..(Len(b) + 1) /\ t[1] = NoTok /\ \A j \in 1..Len(b) : t[j + 1] = b[j]
      /\ Len(a) \in Nat /\ Len(b) \in Nat
  OBVIOUS
<1>2. /\ ToSet(a) = {a[i] : i \in 1..Len(a)} /\ \A i \in 1..Len(a) : a[i] \in Token
      /\ ToSet(b) = {b[j] : j \in 1..Len(b)} /\ \A j \in 1..Len(b) : b[j] \in Token
  BY DEF ToSet
<1> HIDE DEF s, t
<1>3. ASSUME NEW p \in Shared(s, t) PROVE ToSet(b) \cap (ToSet(a) \cup {l}) # {}
  <2>1. /\ p[1] \in 1..(Len(a) + 1) /\ p[2] \in 1..(Len(b) + 1)
        /\ s[p[1]] = t[p[2]] /\ s[p[1]] # NoTok
    BY <1>1 DEF Shared
  <2>2. PICK j \in 1..Len(b) : p[2] = j + 1
    <3>1. p[2] - 1 \in 1..Len(b) /\ p[2] = (p[2] - 1) + 1
      BY <1>1, <2>1
    <3> QED BY <3>1
  <2>3. t[p[2]] \in ToSet(b)
    BY <1>1, <1>2, <2>2
  <2>4. s[p[1]] \in ToSet(a) \cup {l}
    <3>1. CASE p[1] = 1
      BY <1>1, <3>1
    <3>2. CASE p[1] # 1
      <4>1. p[1] - 1 \in 1..Len(a) /\ p[1] = (p[1] - 1) + 1
        <5>1. \A k \in Nat : \A q \in 1..(k + 1) : q # 1 => q - 1 \in 1..k /\ q = (q - 1) + 1
          OBVIOUS
        <5> QED BY <1>1, <2>1, <3>2, <5>1
      <4>2. PICK i \in 1..Len(a) : p[1] = i + 1
        BY <4>1
      <4> QED BY <1>1, <1>2, <4>2
    <3> QED BY <3>1, <3>2
  <2> QED BY <2>1, <2>3, <2>4
<1>4. ASSUME NEW x \in ToSet(b), x \in ToSet(a) \cup {l} PROVE Shared(s, t) # {}
  <2>1. PICK j \in 1..Len(b) : x = b[j]
    BY <1>2
  <2>2. j + 1 \in DOMAIN t /\ t[j + 1] = x /\ x \in Token
    BY <1>1, <1>2, <2>1
  <2>3. \E i \in DOMAIN s : s[i] = x
    <3>1. CASE x = l
      <4>1. 1 \in DOMAIN s
        BY <1>1
      <4> QED BY <1>1, <3>1, <4>1
    <3>2. CASE x \in ToSet(a)
      <4>1. PICK i \in 1..Len(a) : x = a[i]
        BY <1>2, <3>2
      <4>2. i + 1 \in DOMAIN s /\ s[i + 1] = x
        BY <1>1, <4>1
      <4> QED BY <4>2
    <3> QED BY <1>4, <3>1, <3>2
  <2>4. PICK i \in DOMAIN s : s[i] = x
    BY <2>3
  <2>5. <<i, j + 1>> \in Shared(s, t)
    BY <1>0, <2>2, <2>4 DEF Shared
  <2> QED BY <2>5
<1>5. Shared(s, t) # {} <=> ToSet(b) \cap (ToSet(a) \cup {l}) # {}
  BY <1>3, <1>4
<1> QED BY <1>5 DEF s, t

\* The arguments of a node.
LEMMA Arguments ==
    ASSUME IsFunction(function), NEW n \in Nodes
    PROVE  /\ Node(n).args \in Seq(Token) /\ Len(Node(n).args) \in 0..2
           /\ Node(n).lhs \in TokenOrNone
<1>1. Node(n) \in NodeType
  BY TheFunction, TreeNodes
<1>2. Node(n).args \in Seq(Token) /\ Node(n).lhs \in TokenOrNone
  BY <1>1 DEF NodeType, TokenOrNone
<1> DEFINE args == Node(n).args
<1>3. args \in Seq(Token) /\ Len(args) <= 2
  BY <1>2, TheFunction
<1> HIDE DEF args
<1>4. Len(args) \in Nat
  BY <1>3, LenProperties
<1>5. Len(args) \in 0..2
  <2>1. \A k \in Nat : k <= 2 => k \in 0..2
    OBVIOUS
  <2> QED BY <1>3, <1>4, <2>1
<1> QED BY <1>2, <1>5 DEF args

\* What comes out of the text of a statement.
LEMMA SpilledFew ==
    ASSUME IsFunction(function), NEW n \in Nodes
    PROVE  Spilled(n) \in Seq(Token) /\ Len(Spilled(n)) <= 2
<1>0. Size \in Nat \ {0} /\ Nodes = 1..Size
  BY TheFunction, TreeNodes
<1> DEFINE opens == {m \in Below(n) : Node(m).kind \in {"call", "indirect", "if"}}
           first == Min(opens)
           last == Max(opens)
           Whole(m) == Node(m).kind # "if" /\ Len(Node(m).args) = 2
           one == IF Whole(first) THEN <<Node(first).args[1]>> ELSE <<>>
           two == IF Whole(last) /\ Node(Node(last).up).kind # "if" THEN <<Node(last).args[2]>> ELSE <<>>
<1>1. Spilled(n) = IF opens = {} THEN <<>> ELSE one \o two
  BY DEF Spilled
<1>2. opens \in SUBSET (0..Size)
  BY <1>0 DEF Below
<1>3. CASE opens = {}
  <2>1. <<>> \in Seq(Token) /\ Len(<<>>) = 0
    OBVIOUS
  <2> QED BY <1>1, <1>3, <2>1
<1>4. CASE opens # {}
  <2>1. first \in Nodes /\ last \in Nodes
    <3>1. opens \subseteq Nodes
      BY DEF Below
    <3> HIDE DEF opens
    <3> QED BY <1>0, <1>2, <1>4, <3>1, Extremes
  <2> HIDE DEF first, last
  <2>2. one \in Seq(Token) /\ Len(one) \in 0..1
    <3>1. CASE Whole(first)
      <4>1. Node(first).args[1] \in Token
        BY <2>1, <3>1, Arguments, ElementOfSeq
      <4> QED BY <3>1, <4>1
    <3> QED BY <3>1
  <2>3. two \in Seq(Token) /\ Len(two) \in 0..1
    <3>1. CASE Whole(last)
      <4>1. Node(last).args[2] \in Token
        BY <2>1, <3>1, Arguments, ElementOfSeq
      <4> QED BY <3>1, <4>1
    <3> QED BY <3>1
  <2> HIDE DEF one, two
  <2>4. one \o two \in Seq(Token) /\ Len(one \o two) = Len(one) + Len(two)
    BY <2>2, <2>3
  <2> QED BY <1>1, <1>4, <2>2, <2>3, <2>4
<1> QED BY <1>3, <1>4

\* The list of an expression starts with what is assigned to.
LEMMA ParamsOfExpression ==
    ASSUME NEW n \in Nodes, IsExpression(n)
    PROVE  parse_param(n) = <<Node(n).lhs>> \o Node(n).args
BY DEF parse_param

\* What is assigned to, and two arguments, are few enough.
LEMMA ShortList ==
    ASSUME NEW l \in TokenOrNone, NEW a \in Seq(Token), Len(a) <= 2
    PROVE  Comparable(<<l>> \o a) /\ (<<l>> \o a)[1] = l
<1>1. a \in Seq(TokenOrNone)
  BY DEF TokenOrNone
<1> QED BY <1>1 DEF Comparable

\* Every list is short, and starts with what the node assigns to, if anything.
LEMMA ParamsFew ==
    ASSUME IsFunction(function), NEW n \in Nodes
    PROVE  Comparable(parse_param(n)) /\ parse_param(n)[1] = Node(n).lhs
<1>2. CASE IsExpression(n)
  <2> DEFINE args == Node(n).args
             lhs == Node(n).lhs
  <2>1. parse_param(n) = <<lhs>> \o args
    BY <1>2 DEF parse_param
  <2>2. lhs \in TokenOrNone /\ args \in Seq(Token) /\ Len(args) \in 0..2
    BY Arguments
  <2> HIDE DEF args, lhs
  <2>3. Comparable(parse_param(n)) /\ parse_param(n)[1] = lhs
    BY <2>1, <2>2, ShortList
  <2> QED BY <2>3 DEF lhs
<1>3. CASE ~IsExpression(n)
  <2>1. Node(n).lhs = NoTok
    BY <1>3, Spelling, TheFunction DEF IsExpression
  <2>2. NoTok \in TokenOrNone
    BY DEF TokenOrNone
  <2> DEFINE few == Spilled(n)
  <2>3. parse_param(n) = <<NoTok>> \o few
    BY <1>3 DEF parse_param
  <2>4. few \in Seq(Token) /\ Len(few) <= 2
    BY SpilledFew
  <2> HIDE DEF few
  <2> QED BY <2>1, <2>2, <2>3, <2>4, ShortList
<1> QED BY <1>2, <1>3

\* The assignment that the result of a call goes to is found, whether or not
\* there is a cast between them.
LEMMA AssignmentOf ==
    ASSUME IsTree(function.node), NEW n \in Nodes, IsCall(n)
    PROVE  \/ Assignment(n) = {} /\ AssignedTo(n) = {}
           \/ \E m \in Nodes : /\ Assignment(n) = {m} /\ AssignedTo(n) = {m}
                               /\ Node(m).kind = "assign" /\ Node(m).args = Node(n).args
<1>0. /\ n # 1 /\ Up(n) \in Nodes /\ Node(1).kind = "block" /\ Nodes = 1..Size /\ Size \in Nat
      /\ \A m \in Nodes \ {1} : Up(m) \in Nodes
      /\ Node(n).kind = "call"
  BY TreeNodes DEF IsCall
<1> DEFINE p == Up(n)
           g == Up(p)
<1>1. p \in Nodes /\ (p # 1 => g \in Nodes) /\ 0 \notin Nodes
  BY <1>0
<1>2. Node(p).kind \notin {"call", "indirect"}
  BY <1>0, Spelling
<1>3. /\ Assignment(n) = {m \in {p, Grandparent(n)} \ {0} : Node(m).kind = "assign"}
      /\ Grandparent(n) = IF p = 1 THEN 0 ELSE g
      /\ AssignedTo(n) = CASE Node(p).kind = "assign" -> {p} [] Node(p).kind = "cast" -> {g} [] OTHER -> {}
  BY <1>0 DEF Assignment, Grandparent, AssignedTo, Up
<1>4. Node(p).kind \in {"assign", "cast"} => Node(p).args = Node(n).args
  BY <1>0, SpelledOut
<1>5. p # 1 /\ Node(g).kind \in {"cast", "assign"} =>
         /\ Node(p).kind = "cast" /\ Node(g).kind = "assign" /\ Node(g).args = Node(p).args
  BY <1>1, <1>2, SpelledOut
<1>6. Node(p).kind = "cast" => p # 1 /\ Node(g).kind = "assign"
  BY <1>0, <1>1, CastHolds
<1> HIDE DEF p, g
<1>7. CASE Node(p).kind = "assign"
  <2>1. p # 1 /\ Node(g).kind # "assign"
    BY <1>0, <1>5, <1>7
  <2>2. Assignment(n) = {p} /\ AssignedTo(n) = {p}
    BY <1>1, <1>3, <1>7, <2>1
  <2> QED BY <1>1, <1>4, <1>7, <2>2
<1>8. CASE Node(p).kind = "cast"
  <2>1. p # 1 /\ g \in Nodes /\ Node(g).kind = "assign" /\ Node(g).args = Node(n).args
    BY <1>1, <1>4, <1>5, <1>6, <1>8
  <2>2. Assignment(n) = {g} /\ AssignedTo(n) = {g}
    BY <1>1, <1>3, <1>8, <2>1
  <2> QED BY <2>1, <2>2
<1>9. CASE Node(p).kind \notin {"assign", "cast"}
  <2>1. Assignment(n) = {} /\ AssignedTo(n) = {}
    BY <1>1, <1>3, <1>5, <1>9
  <2> QED BY <2>1
<1> QED BY <1>7, <1>8, <1>9

\* The grandparent of a call is a node, if there is one; and if it is an
\* assignment there is a cast between them.
LEMMA GrandparentOf ==
    ASSUME IsTree(function.node), NEW n \in Nodes, IsCall(n)
    PROVE  /\ Grandparent(n) # 0 => Grandparent(n) \in Nodes
           /\ Grandparent(n) # 0 /\ Node(Grandparent(n)).kind = "assign" =>
                 Node(Node(n).up).kind = "cast" /\ AssignedTo(n) = {Grandparent(n)}
           /\ Node(Node(n).up).kind = "cast" =>
                 Grandparent(n) # 0 /\ AssignedTo(n) = {Grandparent(n)}
<1>0. /\ n # 1 /\ Up(n) \in Nodes /\ Node(1).kind = "block" /\ Nodes = 1..Size /\ Size \in Nat
      /\ \A m \in Nodes \ {1} : Up(m) \in Nodes
      /\ Node(n).kind = "call"
  BY TreeNodes DEF IsCall
<1> DEFINE p == Up(n)
           g == Up(p)
<1>1. p \in Nodes /\ (p # 1 => g \in Nodes) /\ 0 \notin Nodes
  BY <1>0
<1>2. Node(p).kind \notin {"call", "indirect"}
  BY <1>0, Spelling
<1>3. /\ Grandparent(n) = IF p = 1 THEN 0 ELSE g
      /\ Node(p).kind = "cast" => AssignedTo(n) = {g}
      /\ Node(n).up = p
  BY <1>0 DEF Grandparent, AssignedTo, Up
<1>4. p # 1 /\ Node(g).kind = "assign" => Node(p).kind = "cast"
  BY <1>1, <1>2, SpelledOut
<1>5. Node(p).kind = "cast" => p # 1
  BY <1>0
<1> HIDE DEF p, g
<1> QED BY <1>1, <1>3, <1>4, <1>5

\* What two statements have in common counts at most 90, and a kfree's own
\* pointer 100 more.
LEMMA ScoreBound ==
    ASSUME IsFunction(function), NEW u \in Nodes, NEW n \in Nodes, IsCall(n)
    PROVE  /\ Common(u, n) \in 0..90
           /\ Score(u, n) = Common(u, n) + IF /\ Node(u).fn \in Kfrees
                                              /\ PlainParams(u, n)[1] = Node(u).args[1]
                                           THEN 100 ELSE 0
           /\ Score(u, n) \in 0..190
<1>0. IsTree(function.node)
  BY TheFunction
<1>1. Comparable(PlainParams(u, n))
  BY <1>0, GrandparentOf, ParamsFew DEF PlainParams
<1>2. Comparable(Params(u, n))
  <2>1. CASE Assignment(n) = {}
    BY <1>1, <2>1 DEF Params
  <2>2. CASE Assignment(n) # {}
    <3>1. PICK m \in Nodes : Assignment(n) = {m}
      BY <1>0, <2>2, AssignmentOf
    <3>2. m \in Nat
      BY <1>0, TreeNodes
    <3>3. Max(Assignment(n)) = m
      BY <3>1, <3>2, OneElement
    <3> QED BY <2>2, <3>1, <3>3, ParamsFew DEF Params
  <2> QED BY <2>1, <2>2
<1>3. Cardinality(Shared(Params(u, n), parse_param(u))) \in 0..9
  BY <1>2, ParamsFew, SharedBound
<1>4. Common(u, n) \in 0..90
  <2> DEFINE c == Cardinality(Shared(Params(u, n), parse_param(u)))
  <2>1. c \in 0..9 /\ Common(u, n) = 10 * c
    BY <1>3 DEF Common
  <2> HIDE DEF c
  <2> QED BY <2>1
<1>5. Score(u, n) = Common(u, n) + IF /\ Node(u).fn \in Kfrees
                                      /\ PlainParams(u, n)[1] = Node(u).args[1]
                                   THEN 100 ELSE 0
  BY DEF Score
<1>6. Score(u, n) \in 0..190
  <2> HIDE DEF Score, Common, PlainParams, Node
  <2> QED BY <1>4, <1>5
<1> QED BY <1>4, <1>5, <1>6

\* But for a kfree it speaks for a call if it shares a variable with the undo.
LEMMA InvolvesScores ==
    ASSUME IsFunction(function), NEW u \in Nodes, IsCall(u), Node(u).fn \notin Kfrees,
           NEW n \in Nodes, IsCall(n)
    PROVE  Involves(u, n) <=> Score(u, n) > 0
<1>0. IsTree(function.node) /\ NoTok \notin Token /\ NoTok \in TokenOrNone
  BY TheFunction, SyntaxTreeAssumption DEF SyntaxTreeAssumption, TokenOrNone
<1>1. parse_param(u) = <<NoTok>> \o Node(u).args
  <2>1. Node(u).lhs = NoTok
    BY <1>0, Spelling DEF IsCall
  <2> QED BY <2>1, ParamsOfExpression DEF IsExpression, IsCall
<1>2. \E l \in TokenOrNone :
         /\ Params(u, n) = <<l>> \o Node(n).args
         /\ Involves(u, n) <=> ToSet(Node(u).args) \cap (ToSet(Node(n).args) \cup {l}) # {}
  <2>1. CASE Assignment(n) = {} /\ AssignedTo(n) = {}
    <3>1. Node(n).lhs = NoTok
      BY <1>0, Spelling DEF IsCall
    <3>2. Params(u, n) = <<NoTok>> \o Node(n).args
      BY <2>1, <3>1, ParamsOfExpression DEF Params, PlainParams, IsExpression, IsCall
    <3>3. NoTok \notin ToSet(Node(u).args)
      <4> DEFINE args == Node(u).args
      <4>1. args \in Seq(Token)
        BY Arguments
      <4> HIDE DEF args
      <4>2. \A i \in DOMAIN args : args[i] \in Token
        BY <4>1, ElementOfSeq
      <4>3. NoTok \notin ToSet(args)
        BY <1>0, <4>2 DEF ToSet
      <4> QED BY <4>3 DEF args
    <3>4. Involves(u, n) <=> ToSet(Node(u).args) \cap (ToSet(Node(n).args) \cup {NoTok}) # {}
      BY <2>1, <3>3 DEF Involves
    <3> QED BY <1>0, <3>2, <3>4
  <2>2. ASSUME NEW m \in Nodes, Assignment(n) = {m}, AssignedTo(n) = {m},
               Node(m).kind = "assign", Node(m).args = Node(n).args
        PROVE  \E l \in TokenOrNone :
                  /\ Params(u, n) = <<l>> \o Node(n).args
                  /\ Involves(u, n) <=> ToSet(Node(u).args) \cap (ToSet(Node(n).args) \cup {l}) # {}
    <3>1. m \in Nat
      BY <1>0, TreeNodes
    <3>2. Max(Assignment(n)) = m /\ Assignment(n) # {}
      BY <2>2, <3>1, OneElement
    <3>3. Params(u, n) = <<Node(m).lhs>> \o Node(n).args
      BY <2>2, <3>2, ParamsOfExpression DEF Params, IsExpression
    <3>4. Involves(u, n) <=> ToSet(Node(u).args) \cap (ToSet(Node(n).args) \cup {Node(m).lhs}) # {}
      BY <2>2 DEF Involves
    <3>5. Node(m).lhs \in TokenOrNone
      BY Arguments
    <3> QED BY <3>3, <3>4, <3>5
  <2> QED BY <1>0, <2>1, <2>2, AssignmentOf
<1>3. Involves(u, n) <=> Shared(Params(u, n), parse_param(u)) # {}
  <2>1. PICK l \in TokenOrNone :
         /\ Params(u, n) = <<l>> \o Node(n).args
         /\ Involves(u, n) <=> ToSet(Node(u).args) \cap (ToSet(Node(n).args) \cup {l}) # {}
    BY <1>2
  <2>2. Node(n).args \in Seq(Token) /\ Node(u).args \in Seq(Token)
    BY Arguments
  <2> QED BY <1>1, <2>1, <2>2, SharedTokens
<1>4. Score(u, n) = Common(u, n)
  <2>1. Common(u, n) \in 0..90
    BY ScoreBound
  <2>2. Score(u, n) = Common(u, n) + 0
    BY ScoreBound
  <2> QED BY <2>1, <2>2
<1>5. Comparable(Params(u, n)) /\ Comparable(parse_param(u))
  <2>1. PICK l \in TokenOrNone : Params(u, n) = <<l>> \o Node(n).args
    BY <1>2
  <2> DEFINE args == Node(n).args
  <2>2. args \in Seq(Token) /\ Len(args) \in 0..2
    BY Arguments
  <2> HIDE DEF args
  <2>3. Len(args) <= 2
    <3>1. \A k \in 0..2 : k <= 2
      OBVIOUS
    <3> QED BY <2>2, <3>1
  <2>4. Comparable(<<l>> \o args)
    BY <2>1, <2>2, <2>3, ShortList
  <2> QED BY <2>1, <2>4, ParamsFew DEF args
<1>6. /\ Cardinality(Shared(Params(u, n), parse_param(u))) \in 0..9
      /\ Shared(Params(u, n), parse_param(u)) # {}
            <=> Cardinality(Shared(Params(u, n), parse_param(u))) >= 1
  BY <1>5, SharedBound
<1> DEFINE c == Cardinality(Shared(Params(u, n), parse_param(u)))
<1>7. Score(u, n) = 10 * c
  BY <1>4 DEF Common
<1>8. c \in 0..9 /\ (Involves(u, n) <=> c >= 1)
  BY <1>3, <1>6
<1> HIDE DEF c
<1> QED BY <1>7, <1>8

\* One of the best of the possible calls is chosen, and with it all that read like it.
LEMMA ChosenOne ==
    ASSUME IsFunction(function), NEW u \in Nodes,
           {n \in Nodes : is_possible_outer_pair(u, n)} # {}
    PROVE  \E n \in Nodes : /\ is_possible_outer_pair(u, n) /\ IsCall(n)
                            /\ \A m \in Nodes : is_possible_outer_pair(u, m) => Score(u, m) <= Score(u, n)
                            /\ outer_pair_database(u) = ReadsLike(n)
<1>0. IsTree(function.node) /\ Size \in Nat \ {0} /\ Nodes = 1..Size
  BY TheFunction, TreeNodes
<1> DEFINE possible == {n \in Nodes : is_possible_outer_pair(u, n)}
           best == {n \in possible : \A m \in possible : Score(u, m) <= Score(u, n)}
           marks == {Score(u, n) : n \in possible}
<1>1. \A n \in possible : n \in Nodes /\ is_possible_outer_pair(u, n) /\ IsCall(n) /\ Score(u, n) \in 0..190
  BY ScoreBound DEF is_possible_outer_pair
<1>2. marks \in SUBSET (0..190) /\ marks # {}
  BY <1>1
<1>3. best # {}
  <2>1. Max(marks) \in marks /\ \A x \in marks : Max(marks) >= x
    <3> HIDE DEF marks
    <3> QED BY <1>2, Extremes
  <2>2. PICK n \in possible : Score(u, n) = Max(marks)
    BY <2>1
  <2>3. ASSUME NEW m \in possible PROVE Score(u, m) <= Score(u, n)
    <3>1. Score(u, m) \in marks
      OBVIOUS
    <3> HIDE DEF marks, possible
    <3>2. Max(marks) >= Score(u, m) /\ Score(u, m) \in 0..190 /\ Score(u, n) \in 0..190
      BY <1>1, <2>1, <3>1
    <3> QED BY <2>2, <3>2
  <2> QED BY <2>3
<1>4. best \in SUBSET (0..Size)
  BY <1>0
<1>5. Max(best) \in best
  <2> HIDE DEF best
  <2> QED BY <1>0, <1>3, <1>4, Extremes
<1> DEFINE n == Max(best)
<1>6. outer_pair_database(u) = add_all_duplicate_database_pairs(n)
  BY DEF outer_pair_database, find_most_possible_database_pair
<1>7. n \in possible /\ \A m \in possible : Score(u, m) <= Score(u, n)
  BY <1>5
<1> HIDE DEF n
<1>8. n \in Nodes /\ is_possible_outer_pair(u, n) /\ IsCall(n)
  BY <1>1, <1>7
<1>9. outer_pair_database(u) = ReadsLike(n)
  BY <1>0, <1>6, <1>8, DuplicatesReadAlike
<1>10. \A m \in Nodes : is_possible_outer_pair(u, m) => Score(u, m) <= Score(u, n)
  BY <1>7
<1> QED BY <1>8, <1>9, <1>10

\* What find_outer_ehcs_pairs stores for an undo.
PairsOf(u) == IF found_with_database(u) THEN outer_pair_database(u) ELSE outer_pair_recurcive_visit(u)

\* The possible pairs of an undo that the database does not pair with itself are
\* the calls to what it is paired with.
LEMMA PossibleNamed ==
    ASSUME NEW u, NEW n \in Nodes
    PROVE  is_possible_outer_pair(u, n) <=> IsCall(n) /\ (SelfPaired(u) \/ n \in Named(u))
<1>1. ASSUME NEW i \in DOMAIN Database PROVE Database[i] = <<Database[i][1], Database[i][2]>>
  <2> DEFINE E == Fn \X Fn
  <2>1. Database \in Seq(E)
    BY PairSearchAssumption DEF PairSearchAssumption
  <2> HIDE DEF E
  <2>2. Database[i] \in E
    BY <2>1, ElementOfSeq
  <2> QED BY <2>2 DEF E
<1>2. ASSUME NEW a, NEW b
      PROVE  <<a, b>> \in ToSet(Database) <=> \E i \in find_fnc(a) : Database[i][2] = b
  BY <1>1 DEF ToSet, find_fnc
<1>3. is_possible_outer_pair(u, n) <=>
         /\ IsCall(n)
         /\ \/ \E i \in find_fnc(Node(u).fn) : Database[i][2] = Node(u).fn
            \/ \E i \in find_fnc(Node(u).fn) : Database[i][2] = Node(n).fn
  BY DEF is_possible_outer_pair
<1>4. is_possible_outer_pair(u, n) <=>
         /\ IsCall(n)
         /\ <<Node(u).fn, Node(u).fn>> \in ToSet(Database) \/ <<Node(u).fn, Node(n).fn>> \in ToSet(Database)
  BY <1>2, <1>3
<1> QED BY <1>4 DEF SelfPaired, Named

\* The search finds the pairs that PairedByVariable asks for.
LEMMA VariableFound ==
    ASSUME IsFunction(function), NEW u \in Nodes, IsCall(u)
    PROVE  ByVariable(u, PairsOf(u))
<1>0. IsTree(function.node)
  BY TheFunction
<1> DEFINE from == IF Acquisitions(u) = {} THEN Named(u) ELSE Acquisitions(u)
           possible == {n \in Nodes : is_possible_outer_pair(u, n)}
<1>1. CASE Node(u).fn \in DOMAIN LockOf
  <2>1. PairsOf(u) = {n \in Nodes : IsLockOf(u, n)}
    BY <1>0, <1>1, LocksFound DEF PairsOf, found_with_database
  <2> QED BY <1>1, <2>1 DEF ByVariable
<1>2. ASSUME Node(u).fn \notin DOMAIN LockOf, ~SelfPaired(u), Node(u).fn \notin Kfrees
      PROVE  IF from = {} THEN PairsOf(u) = {} ELSE \E n \in from : PairsOf(u) = ReadsLike(n)
  <2>1. PairsOf(u) = outer_pair_database(u)
    BY <1>2 DEF PairsOf, found_with_database
  <2>2. possible = Named(u)
    BY <1>2, PossibleNamed DEF Named
  <2>3. from \subseteq possible /\ (from = {} <=> possible = {})
    BY <2>2 DEF Acquisitions
  <2>4. CASE possible = {}
    BY <2>1, <2>3, <2>4 DEF outer_pair_database
  <2>5. CASE possible # {}
    <3>1. PICK n \in Nodes : /\ is_possible_outer_pair(u, n) /\ IsCall(n)
                             /\ \A m \in Nodes : is_possible_outer_pair(u, m) => Score(u, m) <= Score(u, n)
                             /\ outer_pair_database(u) = ReadsLike(n)
      BY <2>5, ChosenOne
    <3>2. n \in from
      <4>1. CASE Acquisitions(u) = {}
        BY <2>2, <3>1, <4>1
      <4>2. CASE Acquisitions(u) # {}
        <5>1. PICK m \in Named(u) : Involves(u, m)
          BY <4>2 DEF Acquisitions
        <5>2. m \in Nodes /\ IsCall(m) /\ is_possible_outer_pair(u, m)
          BY <2>2, <5>1 DEF Named
        <5>3. Score(u, m) > 0 /\ Score(u, m) \in 0..190 /\ Score(u, n) \in 0..190
          BY <1>2, <3>1, <5>1, <5>2, InvolvesScores, ScoreBound
        <5>4. Score(u, n) > 0
          <6>1. Score(u, m) <= Score(u, n)
            BY <3>1, <5>2
          <6> QED BY <5>3, <6>1
        <5>5. Involves(u, n)
          BY <1>2, <3>1, <5>4, InvolvesScores
        <5> QED BY <2>2, <3>1, <4>2, <5>5 DEF Acquisitions
      <4> QED BY <4>1, <4>2
    <3> QED BY <2>1, <3>1, <3>2
  <2> QED BY <2>4, <2>5
<1> QED BY <1>1, <1>2 DEF ByVariable

\* The search finds the allocation that KfreeFindsAllocation asks for: its 100
\* outweigh all that others have in common with the undo.
LEMMA AllocationFound ==
    ASSUME IsFunction(function), NEW u \in Nodes, IsCall(u)
    PROVE  ByAllocation(u, PairsOf(u))
<1> SUFFICES ASSUME Node(u).fn \in Kfrees \ DOMAIN LockOf, Allocations(u) # {}
             PROVE  \E n \in Allocations(u) : PairsOf(u) = ReadsLike(n)
  BY DEF ByAllocation
<1>0. IsTree(function.node) /\ NoTok \notin Token
  BY TheFunction, SyntaxTreeAssumption DEF SyntaxTreeAssumption
<1>1. PairsOf(u) = outer_pair_database(u)
  BY DEF PairsOf, found_with_database
<1>2. Node(u).args[1] \in Token
  <2> DEFINE args == Node(u).args
  <2>1. args \in Seq(Token) /\ args # <<>>
    BY Arguments, TheFunction
  <2> HIDE DEF args
  <2>2. args[1] \in Token
    BY <2>1
  <2> QED BY <2>2 DEF args
<1>3. ASSUME NEW n \in Nodes, IsCall(n), Node(Node(n).up).kind = "cast",
             NEW m \in AssignedTo(n), Node(m).lhs = Node(u).args[1]
      PROVE  PlainParams(u, n)[1] = Node(u).args[1]
  <2>1. Grandparent(n) # 0 /\ Grandparent(n) \in Nodes /\ AssignedTo(n) = {Grandparent(n)}
    BY <1>0, <1>3, GrandparentOf
  <2>2. PlainParams(u, n)[1] = Node(Grandparent(n)).lhs
    BY <2>1, ParamsFew DEF PlainParams
  <2> QED BY <1>3, <2>1, <2>2
<1>4. ASSUME NEW n \in Nodes, IsCall(n), PlainParams(u, n)[1] = Node(u).args[1]
      PROVE  Node(Node(n).up).kind = "cast" /\ \E m \in AssignedTo(n) : Node(m).lhs = Node(u).args[1]
  <2> DEFINE x == IF Grandparent(n) # 0 THEN Grandparent(n) ELSE n
  <2>1. x \in Nodes
    BY <1>0, <1>4, GrandparentOf
  <2>2. PlainParams(u, n) = parse_param(x)
    BY DEF PlainParams
  <2>3. Node(x).lhs = Node(u).args[1]
    <3> HIDE DEF x
    <3> QED BY <1>4, <2>1, <2>2, ParamsFew
  <2>4. Node(x).kind = "assign"
    <3> HIDE DEF x
    <3> QED BY <1>0, <1>2, <2>1, <2>3, Spelling
  <2>5. x = Grandparent(n) /\ Grandparent(n) # 0
    BY <1>4, <2>4 DEF IsCall
  <2>6. Node(Node(n).up).kind = "cast" /\ AssignedTo(n) = {Grandparent(n)}
    BY <1>0, <1>4, <2>4, <2>5, GrandparentOf
  <2> QED BY <2>3, <2>5, <2>6
<1>5. PICK a \in Allocations(u) : TRUE
  OBVIOUS
<1>6. /\ a \in Nodes /\ IsCall(a) /\ is_possible_outer_pair(u, a)
      /\ PlainParams(u, a)[1] = Node(u).args[1]
  BY <1>3, <1>5, PossibleNamed DEF Allocations
<1>7. PICK n \in Nodes : /\ is_possible_outer_pair(u, n) /\ IsCall(n)
                         /\ \A m \in Nodes : is_possible_outer_pair(u, m) => Score(u, m) <= Score(u, n)
                         /\ outer_pair_database(u) = ReadsLike(n)
  BY <1>6, ChosenOne
<1>8. PlainParams(u, n)[1] = Node(u).args[1]
  <2>1. Score(u, a) <= Score(u, n)
    BY <1>6, <1>7
  <2>2. Score(u, a) = Common(u, a) + 100 /\ Common(u, a) \in 0..90
    BY <1>6, ScoreBound
  <2>3. Common(u, n) \in 0..90 /\ (PlainParams(u, n)[1] # Node(u).args[1] => Score(u, n) = Common(u, n) + 0)
    BY <1>7, ScoreBound
  <2> HIDE DEF Score, Common, PlainParams, Node
  <2> QED BY <2>1, <2>2, <2>3
<1>9. n \in Allocations(u)
  BY <1>4, <1>7, <1>8, PossibleNamed DEF Allocations
<1> QED BY <1>1, <1>7, <1>9

-----------------------------------------------------------------------------
(* The steps. *)

\* What only depends on the function does not change.
LEMMA SameFunction ==
    ASSUME function' = function
    PROVE  /\ Nodes' = Nodes /\ News' = News /\ Undos' = Undos
           /\ EntryType' = EntryType /\ OuterType' = OuterType /\ ByPointer' = ByPointer
           /\ outer_smss_recurcive_visit' = outer_smss_recurcive_visit
           /\ IsFunction(function)' <=> IsFunction(function)
           /\ \A n : Text(n)' = Text(n) /\ Line(n)' = Line(n) /\ Named(n)' = Named(n)
           /\ \A n : IsOuter(n)' <=> IsOuter(n)
<1>1. \A n : Above(n)' = Above(n)
  BY DEF Above, Nodes, Node
<1>2. \A n : IsStatement(n)' <=> IsStatement(n)
  BY DEF IsStatement, Node
<1>3. \A n : Line(n)' = Line(n)
  BY <1>1, <1>2 DEF Line
<1>4. Nodes' = Nodes /\ News' = News
  BY DEF Nodes, News
<1>5. \A n : IsOuter(n)' <=> IsOuter(n)
  BY DEF IsOuter, IsCall, Node, find_fnc
<1>6. Undos' = Undos
  BY <1>4, <1>5 DEF Undos
<1>7. EntryType' = EntryType /\ OuterType' = OuterType
  BY <1>4 DEF EntryType, OuterType
<1>8. \A n : Text(n)' = Text(n)
  BY DEF Text, Node
<1>9. ByPointer' = ByPointer /\ outer_smss_recurcive_visit' = outer_smss_recurcive_visit
  BY DEF ByPointer, outer_smss_recurcive_visit, IsCall, Nodes, Node
<1>10. \A n : Named(n)' = Named(n)
  BY DEF Named, IsCall, Nodes, Node
<1>11. IsFunction(function)' <=> IsFunction(function)
  OBVIOUS
<1> QED BY <1>3, <1>4, <1>5, <1>6, <1>7, <1>8, <1>9, <1>10, <1>11

\* Nor does what is asked of the pairs of an undo.
LEMMA SameQuestion ==
    ASSUME function' = function, NEW u, NEW pairs
    PROVE  /\ ByVariable(u, pairs)' <=> ByVariable(u, pairs)
           /\ ByAllocation(u, pairs)' <=> ByAllocation(u, pairs)
<1>1. Acquisitions(u)' = Acquisitions(u)
  BY DEF Acquisitions, Named, Involves, AssignedTo, IsCall, Nodes, Node
<1>2. Named(u)' = Named(u) /\ Node(u)' = Node(u) /\ Nodes' = Nodes
  BY DEF Named, IsCall, Nodes, Node
<1>3. SelfPaired(u)' <=> SelfPaired(u)
  BY DEF SelfPaired, Node
<1>4. {n \in Nodes : IsLockOf(u, n)}' = {n \in Nodes : IsLockOf(u, n)}
  BY DEF IsLockOf, IsCall, SameLock, Nodes, Node
<1>5. \A n : ReadsLike(n)' = ReadsLike(n)
  BY DEF ReadsLike, Nodes, Node
<1>6. Allocations(u)' = Allocations(u)
  BY DEF Allocations, SelfPaired, Named, AssignedTo, IsCall, Nodes, Node
<1>7. ByVariable(u, pairs)' <=> ByVariable(u, pairs)
  BY <1>1, <1>2, <1>3, <1>4, <1>5 DEF ByVariable
<1>8. ByAllocation(u, pairs)' <=> ByAllocation(u, pairs)
  BY <1>2, <1>5, <1>6 DEF ByAllocation
<1> QED BY <1>7, <1>8

\* A handler that is called once.
LEMMA AdvanceOnce ==
    ASSUME at \in Nat \ {0}, NEW next, Advance(1, next)
    PROVE  stage' = next /\ at' = 1
BY DEF Advance

\* Nothing that is listed, nothing to be asked.
LEMMA NoneListed == ToSet(<<>>) = {}
BY EmptyList

\* A part of the score that is set for the first time is set to the penalty,
\* whoever has the flag.
LEMMA Penalised ==
    ASSUME score \in [Parts -> Int], NEW part \in Parts, score[part] = 0,
           NEW times \in Nat, NEW by \in Nat, Penalise(part, times, by)
    PROVE  /\ score' \in [Parts -> Int] /\ score'[part] = -(by * times)
           /\ \A p \in Parts \ {part} : score'[p] = score[p]
<1> DEFINE new == IF times = 0 THEN score[part]
                  ELSE IF init_flag = part THEN score[part] - times * by ELSE -(times * by)
<1>1. score' = [score EXCEPT ![part] = new]
  BY DEF Penalise
<1>2. new = -(by * times) /\ new \in Int
  OBVIOUS
<1> HIDE DEF new
<1> QED BY <1>1, <1>2

\* There are finitely many nodes, entries and functions that are called.
LEMMA Counts ==
    ASSUME IsTree(function.node)
    PROVE  /\ Cardinality(ByPointer) \in Nat
           /\ \A S : S \subseteq outer_smss_recurcive_visit => Cardinality(S) \in Nat
<1>0. Size \in Nat /\ Nodes = 1..Size
  BY TreeNodes
<1>1. IsFiniteSet(Nodes)
  BY <1>0, FS_Interval
<1>2. ByPointer \subseteq Nodes
  BY DEF ByPointer
<1>3. Cardinality(ByPointer) \in Nat
  BY <1>1, <1>2, FS_Subset, FS_CardinalityType
<1> DEFINE T == {Node(n).fn : n \in Nodes}
           name == [n \in Nodes |-> Node(n).fn]
<1>4. name \in Surjection(Nodes, T)
  BY DEF Surjection
<1>5. IsFiniteSet(T)
  <2> HIDE DEF name, T
  <2> QED BY <1>1, <1>4, FS_Surjection
<1>6. outer_smss_recurcive_visit \subseteq T
  BY DEF outer_smss_recurcive_visit
<1>7. ASSUME NEW S, S \subseteq outer_smss_recurcive_visit PROVE Cardinality(S) \in Nat
  <2>1. S \subseteq T
    BY <1>6, <1>7
  <2> HIDE DEF T
  <2> QED BY <1>5, <2>1, FS_Subset, FS_CardinalityType
<1> QED BY <1>3, <1>7

\* The calls by pointer are counted.
LEMMA PointersStep ==
    ASSUME PInv, recursiveVisit_function_pointer
    PROVE  PInv'
<1>1. /\ stage = "recursiveVisit_function_pointer" /\ function' = function
      /\ inner' = inner /\ outers' = outers
      /\ Penalise("function_pointer", Cardinality(ByPointer), 30) /\ Advance(1, "find_pairs")
  BY DEF recursiveVisit_function_pointer, ByPointer
<1>2. /\ stage' = "find_pairs" /\ at' = 1
  BY <1>1, AdvanceOnce DEF PInv
<1>3. InnerInv /\ OutersInv /\ PairsInv /\ ScoreInv /\ IsFunction(function)
  BY DEF PInv
<1>4. inner \in Seq(EntryType) /\ Len(inner) = 0 /\ outers = <<>>
  BY <1>1, <1>3 DEF InnerInv, OutersInv, Unique, Scoring, Collected
<1>5. InnerInv'
  <2>1. DOMAIN inner = {}
    BY <1>4, LenProperties
  <2> QED BY <1>1, <1>2, <1>4, <2>1, SameFunction DEF InnerInv
<1>6. OutersInv'
  <2>1. outers' = <<>> /\ outers' \in Seq(OuterType') /\ ToSet(outers') = {}
    BY <1>1, <1>4, EmptyList
  <2> QED BY <1>2, <2>1 DEF OutersInv, Unique, Scoring, Collected
<1>7. PairsInv'
  <2>1. DOMAIN outers' = {}
    BY <1>1, <1>4
  <2> QED BY <1>2, <2>1 DEF PairsInv, Scoring
<1>8. ScoreInv'
  <2>1. /\ score \in [Parts -> Int] /\ score["function_pointer"] = 0 /\ score["missing_ehc"] = 0
        /\ score["number_ehc"] = 0 /\ score["maybe_blocks"] = 0
    BY <1>1, <1>3 DEF ScoreInv, Scoring
  <2>2. /\ score' \in [Parts -> Int] /\ score'["function_pointer"] = -(30 * Cardinality(ByPointer))
        /\ \A p \in Parts \ {"function_pointer"} : score'[p] = score[p]
    <3>1. Cardinality(ByPointer) \in Nat
      BY <1>3, TheFunction, Counts
    <3> DEFINE c == Cardinality(ByPointer)
    <3>2. c \in Nat /\ Penalise("function_pointer", c, 30)
      BY <1>1, <3>1
    <3>3. "function_pointer" \in Parts /\ 30 \in Nat
      BY DEF Parts
    <3> HIDE DEF c
    <3>4. /\ score' \in [Parts -> Int] /\ score'["function_pointer"] = -(30 * c)
          /\ \A p \in Parts \ {"function_pointer"} : score'[p] = score[p]
      BY <2>1, <3>2, <3>3, Penalised
    <3> QED BY <3>4 DEF c
  <2> QED BY <1>1, <1>2, <2>1, <2>2, SameFunction DEF ScoreInv, Scoring, Parts
<1> QED BY <1>1, <1>2, <1>3, <1>5, <1>6, <1>7, <1>8, SameFunction DEF PInv, Stages

\* What find_pairs enters for an undo.
LEMMA EntryFound ==
    ASSUME IsFunction(function), NEW k \in DOMAIN News, NEW near \in SUBSET Nodes,
           \A n \in near : Line(n) < Line(function.ehcs[News[k].ehc].head)
    PROVE  /\ News[k].stmt \in Candid /\ function.ehcs[News[k].ehc].verified \in BOOLEAN
           /\ PairOf(News[k].stmt, near) \in Nodes \cup {0}
           /\ PairOf(News[k].stmt, near) < Line(function.ehcs[News[k].ehc].head)
           /\ recursive_pair_visit(News[k].stmt, near) # {} => IsOuter(News[k].stmt)
<1>0. IsTree(function.node) /\ Size \in Nat \ {0} /\ Nodes = 1..Size
  BY TheFunction, TreeNodes
<1>1. News[k].ehc \in DOMAIN function.ehcs /\ News[k].stmt \in Candid
  <2> DEFINE T == [ehc : DOMAIN function.ehcs, stmt : Candid]
  <2>1. News \in Seq(T)
    BY NewsList
  <2> HIDE DEF T
  <2>2. News[k] \in T
    BY <2>1, ElementOfSeq
  <2> QED BY <2>2 DEF T
<1> DEFINE b == function.ehcs[News[k].ehc].head
           u == News[k].stmt
<1>2. b \in Nodes /\ function.ehcs[News[k].ehc].verified \in BOOLEAN
  <2> DEFINE E == [head : Nodes, news : Seq(Nodes), verified : BOOLEAN]
  <2>1. function.ehcs \in Seq(E)
    BY TheFunction
  <2> HIDE DEF E
  <2>2. function.ehcs[News[k].ehc] \in E
    BY <1>1, <2>1, ElementOfSeq
  <2> QED BY <2>2 DEF E
<1>3. u \in Nodes
  BY <1>1 DEF Candid
<1> HIDE DEF b, u
<1>4. \/ PairOf(u, near) = 0
      \/ PairOf(u, near) \in near /\ Node(PairOf(u, near)).kind # "block"
  BY <1>0, <1>3, PairIsNear
<1>5. Line(b) \in 1..Size
  BY <1>0, <1>2, LineIsLast, AboveBefore
<1>6. PairOf(u, near) \in Nodes \cup {0} /\ PairOf(u, near) < Line(b)
  <2>1. CASE PairOf(u, near) = 0
    BY <1>5, <2>1
  <2>2. CASE PairOf(u, near) # 0
    <3>1. PairOf(u, near) \in Nodes /\ Line(PairOf(u, near)) < Line(b)
      BY <1>4, <2>2 DEF b
    <3> QED BY <1>0, <1>2, <1>4, <2>2, <3>1, EarlierLine
  <2> QED BY <2>1, <2>2
<1>7. recursive_pair_visit(u, near) # {} => IsOuter(u)
  <2>1. u \in Candid
    BY <1>1 DEF u
  <2>2. ASSUME NEW n \in recursive_pair_visit(u, near) PROVE is_pair(u, n)
    BY DEF recursive_pair_visit
  <2> QED BY <2>1, <2>2, PairIsOuter
<1> QED BY <1>1, <1>2, <1>6, <1>7 DEF b, u

\* The next undo of a block is entered.
LEMMA FindStep ==
    ASSUME PInv, find_pairs
    PROVE  PInv'
<1>1. /\ stage = "find_pairs" /\ function' = function /\ outers' = outers
      /\ score' = score /\ Advance(Len(News), "outer_ehcs_recurcive_visit")
      /\ at \in Nat \ {0}
  BY DEF find_pairs, PInv
<1>2. InnerInv /\ OutersInv /\ PairsInv /\ ScoreInv /\ IsFunction(function)
  BY DEF PInv
<1>3. /\ inner \in Seq(EntryType) /\ Len(inner) = at - 1 /\ (at = 1 \/ at <= Len(News))
      /\ \A k \in DOMAIN inner :
            /\ inner[k].stmt = News[k].stmt
            /\ inner[k].pair < Line(function.ehcs[News[k].ehc].head)
            /\ inner[k].is_outer => IsOuter(inner[k].stmt)
  BY <1>1, <1>2 DEF InnerInv
<1>4. Len(News) \in Nat /\ DOMAIN News = 1..Len(News) /\ (News = <<>> <=> Len(News) = 0)
  <2> DEFINE T == [ehc : DOMAIN function.ehcs, stmt : Candid]
  <2>1. News \in Seq(T)
    BY <1>2, NewsList
  <2> HIDE DEF T
  <2>2. Len(News) \in Nat /\ DOMAIN News = 1..Len(News)
    BY <2>1, LenProperties
  <2>3. News = <<>> <=> Len(News) = 0
    BY <2>1, EmptySeq
  <2> QED BY <2>2, <2>3
<1>5. /\ inner' \in Seq(EntryType) /\ Len(inner') = (IF News = <<>> THEN 0 ELSE at)
      /\ \A k \in DOMAIN inner' :
            /\ inner'[k].stmt = News[k].stmt
            /\ inner'[k].pair < Line(function.ehcs[News[k].ehc].head)
            /\ inner'[k].is_outer => IsOuter(inner'[k].stmt)
  <2>1. CASE News = <<>>
    <3>1. inner' = inner
      BY <2>1 DEF find_pairs
    <3>2. Len(inner) = 0
      BY <1>1, <1>3, <1>4, <2>1
    <3> QED BY <1>3, <2>1, <3>1, <3>2
  <2>2. CASE News # <<>>
    <3>1. PICK j \in DOMAIN News : j = at
      BY <1>1, <1>3, <1>4, <2>2
    <3> DEFINE near == {n \in Nodes : Window(News[j].ehc, n)}
               x == [stmt |-> News[j].stmt, pair |-> PairOf(News[j].stmt, near),
                     is_outer |-> recursive_pair_visit(News[j].stmt, near) # {},
                     verified |-> function.ehcs[News[j].ehc].verified]
    <3>2. inner' = Append(inner, x)
      BY <2>2, <3>1 DEF find_pairs
    <3>3. near \in SUBSET Nodes /\ \A n \in near : Line(n) < Line(function.ehcs[News[j].ehc].head)
      BY DEF Window
    <3> HIDE DEF near
    <3>4. /\ News[j].stmt \in Candid /\ function.ehcs[News[j].ehc].verified \in BOOLEAN
          /\ PairOf(News[j].stmt, near) \in Nodes \cup {0}
          /\ PairOf(News[j].stmt, near) < Line(function.ehcs[News[j].ehc].head)
          /\ recursive_pair_visit(News[j].stmt, near) # {} => IsOuter(News[j].stmt)
      BY <1>2, <3>3, EntryFound
    <3>5. /\ x \in EntryType /\ x.stmt = News[j].stmt
          /\ x.pair < Line(function.ehcs[News[j].ehc].head)
          /\ x.is_outer => IsOuter(x.stmt)
      BY <3>4 DEF EntryType, Candid
    <3> HIDE DEF x
    <3>6. /\ inner' \in Seq(EntryType) /\ Len(inner') = Len(inner) + 1
          /\ \A k \in 1..Len(inner) : inner'[k] = inner[k]
          /\ inner'[Len(inner) + 1] = x
      BY <1>3, <3>2, <3>5, AppendProperties
    <3>7. DOMAIN inner' = 1..at /\ DOMAIN inner = 1..(at - 1) /\ Len(inner') = at
      BY <1>1, <1>3, <3>6, LenProperties
    <3>8. ASSUME NEW k \in DOMAIN inner'
          PROVE  /\ inner'[k].stmt = News[k].stmt
                 /\ inner'[k].pair < Line(function.ehcs[News[k].ehc].head)
                 /\ inner'[k].is_outer => IsOuter(inner'[k].stmt)
      <4>1. CASE k = at
        <5>1. inner'[k] = x /\ k = j
          BY <1>1, <1>3, <3>1, <3>6, <4>1
        <5> QED BY <3>5, <5>1
      <4>2. CASE k # at
        <5>1. k \in DOMAIN inner /\ inner'[k] = inner[k]
          BY <1>1, <1>3, <3>6, <3>7, <4>2
        <5> QED BY <1>3, <5>1
      <4> QED BY <4>1, <4>2
    <3> QED BY <2>2, <3>6, <3>7, <3>8
  <2> QED BY <2>1, <2>2
<1>6. \/ stage' = "find_pairs" /\ at' = at + 1 /\ at < Len(News)
      \/ stage' = "outer_ehcs_recurcive_visit" /\ at' = 1 /\ ~(at < Len(News))
  BY <1>1 DEF Advance
<1>7. /\ at' \in Nat \ {0} /\ stage' \in Stages
      /\ Len(inner') = CASE stage' = "recursiveVisit_function_pointer" -> 0
                         [] stage' = "find_pairs" -> at' - 1
                         [] OTHER -> Len(News)
      /\ stage' = "find_pairs" => at' = 1 \/ at' <= Len(News)
  <2>1. CASE stage' = "find_pairs" /\ at' = at + 1 /\ at < Len(News)
    <3>1. Len(inner') = at
      BY <1>1, <1>4, <1>5, <2>1
    <3> QED BY <1>1, <1>4, <2>1, <3>1 DEF Stages
  <2>2. CASE stage' = "outer_ehcs_recurcive_visit" /\ at' = 1 /\ ~(at < Len(News))
    <3> DEFINE l == Len(News)
               m == Len(inner')
    <3>1. /\ l \in Nat /\ at \in Nat \ {0} /\ (at = 1 \/ at <= l) /\ ~(at < l)
          /\ m = IF l = 0 THEN 0 ELSE at
      BY <1>1, <1>3, <1>4, <1>5, <2>2
    <3> HIDE DEF l, m
    <3>2. m = l
      BY <3>1
    <3> QED BY <2>2, <3>2 DEF Stages, l, m
  <2> QED BY <1>6, <2>1, <2>2
<1>8. stage' \notin Unique \cup Collected \cup Scoring
  BY <1>6 DEF Unique, Collected, Scoring
<1>9. InnerInv'
  BY <1>1, <1>5, <1>7, <1>8, SameFunction DEF InnerInv, Unique, Scoring
<1>10. outers = <<>> /\ outers' = <<>>
  BY <1>1, <1>2 DEF OutersInv, Unique, Scoring, Collected
<1>11. OutersInv'
  <2>1. outers' \in Seq(OuterType') /\ ToSet(outers') = {}
    BY <1>10, EmptyList
  <2> QED BY <1>8, <1>10, <2>1 DEF OutersInv, Unique, Collected, Scoring
<1>12. PairsInv'
  <2>1. DOMAIN outers' = {}
    BY <1>10
  <2> QED BY <1>10, <2>1 DEF PairsInv
<1>13. ScoreInv'
  BY <1>1, <1>2, <1>6, SameFunction DEF ScoreInv, Scoring
<1> QED BY <1>1, <1>2, <1>7, <1>9, <1>11, <1>12, <1>13, SameFunction DEF PInv, Stages

Earliest == {"recursiveVisit_function_pointer", "find_pairs"}

\* The handlers that leave the entries of the undos alone.
LEMMA InnerKept ==
    ASSUME InnerInv, function' = function, inner' = inner, stage \notin Earliest,
           stage' \notin Earliest, stage' \in Unique => stage \in Unique
    PROVE  InnerInv'
<1>1. /\ inner \in Seq(EntryType) /\ Len(inner) = Len(News)
      /\ \A k \in DOMAIN inner :
            /\ inner[k].stmt = News[k].stmt
            /\ inner[k].pair < Line(function.ehcs[News[k].ehc].head)
            /\ inner[k].is_outer => IsOuter(inner[k].stmt)
            /\ stage \in Unique /\ IsOuter(inner[k].stmt) => inner[k].is_outer
  BY DEF InnerInv, Earliest
<1>2. /\ inner' \in Seq(EntryType') /\ Len(inner') = Len(News')
      /\ Unique' = Unique
  BY <1>1, SameFunction DEF Unique, Scoring
<1>3. \A k \in DOMAIN inner' :
            /\ inner'[k].stmt = News'[k].stmt
            /\ inner'[k].pair < Line(function'.ehcs[News'[k].ehc].head)
            /\ inner'[k].is_outer => IsOuter(inner'[k].stmt)
            /\ stage' \in Unique /\ IsOuter(inner'[k].stmt) => inner'[k].is_outer
  BY <1>1, SameFunction
<1> QED BY <1>2, <1>3, SameFunction DEF InnerInv, Earliest

\* The outer undos are collected.
LEMMA CollectStep ==
    ASSUME PInv, outer_ehcs_recurcive_visit
    PROVE  PInv'
<1>1. /\ stage = "outer_ehcs_recurcive_visit" /\ function' = function /\ inner' = inner
      /\ score' = score /\ Advance(1, "handle_outer_ehcs_duplicates")
  BY DEF outer_ehcs_recurcive_visit
<1>2. InnerInv /\ OutersInv /\ PairsInv /\ ScoreInv /\ IsFunction(function) /\ IsTree(function.node)
  BY TheFunction DEF PInv
<1>3. stage' = "handle_outer_ehcs_duplicates" /\ at' = 1
  BY <1>1, AdvanceOnce DEF PInv
<1> DEFINE undos == InOrder({n \in Nodes : IsOuter(n)})
           Of(n) == [stmt |-> n, duplicates |-> {}, pairs |-> {}]
<1>4. outers' = [k \in DOMAIN undos |-> Of(undos[k])]
  BY DEF outer_ehcs_recurcive_visit
<1>5. undos \in Seq(Nodes) /\ ToSet(undos) = Undos
  BY <1>2, InOrderLists DEF Undos
<1> HIDE DEF undos
<1>6. DOMAIN undos = 1..Len(undos) /\ Len(undos) \in Nat /\ \A k \in DOMAIN undos : undos[k] \in Nodes
  <2>1. DOMAIN undos = 1..Len(undos) /\ Len(undos) \in Nat
    BY <1>5, LenProperties
  <2> QED BY <1>5, <2>1, ElementOfSeq
<1>7. \A n \in Nodes : Of(n) \in OuterType
  BY DEF OuterType
<1>8. outers' \in Seq(OuterType)
  <2> HIDE DEF Of
  <2>1. outers' \in [1..Len(undos) -> OuterType]
    BY <1>4, <1>6, <1>7
  <2> QED BY <1>6, <2>1, SeqDef
<1>9. ToSet(outers') = {Of(n) : n \in Undos}
  <2> HIDE DEF Of
  <2> QED BY <1>4, <1>5 DEF ToSet
<1>10. /\ {o.stmt : o \in ToSet(outers')} = Undos
       /\ \A o \in ToSet(outers') : o.stmt \in Undos /\ o.duplicates = {}
  <2>1. \A n : Of(n).stmt = n /\ Of(n).duplicates = {}
    OBVIOUS
  <2> HIDE DEF Of
  <2> QED BY <1>9, <2>1
<1>11. OutersInv'
  BY <1>3, <1>8, <1>10, SameFunction, <1>1 DEF OutersInv, Unique, Scoring, Collected
<1>12. InnerInv'
  BY <1>1, <1>2, <1>3, InnerKept DEF Earliest, Unique, Scoring
<1>13. PairsInv'
  BY <1>3 DEF PairsInv, Scoring
<1>14. ScoreInv'
  BY <1>1, <1>2, <1>3, SameFunction DEF ScoreInv, Scoring
<1> QED BY <1>1, <1>2, <1>3, <1>11, <1>12, <1>13, <1>14, SameFunction DEF PInv, Stages

\* The first of the undos that read the same stays, with the others for duplicates.
LEMMA DuplicatesFolded ==
    ASSUME IsTree(function.node), outers \in Seq(OuterType), {o.stmt : o \in ToSet(outers)} = Undos,
           handle_outer_ehcs_duplicates
    PROVE  /\ outers' \in Seq(OuterType)
           /\ \A o \in ToSet(outers') :
                 /\ o.stmt \in Undos
                 /\ \A n \in o.duplicates : n \in Undos /\ n > o.stmt /\ Text(n) = Text(o.stmt)
           /\ \A n \in Undos : \E o \in ToSet(outers') : n \in {o.stmt} \cup o.duplicates
<1> DEFINE Firsts == {o \in ToSet(outers) : \A k \in DOMAIN outers :
                        Text(outers[k].stmt) = Text(o.stmt) => o.stmt <= outers[k].stmt}
           first == Keep(outers, Firsts)
           Of(o) == [o EXCEPT !.duplicates = Duplicates(o)]
<1>0. Undos \subseteq Nodes /\ \A n \in Undos : n \in Nat
  <2>1. Nodes = 1..Size /\ Undos \subseteq Nodes
    BY TreeNodes DEF Undos
  <2>2. \A n \in 1..Size : n \in Nat
    OBVIOUS
  <2> QED BY <2>1, <2>2
<1>1. outers' = [k \in DOMAIN first |-> Of(first[k])]
  BY DEF handle_outer_ehcs_duplicates
<1>2. first \in Seq(OuterType) /\ ToSet(first) = Firsts
  <2>1. Firsts \subseteq ToSet(outers)
    OBVIOUS
  <2> HIDE DEF Firsts
  <2>2. Keep(outers, Firsts) \in Seq(OuterType) /\ ToSet(Keep(outers, Firsts)) = ToSet(outers) \cap Firsts
    BY KeepElements
  <2> QED BY <2>1, <2>2
<1>3. /\ \A k \in DOMAIN outers : outers[k] \in ToSet(outers)
      /\ \A o \in ToSet(outers) : \E k \in DOMAIN outers : o = outers[k]
  BY DEF ToSet
<1>4. \A o : Duplicates(o) = {n \in Undos : n # o.stmt /\ Text(n) = Text(o.stmt)}
  <2>1. {outers[k].stmt : k \in DOMAIN outers} = Undos
    BY <1>3
  <2> QED BY <1>0, <2>1 DEF Duplicates
<1>5. ASSUME NEW o \in OuterType
      PROVE  Of(o) \in OuterType /\ Of(o).stmt = o.stmt /\ Of(o).duplicates = Duplicates(o)
  <2>1. Duplicates(o) \in SUBSET Nodes
    BY <1>0, <1>4
  <2> HIDE DEF Duplicates
  <2> QED BY <2>1 DEF OuterType
<1>6. \A o \in Firsts : /\ o \in OuterType /\ o.stmt \in Undos
                        /\ \A n \in Undos : Text(n) = Text(o.stmt) => o.stmt <= n
  <2>1. \A n \in Undos : \E k \in DOMAIN outers : n = outers[k].stmt
    BY <1>3
  <2>2. \A o \in ToSet(outers) : o \in OuterType
    BY ElementOfSeq, <1>3
  <2> QED BY <2>1, <2>2
<1> HIDE DEF first
<1>7. DOMAIN first = 1..Len(first) /\ Len(first) \in Nat /\ \A k \in DOMAIN first : first[k] \in Firsts
  <2>1. DOMAIN first = 1..Len(first) /\ Len(first) \in Nat
    BY <1>2, LenProperties
  <2>2. \A k \in DOMAIN first : first[k] \in ToSet(first)
    BY DEF ToSet
  <2> QED BY <1>2, <2>1, <2>2
<1>8. outers' \in Seq(OuterType) /\ ToSet(outers') = {Of(o) : o \in Firsts}
  <2> HIDE DEF Firsts, Of
  <2>1. outers' \in [1..Len(first) -> OuterType]
    BY <1>1, <1>5, <1>6, <1>7
  <2>2. outers' \in Seq(OuterType)
    BY <1>7, <2>1, SeqDef
  <2>3. ToSet(outers') = {Of(o) : o \in ToSet(first)}
    BY <1>1 DEF ToSet
  <2> QED BY <1>2, <2>2, <2>3
<1>9. ASSUME NEW o \in Firsts
      PROVE  /\ Of(o).stmt \in Undos
             /\ \A n \in Of(o).duplicates : n \in Undos /\ n > Of(o).stmt /\ Text(n) = Text(Of(o).stmt)
  <2>1. o \in OuterType /\ o.stmt \in Undos /\ Of(o).stmt = o.stmt /\ Of(o).duplicates = Duplicates(o)
    BY <1>5, <1>6
  <2> HIDE DEF Of
  <2>2. ASSUME NEW n \in Duplicates(o) PROVE n \in Undos /\ n > o.stmt /\ Text(n) = Text(o.stmt)
    <3>1. n \in Undos /\ n # o.stmt /\ Text(n) = Text(o.stmt)
      BY <1>4
    <3>2. o.stmt <= n /\ n \in Nat /\ o.stmt \in Nat
      BY <1>0, <1>6, <2>1, <3>1
    <3> QED BY <3>1, <3>2
  <2> QED BY <2>1, <2>2
<1>10. ASSUME NEW n \in Undos
       PROVE  \E o \in Firsts : n \in {Of(o).stmt} \cup Of(o).duplicates
  <2> DEFINE S == {m \in Undos : Text(m) = Text(n)}
  <2>1. S \in SUBSET Nat /\ S # {}
    BY <1>0
  <2>2. PICK m \in S : \A x \in S : m <= x
    <3> HIDE DEF S
    <3> QED BY <2>1, LeastElement
  <2>3. PICK o \in ToSet(outers) : o.stmt = m
    BY <2>2
  <2>4. \A k \in DOMAIN outers : outers[k].stmt \in Undos
    BY <1>3
  <2>5. o \in Firsts
    BY <2>2, <2>3, <2>4
  <2>6. Of(o).stmt = m /\ Of(o).duplicates = Duplicates(o)
    BY <1>5, <1>6, <2>3, <2>5
  <2> HIDE DEF Of, Firsts
  <2>7. n = m \/ n \in Duplicates(o)
    BY <1>4, <2>2, <2>3
  <2> QED BY <2>5, <2>6, <2>7
<1> HIDE DEF Of, Firsts
<1> QED BY <1>8, <1>9, <1>10

\* The undos that read the same are folded, and the entries of undos that read
\* like an outer one are marked.
LEMMA DuplicatesStep ==
    ASSUME PInv, handle_outer_ehcs_duplicates
    PROVE  PInv'
<1>1. /\ stage = "handle_outer_ehcs_duplicates" /\ function' = function
      /\ score' = score /\ Advance(1, "find_outer_ehcs_pairs")
  BY DEF handle_outer_ehcs_duplicates
<1>2. InnerInv /\ OutersInv /\ PairsInv /\ ScoreInv /\ IsFunction(function) /\ IsTree(function.node)
  BY TheFunction DEF PInv
<1>3. stage' = "find_outer_ehcs_pairs" /\ at' = 1
  BY <1>1, AdvanceOnce DEF PInv
<1>4. outers \in Seq(OuterType) /\ {o.stmt : o \in ToSet(outers)} = Undos
  BY <1>1, <1>2 DEF OutersInv, Collected
<1>5. OutersInv'
  <2>1. /\ outers' \in Seq(OuterType)
        /\ \A o \in ToSet(outers') :
              /\ o.stmt \in Undos
              /\ \A n \in o.duplicates : n \in Undos /\ n > o.stmt /\ Text(n) = Text(o.stmt)
        /\ \A n \in Undos : \E o \in ToSet(outers') : n \in {o.stmt} \cup o.duplicates
    BY <1>2, <1>4, DuplicatesFolded
  <2> QED BY <1>1, <1>3, <2>1, SameFunction DEF OutersInv, Unique, Scoring, Collected
<1>6. PairsInv'
  <2>1. outers' # <<>> => 1 <= Len(outers')
    <3>1. outers' \in Seq(OuterType)
      BY <1>2, <1>4, DuplicatesFolded
    <3>2. Len(outers') \in Nat /\ (outers' = <<>> <=> Len(outers') = 0)
      BY <3>1, LenProperties, EmptySeq
    <3> QED BY <3>2
  <2>2. \A k \in DOMAIN outers' : ~(k < 1)
    <3>1. outers' \in Seq(OuterType)
      BY <1>2, <1>4, DuplicatesFolded
    <3>2. DOMAIN outers' = 1..Len(outers') /\ Len(outers') \in Nat
      BY <3>1, LenProperties
    <3> QED BY <3>2
  <2> QED BY <1>3, <2>1, <2>2 DEF PairsInv, Scoring
<1> DEFINE Same(k) == \E j \in DOMAIN outers : Text(outers[j].stmt) = Text(inner[k].stmt)
<1>7. /\ inner \in Seq(EntryType) /\ Len(inner) = Len(News) /\ Len(inner) \in Nat
      /\ DOMAIN inner = 1..Len(inner)
      /\ \A k \in DOMAIN inner :
            /\ inner[k] \in EntryType
            /\ inner[k].stmt = News[k].stmt
            /\ inner[k].pair < Line(function.ehcs[News[k].ehc].head)
            /\ inner[k].is_outer => IsOuter(inner[k].stmt)
  <2>1. inner \in Seq(EntryType)
    BY <1>2 DEF InnerInv
  <2>2. Len(inner) \in Nat /\ DOMAIN inner = 1..Len(inner)
    BY <2>1, LenProperties
  <2>3. \A k \in DOMAIN inner : inner[k] \in EntryType
    BY <2>1, ElementOfSeq
  <2> QED BY <1>1, <1>2, <2>1, <2>2, <2>3 DEF InnerInv
<1>8. ASSUME NEW k \in DOMAIN inner
      PROVE  /\ Same(k) => IsOuter(inner[k].stmt)
             /\ IsOuter(inner[k].stmt) => Same(k)
  <2>1. inner[k].stmt \in Candid
    <3> DEFINE T == [ehc : DOMAIN function.ehcs, stmt : Candid]
    <3>1. News \in Seq(T)
      BY <1>2, NewsList
    <3> HIDE DEF T
    <3>2. DOMAIN News = 1..Len(News)
      BY <3>1, LenProperties
    <3>3. News[k] \in T
      BY <1>7, <3>1, <3>2, ElementOfSeq
    <3> QED BY <1>7, <3>3 DEF T
  <2>2. inner[k].stmt \in Nodes
    BY <2>1 DEF Candid
  <2>3. \A j \in DOMAIN outers : outers[j].stmt \in Undos
    BY <1>4 DEF ToSet
  <2>4. ASSUME NEW j \in DOMAIN outers, Text(outers[j].stmt) = Text(inner[k].stmt)
        PROVE  IsOuter(inner[k].stmt)
    <3>1. outers[j].stmt \in Nodes /\ IsOuter(outers[j].stmt)
      BY <2>3 DEF Undos
    <3> QED BY <1>2, <2>1, <2>4, <3>1, ReadsLikeOuter
  <2>5. IsOuter(inner[k].stmt) => Same(k)
    <3>1. IsOuter(inner[k].stmt) => inner[k].stmt \in {o.stmt : o \in ToSet(outers)}
      BY <1>4, <2>2 DEF Undos
    <3>2. IsOuter(inner[k].stmt) => \E j \in DOMAIN outers : outers[j].stmt = inner[k].stmt
      BY <3>1 DEF ToSet
    <3> QED BY <3>2
  <2> QED BY <2>4, <2>5
<1> DEFINE Marked(k) == [inner[k] EXCEPT !.is_outer = inner[k].is_outer \/ Same(k)]
<1>9. inner' = [k \in DOMAIN inner |-> Marked(k)]
  BY DEF handle_outer_ehcs_duplicates
<1>10. ASSUME NEW k \in DOMAIN inner
       PROVE  /\ Marked(k) \in EntryType /\ Marked(k).stmt = inner[k].stmt
              /\ Marked(k).pair = inner[k].pair
              /\ Marked(k).is_outer <=> inner[k].is_outer \/ Same(k)
  <2>1. inner[k] \in EntryType
    BY <1>7
  <2> HIDE DEF Same
  <2> QED BY <2>1 DEF EntryType
<1> HIDE DEF Marked, Same
<1>11. inner' \in Seq(EntryType) /\ Len(inner') = Len(News) /\ DOMAIN inner' = DOMAIN inner
  <2>1. inner' \in [1..Len(inner) -> EntryType]
    BY <1>7, <1>9, <1>10
  <2>2. inner' \in Seq(EntryType)
    BY <1>7, <2>1, SeqDef
  <2>3. Len(inner') \in Nat /\ DOMAIN inner' = 1..Len(inner')
    BY <2>2, LenProperties
  <2>4. Len(inner') = Len(inner)
    BY <1>7, <2>1, <2>3
  <2> QED BY <1>7, <2>1, <2>2, <2>4
<1>12. \A k \in DOMAIN inner' :
          /\ inner'[k].stmt = News[k].stmt
          /\ inner'[k].pair < Line(function.ehcs[News[k].ehc].head)
          /\ inner'[k].is_outer => IsOuter(inner'[k].stmt)
          /\ IsOuter(inner'[k].stmt) => inner'[k].is_outer
  BY <1>7, <1>8, <1>9, <1>10, <1>11
<1>13. InnerInv'
  BY <1>1, <1>3, <1>11, <1>12, SameFunction DEF InnerInv
<1>14. ScoreInv'
  BY <1>1, <1>2, <1>3, SameFunction DEF ScoreInv, Scoring
<1> QED BY <1>1, <1>2, <1>3, <1>5, <1>6, <1>13, <1>14, SameFunction DEF PInv, Stages

\* Pairs are nodes.
LEMMA PairsAreNodes ==
    ASSUME IsFunction(function), NEW u \in Nodes
    PROVE  PairsOf(u) \in SUBSET Nodes
<1>1. outer_pair_recurcive_visit(u) \in SUBSET Nodes
  BY DEF outer_pair_recurcive_visit
<1>2. outer_pair_database(u) \in SUBSET Nodes
  <2> DEFINE possible == {n \in Nodes : is_possible_outer_pair(u, n)}
  <2>1. CASE possible = {}
    BY <2>1 DEF outer_pair_database
  <2>2. CASE possible # {}
    <3>1. \E n \in Nodes : outer_pair_database(u) = ReadsLike(n)
      BY <2>2, ChosenOne
    <3> QED BY <3>1 DEF ReadsLike
  <2> QED BY <2>1, <2>2
<1> QED BY <1>1, <1>2 DEF PairsOf

\* The next outer undo is paired.
LEMMA PairedStep ==
    ASSUME PInv, find_outer_ehcs_pairs
    PROVE  PInv'
<1>1. /\ stage = "find_outer_ehcs_pairs" /\ function' = function /\ inner' = inner
      /\ score' = score /\ Advance(Len(outers), "score_missing_statements")
      /\ at \in Nat \ {0}
  BY DEF find_outer_ehcs_pairs, PInv
<1>2. InnerInv /\ OutersInv /\ PairsInv /\ ScoreInv /\ IsFunction(function)
  BY DEF PInv
<1>3. \/ stage' = "find_outer_ehcs_pairs" /\ at' = at + 1 /\ at < Len(outers)
      \/ stage' = "score_missing_statements" /\ at' = 1 /\ ~(at < Len(outers))
  BY <1>1 DEF Advance
<1>4. /\ outers \in Seq(OuterType)
      /\ \A o \in ToSet(outers) :
            /\ o.stmt \in Undos
            /\ \A n \in o.duplicates : n \in Undos /\ n > o.stmt /\ Text(n) = Text(o.stmt)
      /\ \A n \in Undos : \E o \in ToSet(outers) : n \in {o.stmt} \cup o.duplicates
  BY <1>1, <1>2 DEF OutersInv, Unique
<1>5. /\ Len(outers) \in Nat /\ DOMAIN outers = 1..Len(outers)
      /\ outers = <<>> <=> Len(outers) = 0
      /\ outers # <<>> => at <= Len(outers)
      /\ \A k \in DOMAIN outers : k < at =>
            ByVariable(outers[k].stmt, outers[k].pairs) /\ ByAllocation(outers[k].stmt, outers[k].pairs)
  <2>1. Len(outers) \in Nat /\ DOMAIN outers = 1..Len(outers)
    BY <1>4, LenProperties
  <2>2. outers = <<>> <=> Len(outers) = 0
    BY <1>4, EmptySeq
  <2> QED BY <1>1, <1>2, <2>1, <2>2 DEF PairsInv
<1>6. /\ outers' \in Seq(OuterType) /\ Len(outers') = Len(outers) /\ DOMAIN outers' = DOMAIN outers
      /\ \A k \in DOMAIN outers :
            /\ outers'[k].stmt = outers[k].stmt /\ outers'[k].duplicates = outers[k].duplicates
            /\ k <= at =>
                  /\ ByVariable(outers'[k].stmt, outers'[k].pairs)
                  /\ ByAllocation(outers'[k].stmt, outers'[k].pairs)
  <2>1. CASE outers = <<>>
    <3>1. outers' = outers /\ DOMAIN outers = {}
      BY <1>5, <2>1 DEF find_outer_ehcs_pairs
    <3> QED BY <1>4, <3>1
  <2>2. CASE outers # <<>>
    <3>1. PICK j \in DOMAIN outers : j = at
      BY <1>1, <1>5, <2>2
    <3> DEFINE u == outers[j].stmt
               x == [outers[j] EXCEPT !.pairs = PairsOf(u)]
    <3>2. outers' = [outers EXCEPT ![j] = x]
      BY <2>2, <3>1 DEF find_outer_ehcs_pairs, PairsOf
    <3>3. u \in Nodes /\ IsCall(u)
      <4>1. outers[j].stmt \in Undos
        BY <1>4 DEF ToSet
      <4> QED BY <4>1 DEF Undos, IsOuter
    <3>4. PairsOf(u) \in SUBSET Nodes /\ ByVariable(u, PairsOf(u)) /\ ByAllocation(u, PairsOf(u))
      BY <1>2, <3>3, PairsAreNodes, VariableFound, AllocationFound
    <3>5. outers[j] \in OuterType
      BY <1>4, ElementOfSeq
    <3>6. /\ x \in OuterType /\ x.stmt = outers[j].stmt /\ x.duplicates = outers[j].duplicates
          /\ x.pairs = PairsOf(u)
      <4> DEFINE P == PairsOf(u)
      <4>1. P \in SUBSET Nodes
        BY <3>4
      <4> HIDE DEF P
      <4>2. /\ [outers[j] EXCEPT !.pairs = P] \in OuterType
            /\ [outers[j] EXCEPT !.pairs = P].stmt = outers[j].stmt
            /\ [outers[j] EXCEPT !.pairs = P].duplicates = outers[j].duplicates
            /\ [outers[j] EXCEPT !.pairs = P].pairs = P
        BY <3>5, <4>1 DEF OuterType
      <4> QED BY <4>2 DEF P
    <3>7. x.stmt = u
      BY <3>6
    <3> HIDE DEF x, u
    <3>8. outers' \in Seq(OuterType) /\ Len(outers') = Len(outers)
      BY <1>4, <3>1, <3>2, <3>6, ExceptSeq
    <3>9. /\ DOMAIN outers' = DOMAIN outers /\ outers'[j] = x
          /\ \A k \in DOMAIN outers \ {j} : outers'[k] = outers[k]
      BY <3>2
    <3>10. ASSUME NEW k \in DOMAIN outers
           PROVE  /\ outers'[k].stmt = outers[k].stmt /\ outers'[k].duplicates = outers[k].duplicates
                  /\ k <= at =>
                        /\ ByVariable(outers'[k].stmt, outers'[k].pairs)
                        /\ ByAllocation(outers'[k].stmt, outers'[k].pairs)
      <4>1. CASE k = j
        BY <3>4, <3>6, <3>7, <3>9, <4>1
      <4>2. CASE k # j
        <5>1. outers'[k] = outers[k] /\ (k <= at => k < at)
          BY <1>1, <1>5, <3>1, <3>9, <4>2
        <5> QED BY <1>5, <5>1
      <4> QED BY <4>1, <4>2
    <3> QED BY <3>8, <3>9, <3>10
  <2> QED BY <2>1, <2>2
<1>7. /\ \A o \in ToSet(outers') : \E q \in ToSet(outers) : o.stmt = q.stmt /\ o.duplicates = q.duplicates
      /\ \A q \in ToSet(outers) : \E o \in ToSet(outers') : o.stmt = q.stmt /\ o.duplicates = q.duplicates
  BY <1>6 DEF ToSet
<1>8. stage' \in Unique /\ stage' \notin Collected /\ stage' \notin Earliest
  BY <1>3 DEF Unique, Scoring, Collected, Earliest
<1>9. OutersInv'
  <2>1. /\ \A o \in ToSet(outers') :
            /\ o.stmt \in Undos
            /\ \A n \in o.duplicates : n \in Undos /\ n > o.stmt /\ Text(n) = Text(o.stmt)
        /\ \A n \in Undos : \E o \in ToSet(outers') : n \in {o.stmt} \cup o.duplicates
    <3>1. ASSUME NEW o \in ToSet(outers')
          PROVE  /\ o.stmt \in Undos
                 /\ \A n \in o.duplicates : n \in Undos /\ n > o.stmt /\ Text(n) = Text(o.stmt)
      BY <1>4, <1>7
    <3>2. ASSUME NEW n \in Undos PROVE \E o \in ToSet(outers') : n \in {o.stmt} \cup o.duplicates
      <4>1. PICK q \in ToSet(outers) : n \in {q.stmt} \cup q.duplicates
        BY <1>4
      <4> QED BY <1>7, <4>1
    <3> QED BY <3>1, <3>2
  <2> QED BY <1>1, <1>6, <1>8, <2>1, SameFunction DEF OutersInv, Unique, Collected, Scoring
<1>10. InnerInv'
  BY <1>1, <1>2, <1>8, InnerKept DEF Earliest, Unique
<1>11. PairsInv'
  <2>1. \A k \in DOMAIN outers' :
           stage' \in Scoring \/ (stage' = "find_outer_ehcs_pairs" /\ k < at') => k <= at
    <3>1. CASE stage' = "find_outer_ehcs_pairs" /\ at' = at + 1 /\ at < Len(outers)
      BY <1>1, <1>5, <1>6, <3>1 DEF Scoring
    <3>2. CASE stage' = "score_missing_statements" /\ at' = 1 /\ ~(at < Len(outers))
      BY <1>1, <1>5, <1>6, <3>2
    <3> QED BY <1>3, <3>1, <3>2
  <2>2. stage' = "find_outer_ehcs_pairs" /\ outers' # <<>> => at' <= Len(outers')
    BY <1>1, <1>3, <1>5, <1>6
  <2>3. \A k \in DOMAIN outers' :
           stage' \in Scoring \/ (stage' = "find_outer_ehcs_pairs" /\ k < at') =>
              /\ ByVariable(outers'[k].stmt, outers'[k].pairs)
              /\ ByAllocation(outers'[k].stmt, outers'[k].pairs)
    BY <1>6, <2>1
  <2>4. \A u, P : /\ ByVariable(u, P)' <=> ByVariable(u, P)
                  /\ ByAllocation(u, P)' <=> ByAllocation(u, P)
    BY <1>1, SameQuestion
  <2> QED BY <2>2, <2>3, <2>4 DEF PairsInv, Scoring
<1>12. ScoreInv'
  <2>1. stage' \notin Scoring \ {"score_missing_statements"} /\ stage' # "recursiveVisit_function_pointer"
        /\ stage' \notin {"generate_cleanup_str", "done"}
    BY <1>3 DEF Scoring
  <2> QED BY <1>1, <1>2, <2>1, SameFunction DEF ScoreInv, Scoring
<1> QED BY <1>1, <1>2, <1>3, <1>9, <1>10, <1>11, <1>12, SameFunction DEF PInv, Stages

\* The handlers that only score leave the undos and their pairs alone.
LEMMA UndosKept ==
    ASSUME InnerInv, OutersInv, PairsInv, function' = function, inner' = inner, outers' = outers,
           stage \in Scoring, stage' \in Scoring
    PROVE  InnerInv' /\ OutersInv' /\ PairsInv'
<1>1. /\ stage \notin Earliest \cup Collected /\ stage' \notin Earliest \cup Collected
      /\ stage \in Unique /\ stage' \in Unique
      /\ stage # "find_outer_ehcs_pairs" /\ stage' # "find_outer_ehcs_pairs"
  BY DEF Scoring, Earliest, Collected, Unique
<1>2. InnerInv'
  BY <1>1, InnerKept
<1>3. OutersInv'
  BY <1>1, SameFunction DEF OutersInv, Unique, Scoring, Collected
<1>4. PairsInv'
  <2>1. \A k \in DOMAIN outers :
           ByVariable(outers[k].stmt, outers[k].pairs) /\ ByAllocation(outers[k].stmt, outers[k].pairs)
    BY DEF PairsInv
  <2>2. \A k \in DOMAIN outers' :
           /\ ByVariable(outers'[k].stmt, outers'[k].pairs)
           /\ ByAllocation(outers'[k].stmt, outers'[k].pairs)
    BY <2>1
  <2>3. \A u, P : /\ ByVariable(u, P)' <=> ByVariable(u, P)
                  /\ ByAllocation(u, P)' <=> ByAllocation(u, P)
    BY SameQuestion
  <2> QED BY <1>1, <2>2, <2>3 DEF PairsInv, Scoring
<1> QED BY <1>2, <1>3, <1>4

\* What the sum is made of depends on the undos only.
LEMMA SameReasons ==
    ASSUME function' = function, inner' = inner, outers' = outers
    PROVE  ByPointer' = ByPointer /\ Missing' = Missing /\ Doubtful' = Doubtful /\ Crowd' = Crowd
<1>1. Missing' = Missing
  <2>1. \A u : found_with_database(u)' <=> found_with_database(u)
    BY DEF found_with_database, Node
  <2>2. Acquired' = Acquired
    BY <2>1, SameFunction DEF Acquired, Node
  <2> QED BY <2>2, SameFunction DEF Missing
<1>2. InnerOnly' = InnerOnly
  BY DEF InnerOnly
<1>3. Doubtful' = Doubtful /\ Crowd' = Crowd
  BY <1>2 DEF Doubtful, Crowd
<1> QED BY <1>1, <1>3, SameFunction

\* The functions without an undo are those that none of the undos is paired with.
LEMMA MissingFound == {f \in outer_smss_recurcive_visit : MissingUndo(f)} = Missing
<1>1. ASSUME NEW f \in outer_smss_recurcive_visit
      PROVE  MissingUndo(f) <=> f \notin Acquired
  <2>1. PICK m \in Nodes : IsCall(m) /\ Node(m).fn = f
    BY DEF outer_smss_recurcive_visit
  <2>2. ASSUME f \in Acquired PROVE ~MissingUndo(f)
    <3>1. PICK k \in DOMAIN outers : /\ found_with_database(outers[k].stmt)
                                     /\ \E n \in Named(outers[k].stmt) : Node(n).fn = f
      BY <2>2 DEF Acquired
    <3>2. <<Node(outers[k].stmt).fn, f>> \in ToSet(Database)
      BY <3>1 DEF Named
    <3> QED BY <3>1, <3>2 DEF MissingUndo
  <2>3. ASSUME ~MissingUndo(f) PROVE f \in Acquired
    <3>1. PICK k \in DOMAIN outers : /\ found_with_database(outers[k].stmt)
                                     /\ <<Node(outers[k].stmt).fn, f>> \in ToSet(Database)
      BY <2>3 DEF MissingUndo
    <3>2. m \in Named(outers[k].stmt)
      BY <2>1, <3>1 DEF Named
    <3> QED BY <2>1, <3>1, <3>2 DEF Acquired
  <2> QED BY <2>2, <2>3
<1> QED BY <1>1 DEF Missing

\* The functions that acquire and have no undo are counted.
LEMMA MissingStep ==
    ASSUME PInv, score_missing_statements
    PROVE  PInv'
<1>1. /\ stage = "score_missing_statements" /\ function' = function
      /\ inner' = inner /\ outers' = outers
      /\ Penalise("missing_ehc", Cardinality(Missing), 10) /\ Advance(1, "assign_pairmask_id")
  BY MissingFound DEF score_missing_statements
<1>2. InnerInv /\ OutersInv /\ PairsInv /\ ScoreInv /\ IsFunction(function) /\ IsTree(function.node)
  BY TheFunction DEF PInv
<1>3. stage' = "assign_pairmask_id" /\ at' = 1
  BY <1>1, AdvanceOnce DEF PInv
<1>4. InnerInv' /\ OutersInv' /\ PairsInv'
  BY <1>1, <1>2, <1>3, UndosKept DEF Scoring
<1>5. ScoreInv'
  <2>1. /\ score \in [Parts -> Int] /\ score["function_pointer"] = -(30 * Cardinality(ByPointer))
        /\ score["missing_ehc"] = 0 /\ score["number_ehc"] = 0 /\ score["maybe_blocks"] = 0
    BY <1>1, <1>2 DEF ScoreInv, Scoring
  <2> DEFINE c == Cardinality(Missing)
  <2>2. c \in Nat /\ Penalise("missing_ehc", c, 10)
    BY <1>1, <1>2, Counts DEF Missing
  <2>3. "missing_ehc" \in Parts /\ 10 \in Nat
    BY DEF Parts
  <2> HIDE DEF c
  <2>4. /\ score' \in [Parts -> Int] /\ score'["missing_ehc"] = -(10 * c)
        /\ \A p \in Parts \ {"missing_ehc"} : score'[p] = score[p]
    BY <2>1, <2>2, <2>3, Penalised
  <2>5. /\ score'["function_pointer"] = score["function_pointer"]
        /\ score'["number_ehc"] = 0 /\ score'["maybe_blocks"] = 0
    BY <2>1, <2>4 DEF Parts
  <2> QED BY <1>1, <1>3, <2>1, <2>4, <2>5, SameReasons DEF ScoreInv, Scoring, c
<1> QED BY <1>1, <1>2, <1>3, <1>4, <1>5, SameFunction DEF PInv, Stages

\* The undos are counted.
LEMMA NumberStep ==
    ASSUME PInv, assign_pairmask_id
    PROVE  PInv'
<1>1. /\ stage = "assign_pairmask_id" /\ function' = function
      /\ inner' = inner /\ outers' = outers
      /\ score' = [score EXCEPT !["number_ehc"] = -NumberPenalty(Cardinality(InnerOnly) + Len(outers))]
      /\ Advance(1, "generate_cleanup_str")
  BY DEF assign_pairmask_id
<1>2. InnerInv /\ OutersInv /\ PairsInv /\ ScoreInv /\ IsFunction(function)
  BY DEF PInv
<1>3. stage' = "generate_cleanup_str" /\ at' = 1
  BY <1>1, AdvanceOnce DEF PInv
<1>4. InnerInv' /\ OutersInv' /\ PairsInv'
  BY <1>1, <1>2, <1>3, UndosKept DEF Scoring
<1>5. Cardinality(InnerOnly) + Len(outers) \in Nat
  <2>1. inner \in Seq(EntryType) /\ outers \in Seq(OuterType)
    BY <1>2 DEF InnerInv, OutersInv
  <2>2. Len(inner) \in Nat /\ DOMAIN inner = 1..Len(inner)
    BY <2>1, LenProperties
  <2>3. Len(outers) \in Nat
    BY <2>1, LenProperties
  <2>4. IsFiniteSet(DOMAIN inner) /\ InnerOnly \subseteq DOMAIN inner
    BY <2>2, FS_Interval DEF InnerOnly
  <2>5. Cardinality(InnerOnly) \in Nat
    BY <2>4, FS_Subset, FS_CardinalityType
  <2> QED BY <2>3, <2>5
<1> DEFINE bits == Cardinality(InnerOnly) + Len(outers)
<1>6. NumberPenalty(bits) = Crowd /\ Crowd \in {0, 20, 40}
  <2>1. bits \in Nat /\ Some \in Nat /\ Many \in Nat /\ Some <= Many
    BY <1>5, PairSearchAssumption DEF PairSearchAssumption
  <2>2. Crowd = (IF bits > Some THEN 20 ELSE 0) + (IF bits > Many THEN 20 ELSE 0)
    BY DEF Crowd
  <2> HIDE DEF bits
  <2> QED BY <2>1, <2>2 DEF NumberPenalty
<1>7. ScoreInv'
  <2>1. /\ score \in [Parts -> Int] /\ score["function_pointer"] = -(30 * Cardinality(ByPointer))
        /\ score["missing_ehc"] = -(10 * Cardinality(Missing)) /\ score["maybe_blocks"] = 0
    BY <1>1, <1>2 DEF ScoreInv, Scoring
  <2>2. score' = [score EXCEPT !["number_ehc"] = -Crowd]
    BY <1>1, <1>6
  <2>3. /\ score' \in [Parts -> Int] /\ score'["number_ehc"] = -Crowd
        /\ score'["function_pointer"] = score["function_pointer"]
        /\ score'["missing_ehc"] = score["missing_ehc"] /\ score'["maybe_blocks"] = 0
    <3>1. -Crowd \in Int
      BY <1>6
    <3> DEFINE d == -Crowd
    <3>2. d \in Int /\ score' = [score EXCEPT !["number_ehc"] = d]
      BY <2>2, <3>1
    <3> HIDE DEF d
    <3>3. /\ score' \in [Parts -> Int] /\ score'["number_ehc"] = d
          /\ score'["function_pointer"] = score["function_pointer"]
          /\ score'["missing_ehc"] = score["missing_ehc"] /\ score'["maybe_blocks"] = 0
      BY <2>1, <3>2 DEF Parts
    <3> QED BY <3>3 DEF d
  <2> QED BY <1>1, <1>3, <2>1, <2>3, SameReasons DEF ScoreInv, Scoring
<1> QED BY <1>1, <1>2, <1>3, <1>4, <1>7, SameFunction DEF PInv, Stages

\* There are finitely many undos of doubtful blocks.
LEMMA DoubtfulCount ==
    ASSUME InnerInv
    PROVE  Cardinality(Doubtful) \in Nat
<1>1. inner \in Seq(EntryType)
  BY DEF InnerInv
<1>2. Len(inner) \in Nat /\ DOMAIN inner = 1..Len(inner)
  BY <1>1, LenProperties
<1>3. IsFiniteSet(DOMAIN inner) /\ Doubtful \subseteq DOMAIN inner
  BY <1>2, FS_Interval DEF Doubtful, InnerOnly
<1> QED BY <1>3, FS_Subset, FS_CardinalityType

\* The undos of doubtful blocks are counted.
LEMMA DoubtfulStep ==
    ASSUME PInv, generate_cleanup_str
    PROVE  PInv'
<1>1. /\ stage = "generate_cleanup_str" /\ function' = function
      /\ inner' = inner /\ outers' = outers
      /\ Penalise("maybe_blocks", Cardinality(Doubtful), 8) /\ Advance(1, "done")
  BY DEF generate_cleanup_str, Doubtful
<1>2. InnerInv /\ OutersInv /\ PairsInv /\ ScoreInv /\ IsFunction(function)
  BY DEF PInv
<1>3. stage' = "done" /\ at' = 1
  BY <1>1, AdvanceOnce DEF PInv
<1>4. InnerInv' /\ OutersInv' /\ PairsInv'
  BY <1>1, <1>2, <1>3, UndosKept DEF Scoring
<1>5. Cardinality(Doubtful) \in Nat
  BY <1>2, DoubtfulCount
<1>6. ScoreInv'
  <2>1. /\ score \in [Parts -> Int] /\ score["function_pointer"] = -(30 * Cardinality(ByPointer))
        /\ score["missing_ehc"] = -(10 * Cardinality(Missing)) /\ score["number_ehc"] = -Crowd
        /\ score["maybe_blocks"] = 0
    BY <1>1, <1>2 DEF ScoreInv, Scoring
  <2> DEFINE c == Cardinality(Doubtful)
  <2>2. c \in Nat /\ Penalise("maybe_blocks", c, 8)
    BY <1>1, <1>5
  <2>3. "maybe_blocks" \in Parts /\ 8 \in Nat
    BY DEF Parts
  <2> HIDE DEF c
  <2>4. /\ score' \in [Parts -> Int] /\ score'["maybe_blocks"] = -(8 * c)
        /\ \A p \in Parts \ {"maybe_blocks"} : score'[p] = score[p]
    BY <2>1, <2>2, <2>3, Penalised
  <2>5. /\ score'["function_pointer"] = score["function_pointer"]
        /\ score'["missing_ehc"] = score["missing_ehc"] /\ score'["number_ehc"] = score["number_ehc"]
    BY <2>4 DEF Parts
  <2> QED BY <1>1, <1>3, <2>1, <2>4, <2>5, SameReasons DEF ScoreInv, Scoring, c
<1> QED BY <1>1, <1>2, <1>3, <1>4, <1>6, SameFunction DEF PInv, Stages

\* Nothing is entered, collected or scored at the start.
LEMMA PairInit == Init => PInv
<1> SUFFICES ASSUME Init PROVE PInv
  OBVIOUS
<1>1. /\ function \in Functions /\ stage = "recursiveVisit_function_pointer" /\ at = 1
      /\ inner = <<>> /\ outers = <<>> /\ score = [p \in Parts |-> 0]
  BY DEF Init
<1>2. IsFunction(function)
  BY <1>1, PairSearchAssumption DEF PairSearchAssumption
<1>3. InnerInv
  <2>1. inner \in Seq(EntryType) /\ Len(inner) = 0 /\ DOMAIN inner = {}
    BY <1>1
  <2> QED BY <1>1, <2>1 DEF InnerInv
<1>4. OutersInv
  <2>1. outers \in Seq(OuterType) /\ ToSet(outers) = {}
    BY <1>1, EmptyList
  <2> QED BY <1>1, <2>1 DEF OutersInv, Unique, Scoring, Collected
<1>5. PairsInv
  <2>1. DOMAIN outers = {}
    BY <1>1
  <2> QED BY <1>1, <2>1 DEF PairsInv
<1>6. ScoreInv
  BY <1>1 DEF ScoreInv, Scoring, Parts
<1> QED BY <1>1, <1>2, <1>3, <1>4, <1>5, <1>6 DEF PInv, Stages

\* A step that changes nothing.
LEMMA PairStutter ==
    ASSUME PInv, UNCHANGED vars
    PROVE  PInv'
<1>1. /\ function' = function /\ stage' = stage /\ at' = at /\ inner' = inner
      /\ outers' = outers /\ score' = score
  BY DEF vars
<1>2. InnerInv /\ OutersInv /\ PairsInv /\ ScoreInv
  BY DEF PInv
<1>3. InnerInv'
  BY <1>1, <1>2, SameFunction DEF InnerInv, Unique, Scoring
<1>4. OutersInv'
  BY <1>1, <1>2, SameFunction DEF OutersInv, Unique, Scoring, Collected
<1>5. PairsInv'
  <2>1. \A k \in DOMAIN outers' :
           stage' \in Scoring \/ (stage' = "find_outer_ehcs_pairs" /\ k < at') =>
              /\ ByVariable(outers'[k].stmt, outers'[k].pairs)
              /\ ByAllocation(outers'[k].stmt, outers'[k].pairs)
    BY <1>1, <1>2 DEF PairsInv
  <2>2. \A u, P : /\ ByVariable(u, P)' <=> ByVariable(u, P)
                  /\ ByAllocation(u, P)' <=> ByAllocation(u, P)
    BY <1>1, SameQuestion
  <2>3. stage' = "find_outer_ehcs_pairs" /\ outers' # <<>> => at' <= Len(outers')
    BY <1>1, <1>2 DEF PairsInv
  <2> QED BY <2>1, <2>2, <2>3 DEF PairsInv, Scoring
<1>6. ScoreInv'
  BY <1>1, <1>2, SameReasons DEF ScoreInv, Scoring
<1> QED BY <1>1, <1>3, <1>4, <1>5, <1>6, SameFunction DEF PInv, Stages

-----------------------------------------------------------------------------
(* Theorems. *)

\* The inductive invariant: every entry, outer undo, pair and part of the score
\* is right from the handler on that sets it.
THEOREM PairInvariant == Spec => []PInv
<1>1. ASSUME PInv, [Next]_vars PROVE PInv'
  BY <1>1, PointersStep, FindStep, CollectStep, DuplicatesStep, PairedStep, MissingStep,
     NumberStep, DoubtfulStep, PairStutter DEF Next
<1> QED BY PairInit, <1>1, PTL DEF Spec

\* The undos and pairs of every function are nodes of it; an inner undo has no
\* pair or one before its block, and duplicates are later undos of the same text.
THEOREM PairTypeCorrect == Spec => []PairTypeOK
<1>1. ASSUME PInv PROVE PairTypeOK
  <2>1. InnerInv /\ OutersInv /\ IsFunction(function) /\ stage \in Stages /\ at \in Nat \ {0}
    BY <1>1 DEF PInv
  <2>2. inner \in Seq(EntryType) /\ outers \in Seq(OuterType)
    BY <2>1 DEF InnerInv, OutersInv
  <2>3. Len(News) \in Nat /\ DOMAIN News = 1..Len(News)
    BY <2>1, NewsList, LenProperties
  <2>4. Len(inner) \in Nat /\ DOMAIN inner = 1..Len(inner)
    BY <2>2, LenProperties
  <2>5. Len(inner) <= Len(News)
    BY <2>1, <2>3, <2>4 DEF InnerInv
  <2>6. ASSUME NEW k \in DOMAIN inner
        PROVE  inner[k].pair \in 0..(Line(function.ehcs[News[k].ehc].head) - 1)
    <3> DEFINE b == function.ehcs[News[k].ehc].head
    <3>0. IsTree(function.node) /\ Size \in Nat /\ Nodes = 1..Size
      BY <2>1, TheFunction, TreeNodes
    <3>1. inner[k] \in EntryType
      BY <2>2, ElementOfSeq
    <3>2. inner[k].pair \in Nat
      BY <3>0, <3>1 DEF EntryType
    <3>3. inner[k].pair < Line(b)
      BY <2>1 DEF InnerInv
    <3>4. b \in Nodes
      <4> DEFINE T == [ehc : DOMAIN function.ehcs, stmt : Candid]
                 E == [head : Nodes, news : Seq(Nodes), verified : BOOLEAN]
      <4>1. News \in Seq(T) /\ function.ehcs \in Seq(E)
        BY <2>1, NewsList, TheFunction
      <4>2. k \in DOMAIN News
        BY <2>3, <2>4, <2>5
      <4> HIDE DEF T, E
      <4>3. News[k] \in T
        BY <4>1, <4>2, ElementOfSeq
      <4>4. News[k].ehc \in DOMAIN function.ehcs
        BY <4>3 DEF T
      <4>5. function.ehcs[News[k].ehc] \in E
        BY <4>1, <4>4, ElementOfSeq
      <4> QED BY <4>5 DEF E
    <3> HIDE DEF b
    <3>5. Line(b) \in Nat
      <4>1. Line(b) \in 1..b /\ b \in Nat
        BY <3>0, <3>4, LineIsLast, AboveBefore
      <4> QED BY <4>1
    <3>6. inner[k].pair \in 0..(Line(b) - 1)
      BY <3>2, <3>3, <3>5
    <3> QED BY <3>6 DEF b
  <2>7. ASSUME NEW k \in DOMAIN outers
        PROVE  /\ outers[k].stmt \in Nodes /\ outers[k].pairs \subseteq Nodes
               /\ \A n \in outers[k].duplicates : n > outers[k].stmt /\ Text(n) = Text(outers[k].stmt)
    <3>1. outers[k] \in OuterType /\ outers[k] \in ToSet(outers)
      BY <2>2, ElementOfSeq DEF ToSet
    <3> QED BY <2>1, <3>1 DEF OuterType, OutersInv
  <2> QED BY <2>1, <2>5, <2>6, <2>7 DEF PairTypeOK
<1> QED BY PairInvariant, <1>1, PTL

\* An undo is paired with the calls that share a variable with it, if any of the
\* functions that the database names does; an unlock with the locks of its lock.
THEOREM PairedCorrect == Spec => []PairedByVariable
<1>1. ASSUME PInv PROVE PairedByVariable
  BY <1>1 DEF PInv, PairsInv, PairedByVariable, Scoring
<1> QED BY PairInvariant, <1>1, PTL

\* A kfree is paired with an allocation of what it frees, behind a cast, if there is one.
THEOREM AllocationCorrect == Spec => []KfreeFindsAllocation
<1>1. ASSUME PInv PROVE KfreeFindsAllocation
  BY <1>1 DEF PInv, PairsInv, KfreeFindsAllocation, Scoring
<1> QED BY PairInvariant, <1>1, PTL

\* An undo of a block ends up among the outer undos if and only if its own entry
\* is left out.
THEOREM NothingLeftOutCorrect == Spec => []NothingLeftOut
<1>1. ASSUME PInv, stage = "done", NEW k \in DOMAIN News
      PROVE  /\ inner[k].stmt = News[k].stmt
             /\ (\E j \in DOMAIN outers : News[k].stmt \in {outers[j].stmt} \cup outers[j].duplicates)
                <=> inner[k].is_outer
  <2>1. InnerInv /\ OutersInv /\ IsFunction(function) /\ stage \in Unique
    BY <1>1 DEF PInv, Unique, Scoring
  <2>2. inner \in Seq(EntryType) /\ Len(inner) = Len(News)
    BY <1>1, <2>1 DEF InnerInv
  <2>3. DOMAIN inner = 1..Len(inner)
    BY <2>2, LenProperties
  <2>4. DOMAIN News = 1..Len(News)
    BY <2>1, NewsList, LenProperties
  <2>5. k \in DOMAIN inner
    BY <2>2, <2>3, <2>4
  <2>6. inner[k].stmt = News[k].stmt /\ (inner[k].is_outer <=> IsOuter(News[k].stmt))
    BY <2>1, <2>5 DEF InnerInv
  <2>7. News[k].stmt \in Nodes
    <3>1. inner[k] \in EntryType
      BY <2>2, <2>5, ElementOfSeq
    <3> QED BY <2>6, <3>1 DEF EntryType
  <2>8. (\E j \in DOMAIN outers : News[k].stmt \in {outers[j].stmt} \cup outers[j].duplicates)
        <=> \E o \in ToSet(outers) : News[k].stmt \in {o.stmt} \cup o.duplicates
    BY DEF ToSet
  <2>9. (\E o \in ToSet(outers) : News[k].stmt \in {o.stmt} \cup o.duplicates) <=> News[k].stmt \in Undos
    BY <2>1 DEF OutersInv
  <2>10. News[k].stmt \in Undos <=> IsOuter(News[k].stmt)
    BY <2>7 DEF Undos
  <2> QED BY <2>6, <2>8, <2>9, <2>10
<1>2. ASSUME PInv PROVE NothingLeftOut
  BY <1>1, <1>2 DEF NothingLeftOut
<1> QED BY PairInvariant, <1>2, PTL

\* The confidence score is the sum of its reasons, whatever the flag was.
THEOREM ScoreCorrect == Spec => []ScoreAddsUp
<1>1. ASSUME PInv, stage = "done"
      PROVE  overall_score = 100 - 30 * Cardinality(ByPointer) - 10 * Cardinality(Missing)
                                 - 8 * Cardinality(Doubtful) - Crowd
  <2>1. ScoreInv
    BY <1>1 DEF PInv
  <2>2. /\ score["function_pointer"] = -(30 * Cardinality(ByPointer))
        /\ score["missing_ehc"] = -(10 * Cardinality(Missing))
        /\ score["number_ehc"] = -Crowd /\ score["maybe_blocks"] = -(8 * Cardinality(Doubtful))
    BY <1>1, <2>1 DEF ScoreInv, Scoring
  <2>3. score \in [Parts -> Int]
    BY <2>1 DEF ScoreInv
  <2> DEFINE a == score["function_pointer"]
             b == score["missing_ehc"]
             c == score["number_ehc"]
             d == score["maybe_blocks"]
             p == 30 * Cardinality(ByPointer)
             q == 10 * Cardinality(Missing)
             r == 8 * Cardinality(Doubtful)
  <2>4. a \in Int /\ b \in Int /\ c \in Int /\ d \in Int /\ overall_score = 100 + c + b + a + d
    BY <2>3 DEF overall_score, Parts
  <2>5. a = -p /\ b = -q /\ c = -Crowd /\ d = -r
    BY <2>2
  <2>6. p \in Int /\ q \in Int /\ r \in Int /\ Crowd \in Int
    <3>1. IsFunction(function) /\ InnerInv /\ IsTree(function.node)
      BY <1>1, TheFunction DEF PInv
    <3>2. Cardinality(ByPointer) \in Nat /\ Cardinality(Missing) \in Nat
      BY <3>1, Counts DEF Missing
    <3>3. Cardinality(Doubtful) \in Nat
      BY <3>1, DoubtfulCount
    <3>4. Crowd \in Int
      BY DEF Crowd
    <3> QED BY <3>2, <3>3, <3>4
  <2> HIDE DEF a, b, c, d, p, q, r
  <2>7. overall_score = 100 - p - q - r - Crowd
    BY <2>4, <2>5, <2>6
  <2> QED BY <2>7 DEF p, q, r
<1>2. ASSUME PInv PROVE ScoreAddsUp
  BY <1>1, <1>2 DEF ScoreAddsUp
<1> QED BY PairInvariant, <1>2, PTL
===============================================================================
