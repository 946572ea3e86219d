------------------------------ MODULE FilterProofs -----------------------------
(****************************************************************************)
(* What Keep keeps.  Its recursion is a loop over the list; that a fact     *)
(* holds after every turn is an induction over the turns, for which the set *)
(* of the turns after which it holds is named.                              *)
(****************************************************************************)
EXTENDS Filter, SequencesExt, FiniteSetTheorems, SequenceTheorems, WellFoundedInduction, TLAPS

-----------------------------------------------------------------------------
(* Induction. *)

\* A non-empty set of natural numbers has a least element.
LEMMA LeastElement ==
    ASSUME NEW S \in SUBSET Nat, S # {}
    PROVE  \E m \in S : \A n \in S : m <= n
<1> DEFINE Upto == {1..m : m \in S}
<1>1. Upto \subseteq FiniteSubsetsOf(Nat) /\ Upto # {}
  <2>1. ASSUME NEW m \in S
        PROVE  1..m \in FiniteSubsetsOf(Nat)
    <3>1. m \in Int /\ 1 \in Int
      OBVIOUS
    <3>2. IsFiniteSet(1..m)
      BY <3>1, FS_Interval
    <3>3. 1..m \in SUBSET Nat
      OBVIOUS
    <3> QED BY <3>2, <3>3 DEF FiniteSubsetsOf
  <2> QED BY <2>1
<1>2. PICK x \in Upto : \A y \in Upto : <<y, x>> \notin StrictSubsetOrdering(Nat)
  BY <1>1, FS_StrictSubsetOrderingWellFounded, WFMin
<1>3. PICK m \in S : x = 1..m
  OBVIOUS
<1>4. ASSUME NEW n \in S, n < m
      PROVE  FALSE
  <2>1. 1..n \subseteq 1..m /\ 1..n # 1..m
    <3>1. m \in 1..m /\ m \notin 1..n
      BY <1>4
    <3> QED BY <1>4, <3>1
  <2>2. 1..n \in SUBSET Nat /\ 1..m \in SUBSET Nat
    OBVIOUS
  <2>3. \A A, B \in SUBSET Nat :
            A \subseteq B /\ A # B => <<A, B>> \in StrictSubsetOrdering(Nat)
    BY DEF StrictSubsetOrdering
  <2>4. <<1..n, 1..m>> \in StrictSubsetOrdering(Nat)
    BY <2>1, <2>2, <2>3
  <2>5. 1..n \in Upto
    BY <1>4
  <2>6. <<1..n, x>> \notin StrictSubsetOrdering(Nat)
    BY <1>2, <2>5
  <2> QED BY <1>3, <2>4, <2>6
<1> QED BY <1>4

\* Induction over the turns of a loop, X being those after which a fact holds.
LEMMA EveryTurn ==
    ASSUME NEW n \in Nat, NEW X, 0 \in X, \A d \in 1..n : d - 1 \in X => d \in X
    PROVE  \A d \in 0..n : d \in X
<1> DEFINE Bad == {d \in 0..n : d \notin X}
<1>1. SUFFICES ASSUME Bad # {} PROVE FALSE
  OBVIOUS
<1>2. PICK m \in Bad : \A d \in Bad : m <= d
  <2>1. Bad \in SUBSET Nat
    OBVIOUS
  <2> HIDE DEF Bad
  <2> QED BY <1>1, <2>1, LeastElement
<1>3. m \in 1..n /\ m - 1 \in 0..n /\ ~(m <= m - 1)
  BY <1>2
<1> QED BY <1>2, <1>3

\* A set of numbers up to n that is not empty has a least and a greatest element.
LEMMA Extremes ==
    ASSUME NEW n \in Nat, NEW S \in SUBSET (0..n), S # {}
    PROVE  /\ Min(S) \in S /\ \A x \in S : Min(S) <= x
           /\ Max(S) \in S /\ \A x \in S : Max(S) >= x
<1>1. S \in SUBSET Nat
  OBVIOUS
<1>2. \E m \in S : \A x \in S : m <= x
  BY <1>1, LeastElement
<1>3. \E m \in S : \A x \in S : m >= x
  <2> DEFINE R == {n - x : x \in S}
  <2>1. R \in SUBSET Nat /\ R # {}
    <3>1. \A x \in S : n - x \in Nat
      OBVIOUS
    <3> QED BY <3>1
  <2>2. PICK r \in R : \A s \in R : r <= s
    <3> HIDE DEF R
    <3> QED BY <2>1, LeastElement
  <2>3. PICK m \in S : r = n - m
    BY <2>2
  <2>4. ASSUME NEW x \in S PROVE m >= x
    <3>1. n - x \in R /\ n \in Int /\ x \in Int /\ m \in Int
      OBVIOUS
    <3>2. n - m <= n - x
      BY <2>2, <2>3, <3>1
    <3> QED BY <3>1, <3>2
  <2> QED BY <2>4
<1>4. Min(S) \in S /\ \A x \in S : Min(S) <= x
  BY <1>2 DEF Min
<1>5. Max(S) \in S /\ \A x \in S : Max(S) >= x
  BY <1>3 DEF Max
<1> QED BY <1>4, <1>5

-----------------------------------------------------------------------------
(* The loop. *)

\* kept[d] is what the loop over s has kept after d of its first n turns.
Loop(s, S, kept, n) ==
    /\ kept = [d \in 0..n |-> kept[d]]
    /\ kept[0] = <<>>
    /\ \A d \in 1..n : kept[d] = IF s[d] \in S THEN Append(kept[d - 1], s[d]) ELSE kept[d - 1]

\* The loop can be run to its end.
LEMMA LoopRuns ==
    ASSUME NEW s, NEW S, NEW n \in Nat
    PROVE  \E kept : Loop(s, S, kept, n)
<1> DEFINE X == {d \in 0..n : \E kept : Loop(s, S, kept, d)}
<1>1. 0 \in X
  <2>1. Loop(s, S, [d \in 0..0 |-> <<>>], 0)
    BY DEF Loop
  <2> QED BY <2>1
<1>2. ASSUME NEW d \in 1..n, d - 1 \in X PROVE d \in X
  <2>1. PICK kept : Loop(s, S, kept, d - 1)
    BY <1>2
  <2>2. d - 1 \in Nat /\ d \in Nat /\ d \in 1..d
    OBVIOUS
  <2> DEFINE last == IF s[d] \in S THEN Append(kept[d - 1], s[d]) ELSE kept[d - 1]
             more == [e \in 0..d |-> IF e = d THEN last ELSE kept[e]]
  <2>3. more = [e \in 0..d |-> more[e]]
    OBVIOUS
  <2>4. more[d] = last /\ \A e \in 0..(d - 1) : more[e] = kept[e]
    BY <2>2
  <2>5. more[0] = <<>>
    BY <2>1, <2>2, <2>4 DEF Loop
  <2>6. ASSUME NEW e \in 1..d
        PROVE  more[e] = IF s[e] \in S THEN Append(more[e - 1], s[e]) ELSE more[e - 1]
    <3>1. CASE e = d
      BY <2>2, <2>4, <3>1
    <3>2. CASE e # d
      <4>1. e \in 1..(d - 1) /\ e \in 0..(d - 1) /\ e - 1 \in 0..(d - 1)
        BY <2>2, <3>2
      <4> QED BY <2>1, <2>4, <4>1 DEF Loop
    <3> QED BY <3>1, <3>2
  <2> HIDE DEF more, last
  <2>7. Loop(s, S, more, d)
    BY <2>3, <2>5, <2>6 DEF Loop
  <2> QED BY <1>2, <2>7
<1> HIDE DEF X
<1>3. n \in X
  BY <1>1, <1>2, EveryTurn
<1> QED BY <1>3 DEF X

\* Keep is what the loop has kept in the end.
LEMMA KeepLoops ==
    ASSUME NEW s, NEW S, Len(s) \in Nat
    PROVE  \E kept : Loop(s, S, kept, Len(s)) /\ Keep(s, S) = kept[Len(s)]
<1>1. PICK run : Loop(s, S, run, Len(s))
  BY LoopRuns
<1>2. run = [n \in 0..Len(s) |->
                IF n = 0 THEN <<>>
                ELSE IF s[n] \in S THEN Append(run[n - 1], s[n]) ELSE run[n - 1]]
  <2>1. \A n \in 0..Len(s) :
            run[n] = IF n = 0 THEN <<>>
                     ELSE IF s[n] \in S THEN Append(run[n - 1], s[n]) ELSE run[n - 1]
    <3>1. \A n \in 0..Len(s) : n = 0 \/ n \in 1..Len(s)
      OBVIOUS
    <3> QED BY <1>1, <3>1 DEF Loop
  <2>2. run = [n \in 0..Len(s) |-> run[n]]
    BY <1>1 DEF Loop
  <2> QED BY <2>1, <2>2
<1> DEFINE kept == CHOOSE f : f = [n \in 0..Len(s) |->
                IF n = 0 THEN <<>>
                ELSE IF s[n] \in S THEN Append(f[n - 1], s[n]) ELSE f[n - 1]]
<1>3. kept = [n \in 0..Len(s) |->
                IF n = 0 THEN <<>>
                ELSE IF s[n] \in S THEN Append(kept[n - 1], s[n]) ELSE kept[n - 1]]
  BY <1>2
<1>4. Keep(s, S) = kept[Len(s)]
  BY DEF Keep
<1> HIDE DEF kept
<1>5. Loop(s, S, kept, Len(s))
  <2>1. kept[0] = <<>>
    BY <1>3
  <2>2. \A n \in 1..Len(s) :
            kept[n] = IF s[n] \in S THEN Append(kept[n - 1], s[n]) ELSE kept[n - 1]
    <3>1. \A n \in 1..Len(s) : n \in 0..Len(s) /\ n # 0
      OBVIOUS
    <3> QED BY <1>3, <3>1
  <2>3. kept = [n \in 0..Len(s) |-> kept[n]]
    BY <1>3
  <2> QED BY <2>1, <2>2, <2>3 DEF Loop
<1> QED BY <1>4, <1>5

\* t holds what of the first n elements of s is in S: pos says where it stands.
Picks(s, S, n, t, pos) ==
    /\ pos \in [1..Len(t) -> 1..n]
    /\ \A a \in 1..Len(t) : t[a] = s[pos[a]] /\ s[pos[a]] \in S
    /\ \A a, b \in 1..Len(t) : a < b => pos[a] < pos[b]
    /\ \A p \in 1..n : s[p] \in S => \E a \in 1..Len(t) : pos[a] = p

\* An element that is not in S changes nothing.
LEMMA PassesOver ==
    ASSUME NEW s, NEW S, NEW d \in Nat \ {0}, NEW t, NEW pos,
           Picks(s, S, d - 1, t, pos), s[d] \notin S
    PROVE  Picks(s, S, d, t, pos)
<1>1. \A p \in 1..d : p = d \/ p \in 1..(d - 1)
  OBVIOUS
<1>2. 1..(d - 1) \subseteq 1..d
  OBVIOUS
<1> QED BY <1>1, <1>2 DEF Picks

\* One that is in S is added.
LEMMA PicksOne ==
    ASSUME NEW T, NEW s, NEW S, NEW d \in Nat \ {0}, NEW t \in Seq(T), NEW pos,
           Picks(s, S, d - 1, t, pos), s[d] \in S, s[d] \in T
    PROVE  \E q : Picks(s, S, d, Append(t, s[d]), q)
<1> DEFINE u == Append(t, s[d])
           q == [a \in 1..Len(u) |-> IF a = Len(u) THEN d ELSE pos[a]]
<1>1. Len(u) = Len(t) + 1 /\ Len(t) \in Nat
  BY AppendProperties, LenProperties
<1>2. u[Len(u)] = s[d] /\ \A a \in 1..Len(t) : u[a] = t[a]
  BY <1>1, AppendProperties
<1> HIDE DEF u
<1>3. \A a \in 1..Len(u) : a = Len(u) \/ a \in 1..Len(t)
  BY <1>1
<1>4. q[Len(u)] = d /\ \A a \in 1..Len(t) : q[a] = pos[a]
  BY <1>1
<1>5. q \in [1..Len(u) -> 1..d]
  <2>1. \A a \in 1..Len(t) : pos[a] \in 1..(d - 1)
    BY DEF Picks
  <2>2. 1..(d - 1) \subseteq 1..d /\ d \in 1..d
    OBVIOUS
  <2> QED BY <1>3, <1>4, <2>1, <2>2
<1>6. \A a \in 1..Len(u) : u[a] = s[q[a]] /\ s[q[a]] \in S
  BY <1>2, <1>3, <1>4 DEF Picks
<1>7. ASSUME NEW a \in 1..Len(u), NEW b \in 1..Len(u), a < b PROVE q[a] < q[b]
  <2>1. a \in 1..Len(t)
    BY <1>1, <1>7
  <2>2. CASE b = Len(u)
    <3>1. pos[a] \in 1..(d - 1)
      BY <2>1 DEF Picks
    <3>2. pos[a] < d
      BY <3>1
    <3> QED BY <1>4, <2>1, <2>2, <3>2
  <2>3. CASE b # Len(u)
    <3>1. b \in 1..Len(t)
      BY <1>3, <2>3
    <3> QED BY <1>4, <1>7, <2>1, <3>1 DEF Picks
  <2> QED BY <2>2, <2>3
<1>8. ASSUME NEW p \in 1..d, s[p] \in S PROVE \E a \in 1..Len(u) : q[a] = p
  <2>1. CASE p = d
    BY <1>1, <1>4, <2>1
  <2>2. CASE p # d
    <3>1. p \in 1..(d - 1)
      BY <2>2
    <3>2. PICK a \in 1..Len(t) : pos[a] = p
      BY <1>8, <3>1 DEF Picks
    <3>3. a \in 1..Len(u)
      BY <1>1
    <3> QED BY <1>4, <3>2, <3>3
  <2> QED BY <2>1, <2>2
<1> HIDE DEF q
<1>9. Picks(s, S, d, u, q)
  BY <1>5, <1>6, <1>7, <1>8 DEF Picks
<1> QED BY <1>9 DEF u

\* What Keep keeps, and where it was.
LEMMA KeepPicks ==
    ASSUME NEW T, NEW s \in Seq(T), NEW S
    PROVE  /\ Keep(s, S) \in Seq(T)
           /\ \E pos : Picks(s, S, Len(s), Keep(s, S), pos)
<1>1. Len(s) \in Nat
  BY LenProperties
<1>2. PICK kept : Loop(s, S, kept, Len(s)) /\ Keep(s, S) = kept[Len(s)]
  BY <1>1, KeepLoops
<1> DEFINE X == {d \in 0..Len(s) : kept[d] \in Seq(T) /\ \E pos : Picks(s, S, d, kept[d], pos)}
<1>3. 0 \in X
  <2>1. kept[0] = <<>>
    BY <1>2 DEF Loop
  <2>2. <<>> \in Seq(T) /\ Len(<<>>) = 0
    BY EmptySeq
  <2>3. Picks(s, S, 0, <<>>, [a \in {} |-> 0])
    BY <2>2 DEF Picks
  <2>4. \E pos : Picks(s, S, 0, kept[0], pos)
    BY <2>1, <2>3
  <2>5. kept[0] \in Seq(T)
    BY <2>1, <2>2
  <2>6. 0 \in 0..Len(s)
    BY <1>1
  <2> QED BY <2>4, <2>5, <2>6
<1>4. ASSUME NEW d \in 1..Len(s), d - 1 \in X PROVE d \in X
  <2>1. d \in Nat \ {0} /\ s[d] \in T
    BY <1>1, ElementOfSeq
  <2>2. kept[d - 1] \in Seq(T)
    BY <1>4
  <2>3. PICK pos : Picks(s, S, d - 1, kept[d - 1], pos)
    BY <1>4
  <2>4. CASE s[d] \in S
    <3>1. kept[d] = Append(kept[d - 1], s[d])
      BY <1>2, <2>4 DEF Loop
    <3>2. kept[d] \in Seq(T)
      BY <2>1, <2>2, <3>1, AppendProperties
    <3>3. \E q : Picks(s, S, d, kept[d], q)
      BY <2>1, <2>2, <2>3, <2>4, <3>1, PicksOne
    <3> QED BY <1>1, <3>2, <3>3
  <2>5. CASE s[d] \notin S
    <3>1. kept[d] = kept[d - 1]
      BY <1>2, <2>5 DEF Loop
    <3>2. Picks(s, S, d, kept[d], pos)
      BY <2>1, <2>3, <2>5, <3>1, PassesOver
    <3> QED BY <1>1, <2>2, <3>1, <3>2
  <2> QED BY <2>4, <2>5
<1> HIDE DEF X
<1>5. Len(s) \in X
  <2>1. \A d \in 0..Len(s) : d \in X
    BY <1>1, <1>3, <1>4, EveryTurn
  <2> QED BY <1>1, <2>1
<1> QED BY <1>2, <1>5 DEF X

\* Keep is a sequence of those elements of s that are in S.
LEMMA KeepElements ==
    ASSUME NEW T, NEW s \in Seq(T), NEW S
    PROVE  /\ Keep(s, S) \in Seq(T)
           /\ ToSet(Keep(s, S)) = ToSet(s) \cap S
<1>1. PICK pos : Picks(s, S, Len(s), Keep(s, S), pos)
  BY KeepPicks
<1>2. Keep(s, S) \in Seq(T)
  BY KeepPicks
<1>3. DOMAIN s = 1..Len(s) /\ DOMAIN Keep(s, S) = 1..Len(Keep(s, S))
  BY <1>2, LenProperties
<1>4. ASSUME NEW x \in ToSet(Keep(s, S)) PROVE x \in ToSet(s) \cap S
  <2>1. PICK a \in 1..Len(Keep(s, S)) : x = Keep(s, S)[a]
    BY <1>3 DEF ToSet
  <2>2. x = s[pos[a]] /\ s[pos[a]] \in S /\ pos[a] \in 1..Len(s)
    BY <1>1, <2>1 DEF Picks
  <2> QED BY <1>3, <2>2 DEF ToSet
<1>5. ASSUME NEW x \in ToSet(s) \cap S PROVE x \in ToSet(Keep(s, S))
  <2>1. PICK p \in 1..Len(s) : x = s[p]
    BY <1>3 DEF ToSet
  <2>2. PICK a \in 1..Len(Keep(s, S)) : pos[a] = p
    BY <1>1, <1>5, <2>1 DEF Picks
  <2>3. Keep(s, S)[a] = x
    BY <1>1, <2>1, <2>2 DEF Picks
  <2> QED BY <1>3, <2>3 DEF ToSet
<1> QED BY <1>2, <1>4, <1>5

\* What Keep has twice stands twice in s.
LEMMA KeepTwice ==
    ASSUME NEW T, NEW s \in Seq(T), NEW S,
           NEW a \in DOMAIN Keep(s, S), NEW b \in DOMAIN Keep(s, S), a # b,
           Keep(s, S)[a] = Keep(s, S)[b]
    PROVE  \E p, q \in DOMAIN s : p # q /\ s[p] = Keep(s, S)[a] /\ s[q] = Keep(s, S)[a]
<1>1. PICK pos : Picks(s, S, Len(s), Keep(s, S), pos)
  BY KeepPicks
<1>2. Keep(s, S) \in Seq(T) /\ Len(s) \in Nat
  BY KeepPicks, LenProperties
<1>3. DOMAIN s = 1..Len(s) /\ DOMAIN Keep(s, S) = 1..Len(Keep(s, S))
  BY <1>2, LenProperties
<1>4. a \in Nat /\ b \in Nat
  BY <1>2, <1>3, LenProperties
<1>5. pos[a] \in DOMAIN s /\ pos[b] \in DOMAIN s
  BY <1>1, <1>3 DEF Picks
<1>6. pos[a] # pos[b]
  <2>1. a < b \/ b < a
    BY <1>4
  <2>2. pos[a] < pos[b] \/ pos[b] < pos[a]
    BY <1>1, <1>3, <2>1 DEF Picks
  <2>3. pos[a] \in Nat /\ pos[b] \in Nat
    BY <1>2, <1>3, <1>5
  <2> QED BY <2>2, <2>3
<1> QED BY <1>1, <1>3, <1>5, <1>6 DEF Picks

\* Keep depends only on which elements of s are in S.
LEMMA KeepAgrees ==
    ASSUME NEW T, NEW s \in Seq(T), NEW S, NEW R,
           \A p \in DOMAIN s : s[p] \in S <=> s[p] \in R
    PROVE  Keep(s, S) = Keep(s, R)
<1>0. Len(s) \in Nat
  BY LenProperties
<1>1. DOMAIN s = 1..Len(s)
  BY LenProperties
<1>2. PICK kept : Loop(s, S, kept, Len(s)) /\ Keep(s, S) = kept[Len(s)]
  BY <1>0, KeepLoops
<1>3. PICK also : Loop(s, R, also, Len(s)) /\ Keep(s, R) = also[Len(s)]
  BY <1>0, KeepLoops
<1> DEFINE X == {d \in 0..Len(s) : kept[d] = also[d]}
<1>4. 0 \in X
  BY <1>0, <1>2, <1>3 DEF Loop
<1>5. ASSUME NEW d \in 1..Len(s), d - 1 \in X PROVE d \in X
  <2>1. kept[d - 1] = also[d - 1] /\ d \in 0..Len(s)
    BY <1>5
  <2>2. s[d] \in S <=> s[d] \in R
    BY <1>1
  <2>3. kept[d] = IF s[d] \in S THEN Append(kept[d - 1], s[d]) ELSE kept[d - 1]
    BY <1>2 DEF Loop
  <2>4. also[d] = IF s[d] \in R THEN Append(also[d - 1], s[d]) ELSE also[d - 1]
    BY <1>3 DEF Loop
  <2> QED BY <2>1, <2>2, <2>3, <2>4
<1> HIDE DEF X
<1>6. Len(s) \in X
  BY <1>0, <1>4, <1>5, EveryTurn
<1> QED BY <1>2, <1>3, <1>6 DEF X

\* Keeping all the elements keeps the list.
LEMMA KeepAll ==
    ASSUME NEW T, NEW s \in Seq(T)
    PROVE  Keep(s, ToSet(s)) = s
<1>0. Len(s) \in Nat
  BY LenProperties
<1>1. DOMAIN s = 1..Len(s)
  BY LenProperties
<1>2. PICK kept : Loop(s, ToSet(s), kept, Len(s)) /\ Keep(s, ToSet(s)) = kept[Len(s)]
  BY <1>0, KeepLoops
<1> DEFINE X == {d \in 0..Len(s) : kept[d] = SubSeq(s, 1, d)}
<1>3. 0 \in X
  <2>1. SubSeq(s, 1, 0) = <<>>
    BY SubSeqEmpty
  <2> QED BY <1>0, <1>2, <2>1 DEF Loop
<1>4. ASSUME NEW d \in 1..Len(s), d - 1 \in X PROVE d \in X
  <2>1. kept[d] = Append(SubSeq(s, 1, d - 1), s[d])
    BY <1>1, <1>2, <1>4 DEF Loop, ToSet
  <2>2. SubSeq(s, 1, d) = Append(SubSeq(s, 1, d - 1), s[d])
    <3>1. 1 \in 1..Len(s) /\ d \in 1..Len(s) /\ d - 1 \in Int /\ 1 \in Int
      BY <1>0
    <3>2. \A i \in 1..(d - 1) : s[i] \in T
      BY <1>0, ElementOfSeq
    <3>3. SubSeq(s, 1, d - 1) \in Seq(T) /\ s[d] \in T
      BY <1>0, <3>1, <3>2, SubSeqProperties, ElementOfSeq
    <3>4. SubSeq(s, 1, d) = SubSeq(s, 1, d - 1) \o <<s[d]>>
      BY <3>1, SubSeqRecursiveSecond
    <3> QED BY <3>3, <3>4, AppendIsConcat
  <2>3. d \in 0..Len(s)
    OBVIOUS
  <2> QED BY <2>1, <2>2, <2>3
<1> HIDE DEF X
<1>5. Len(s) \in X
  <2>1. \A d \in 0..Len(s) : d \in X
    BY <1>0, <1>3, <1>4, EveryTurn
  <2> QED BY <1>0, <2>1
<1> QED BY <1>2, <1>5, SubSeqFull DEF X

\* A filter leaves a list as it is apart from what it takes out.
LEMMA KeepOnlyRemoves ==
    ASSUME NEW T, NEW s \in Seq(T), NEW S
    PROVE  Keep(s, S) = Keep(s, ToSet(Keep(s, S)))
<1>1. ToSet(Keep(s, S)) = ToSet(s) \cap S
  BY KeepElements
<1>2. \A p \in DOMAIN s : s[p] \in S <=> s[p] \in ToSet(Keep(s, S))
  BY <1>1 DEF ToSet
<1> QED BY <1>2, KeepAgrees

\* The more there is in the set, the more is kept.
LEMMA KeepLength ==
    ASSUME NEW T, NEW s \in Seq(T), NEW S, NEW R, S \subseteq R
    PROVE  Len(Keep(s, S)) <= Len(Keep(s, R))
<1>0. Len(s) \in Nat
  BY LenProperties
<1>1. PICK kept : Loop(s, S, kept, Len(s)) /\ Keep(s, S) = kept[Len(s)]
  BY <1>0, KeepLoops
<1>2. PICK also : Loop(s, R, also, Len(s)) /\ Keep(s, R) = also[Len(s)]
  BY <1>0, KeepLoops
<1> DEFINE X == {d \in 0..Len(s) : /\ kept[d] \in Seq(T) /\ also[d] \in Seq(T)
                                   /\ Len(kept[d]) <= Len(also[d])}
<1>3. 0 \in X
  <2>1. kept[0] = <<>> /\ also[0] = <<>>
    BY <1>1, <1>2 DEF Loop
  <2>2. <<>> \in Seq(T) /\ Len(<<>>) = 0
    BY EmptySeq
  <2>3. 0 \in 0..Len(s)
    BY <1>0
  <2>4. kept[0] \in Seq(T) /\ also[0] \in Seq(T)
    BY <2>1, <2>2
  <2>5. Len(kept[0]) <= Len(also[0])
    BY <2>1, <2>2
  <2> QED BY <2>3, <2>4, <2>5
<1>4. ASSUME NEW d \in 1..Len(s), d - 1 \in X PROVE d \in X
  <2>1. kept[d] = IF s[d] \in S THEN Append(kept[d - 1], s[d]) ELSE kept[d - 1]
    BY <1>1 DEF Loop
  <2>2. also[d] = IF s[d] \in R THEN Append(also[d - 1], s[d]) ELSE also[d - 1]
    BY <1>2 DEF Loop
  <2>3. /\ kept[d - 1] \in Seq(T) /\ also[d - 1] \in Seq(T)
        /\ Len(kept[d - 1]) <= Len(also[d - 1])
    BY <1>4
  <2>4. s[d] \in T /\ d \in 0..Len(s)
    BY <1>0, ElementOfSeq
  <2>5. Len(kept[d - 1]) \in Nat /\ Len(also[d - 1]) \in Nat
    BY <2>3, LenProperties
  <2>6. /\ kept[d] \in Seq(T)
        /\ Len(kept[d]) = IF s[d] \in S THEN Len(kept[d - 1]) + 1 ELSE Len(kept[d - 1])
    BY <2>1, <2>3, <2>4, AppendProperties
  <2>7. /\ also[d] \in Seq(T)
        /\ Len(also[d]) = IF s[d] \in R THEN Len(also[d - 1]) + 1 ELSE Len(also[d - 1])
    BY <2>2, <2>3, <2>4, AppendProperties
  <2>8. Len(kept[d]) <= Len(also[d])
    BY <2>3, <2>5, <2>6, <2>7
  <2> QED BY <2>4, <2>6, <2>7, <2>8
<1> HIDE DEF X
<1>5. Len(s) \in X
  <2>1. \A d \in 0..Len(s) : d \in X
    BY <1>0, <1>3, <1>4, EveryTurn
  <2> QED BY <1>0, <2>1
<1> QED BY <1>1, <1>2, <1>5 DEF X

\* A filter leaves what is in a list once there once.
LEMMA KeepInjective ==
    ASSUME NEW T, NEW s \in Seq(T), NEW S, IsInjective(s)
    PROVE  IsInjective(Keep(s, S))
<1>1. ASSUME NEW a \in DOMAIN Keep(s, S), NEW b \in DOMAIN Keep(s, S),
             Keep(s, S)[a] = Keep(s, S)[b], a # b
      PROVE  FALSE
  <2>1. PICK p, q \in DOMAIN s : p # q /\ s[p] = Keep(s, S)[a] /\ s[q] = Keep(s, S)[a]
    BY <1>1, KeepTwice
  <2> QED BY <2>1 DEF IsInjective
<1> QED BY <1>1 DEF IsInjective

-----------------------------------------------------------------------------
(* The library's operators. *)

\* What a list contains.
LEMMA ContainsElements ==
    ASSUME NEW T, NEW s \in Seq(T), NEW e
    PROVE  Contains(s, e) <=> e \in ToSet(s)
<1>1. DOMAIN s = 1..Len(s)
  BY LenProperties
<1> QED BY <1>1 DEF Contains, ToSet

\* A finite set can be listed, each of its elements once.
LEMMA SetToSeqLists ==
    ASSUME NEW S, IsFiniteSet(S)
    PROVE  /\ SetToSeq(S) \in Seq(S)
           /\ ToSet(SetToSeq(S)) = S
           /\ \A a, b \in DOMAIN SetToSeq(S) : SetToSeq(S)[a] = SetToSeq(S)[b] => a = b
<1> DEFINE n == Cardinality(S)
           f == SetToSeq(S)
<1>1. n \in Nat /\ ExistsBijection(1..n, S)
  BY FS_CardinalityType
<1>2. f \in [1..n -> S] /\ IsInjective(f)
  <2>1. \E g \in [1..n -> S] : IsInjective(g)
    BY <1>1 DEF ExistsBijection, Bijection, Injection
  <2> QED BY <2>1 DEF SetToSeq
<1> HIDE DEF f
<1>3. f \in Injection(1..n, S)
  BY <1>2 DEF Injection
<1>4. Cardinality(1..n) = n
  BY <1>1, FS_Interval
<1>5. f \in Surjection(1..n, S)
  BY <1>3, <1>4, FS_Injection
<1>6. f \in Seq(S)
  BY <1>1, <1>2, SeqDef
<1>7. ToSet(f) = S
  BY <1>2, <1>5 DEF ToSet, Surjection
<1>8. \A a, b \in DOMAIN f : f[a] = f[b] => a = b
  BY <1>2 DEF IsInjective
<1> QED BY <1>6, <1>7, <1>8 DEF f

-----------------------------------------------------------------------------
(* Lists that are joined. *)

\* What two lists hold that are joined, and that it is there once if they have
\* nothing in common.
LEMMA JoinHolds ==
    ASSUME NEW T, NEW s \in Seq(T), NEW t \in Seq(T)
    PROVE  /\ s \o t \in Seq(T)
           /\ ToSet(s \o t) = ToSet(s) \cup ToSet(t)
           /\ IsInjective(s) /\ IsInjective(t) /\ ToSet(s) \cap ToSet(t) = {} => IsInjective(s \o t)
<1>1. /\ Len(s) \in Nat /\ DOMAIN s = 1..Len(s) /\ Len(t) \in Nat /\ DOMAIN t = 1..Len(t)
  BY LenProperties
<1>2. /\ s \o t \in Seq(T) /\ Len(s \o t) = Len(s) + Len(t)
      /\ \A p \in 1..Len(s) + Len(t) : (s \o t)[p] = IF p <= Len(s) THEN s[p] ELSE t[p - Len(s)]
  BY ConcatProperties
<1>3. DOMAIN (s \o t) = 1..Len(s) + Len(t)
  BY <1>2, LenProperties
<1> DEFINE all == s \o t
           Early(p) == p \in DOMAIN s /\ all[p] = s[p]
           Late(p) == p - Len(s) \in DOMAIN t /\ all[p] = t[p - Len(s)]
<1>4. \A p \in DOMAIN all : p \in Int /\ (Early(p) \/ Late(p))
  BY <1>1, <1>2, <1>3
<1>5. \A p \in DOMAIN s : p \in DOMAIN all /\ all[p] = s[p]
  BY <1>1, <1>2, <1>3
<1>6. ASSUME NEW p \in DOMAIN t PROVE p + Len(s) \in DOMAIN all /\ all[p + Len(s)] = t[p]
  <2>1. p + Len(s) \in 1..Len(s) + Len(t) /\ ~(p + Len(s) <= Len(s)) /\ (p + Len(s)) - Len(s) = p
    BY <1>1
  <2> QED BY <1>2, <1>3, <2>1
<1> HIDE DEF all
<1>7. ASSUME NEW v \in ToSet(all) PROVE v \in ToSet(s) \cup ToSet(t)
  BY <1>4, <1>7 DEF ToSet
<1>8. ASSUME NEW v \in ToSet(s) \cup ToSet(t) PROVE v \in ToSet(all)
  BY <1>5, <1>6, <1>8 DEF ToSet
<1>9. ASSUME IsInjective(s), IsInjective(t), ToSet(s) \cap ToSet(t) = {},
             NEW a \in DOMAIN all, NEW b \in DOMAIN all, all[a] = all[b]
      PROVE  a = b
  <2>1. a \in Int /\ b \in Int /\ (Early(a) \/ Late(a)) /\ (Early(b) \/ Late(b))
    BY <1>4
  <2>2. CASE Early(a) /\ Early(b)
    BY <1>9, <2>2 DEF IsInjective
  <2>3. CASE Late(a) /\ Late(b)
    <3>1. a - Len(s) = b - Len(s)
      BY <1>9, <2>3 DEF IsInjective
    <3> QED BY <1>1, <2>1, <3>1
  <2>4. CASE (Early(a) /\ Late(b)) \/ (Late(a) /\ Early(b))
    BY <1>9, <2>4 DEF ToSet
  <2> QED BY <2>1, <2>2, <2>3, <2>4
<1>10. all \in Seq(T)
  BY <1>2 DEF all
<1> QED BY <1>7, <1>8, <1>9, <1>10 DEF all, IsInjective

\* A list of one thing.
LEMMA Singleton ==
    ASSUME NEW T, NEW x \in T
    PROVE  <<x>> \in Seq(T) /\ ToSet(<<x>>) = {x} /\ IsInjective(<<x>>)
<1>1. <<x>> \in Seq(T) /\ DOMAIN <<x>> = {1} /\ <<x>>[1] = x
  OBVIOUS
<1> QED BY <1>1 DEF ToSet, IsInjective

\* An empty list.
LEMMA EmptyList ==
    ASSUME NEW T
    PROVE  <<>> \in Seq(T) /\ ToSet(<<>>) = {} /\ IsInjective(<<>>)
<1>1. <<>> \in Seq(T) /\ DOMAIN <<>> = {}
  OBVIOUS
<1> QED BY <1>1 DEF ToSet, IsInjective

\* What there is in a list to which something is added.
LEMMA AppendHolds ==
    ASSUME NEW T, NEW s \in Seq(T), NEW x \in T
    PROVE  Append(s, x) \in Seq(T) /\ ToSet(Append(s, x)) = ToSet(s) \cup {x}
<1> DEFINE one == <<x>>
<1>1. Append(s, x) = s \o one
  BY AppendIsConcat
<1>2. one \in Seq(T) /\ ToSet(one) = {x}
  BY Singleton
<1> HIDE DEF one
<1>3. s \o one \in Seq(T) /\ ToSet(s \o one) = ToSet(s) \cup ToSet(one)
  BY <1>2, JoinHolds
<1> QED BY <1>1, <1>2, <1>3

\* run[d] is what there is when the first d of the n lists are joined.
Joins(ss, run, n) ==
    /\ run = [d \in 1..n |-> run[d]]
    /\ \A d \in 1..n : run[d] = IF d = 1 THEN ss[d] ELSE run[d - 1] \o ss[d]

\* The lists can be joined one by one.
LEMMA JoinsRun ==
    ASSUME NEW ss, NEW n \in Nat
    PROVE  \E run : Joins(ss, run, n)
<1> DEFINE X == {d \in 0..n : \E run : Joins(ss, run, d)}
<1>1. 0 \in X
  <2>1. Joins(ss, [d \in 1..0 |-> <<>>], 0)
    BY DEF Joins
  <2> QED BY <2>1
<1>2. ASSUME NEW d \in 1..n, d - 1 \in X PROVE d \in X
  <2>1. PICK run : Joins(ss, run, d - 1)
    BY <1>2
  <2> DEFINE last == IF d = 1 THEN ss[d] ELSE run[d - 1] \o ss[d]
             more == [e \in 1..d |-> IF e = d THEN last ELSE run[e]]
  <2>2. more = [e \in 1..d |-> more[e]]
    OBVIOUS
  <2>3. more[d] = last /\ \A e \in 1..(d - 1) : more[e] = run[e]
    <3>1. d \in 1..d /\ \A e \in 1..(d - 1) : e \in 1..d /\ e # d
      OBVIOUS
    <3> HIDE DEF last
    <3> QED BY <3>1
  <2>4. ASSUME NEW e \in 1..d
        PROVE  more[e] = IF e = 1 THEN ss[e] ELSE more[e - 1] \o ss[e]
    <3>1. CASE e = d
      <4>1. d # 1 => d - 1 \in 1..(d - 1)
        OBVIOUS
      <4> QED BY <2>3, <3>1, <4>1
    <3>2. CASE e # d
      <4>1. e \in 1..(d - 1) /\ (e # 1 => e - 1 \in 1..(d - 1))
        BY <3>2
      <4>2. run[e] = IF e = 1 THEN ss[e] ELSE run[e - 1] \o ss[e]
        BY <2>1, <4>1 DEF Joins
      <4> QED BY <2>3, <4>1, <4>2
    <3> QED BY <3>1, <3>2
  <2> HIDE DEF more, last
  <2>5. Joins(ss, more, d)
    BY <2>2, <2>4 DEF Joins
  <2> QED BY <1>2, <2>5
<1> HIDE DEF X
<1>3. n \in X
  BY <1>1, <1>2, EveryTurn
<1> QED BY <1>3 DEF X

\* FlattenSeq is what there is when they are all joined.
LEMMA FlattenJoins ==
    ASSUME NEW ss, Len(ss) \in Nat \ {0}
    PROVE  \E run : Joins(ss, run, Len(ss)) /\ FlattenSeq(ss) = run[Len(ss)]
<1>1. PICK run : Joins(ss, run, Len(ss))
  BY JoinsRun
<1>2. run = [i \in 1..Len(ss) |-> IF i = 1 THEN ss[i] ELSE run[i - 1] \o ss[i]]
  BY <1>1 DEF Joins
<1> DEFINE flat == CHOOSE f :
               f = [i \in 1..Len(ss) |-> IF i = 1 THEN ss[i] ELSE f[i - 1] \o ss[i]]
<1>3. flat = [i \in 1..Len(ss) |-> IF i = 1 THEN ss[i] ELSE flat[i - 1] \o ss[i]]
  BY <1>2
<1>4. FlattenSeq(ss) = flat[Len(ss)]
  BY DEF FlattenSeq
<1> HIDE DEF flat
<1>5. Joins(ss, flat, Len(ss))
  BY <1>3 DEF Joins
<1> QED BY <1>4, <1>5

\* FlattenSeq holds what the lists hold, and it is there once if it is once in
\* one of them.
LEMMA FlattenHolds ==
    ASSUME NEW T, NEW ss \in Seq(Seq(T))
    PROVE  /\ FlattenSeq(ss) \in Seq(T)
           /\ ToSet(FlattenSeq(ss)) = UNION {ToSet(ss[k]) : k \in DOMAIN ss}
           /\ /\ \A k \in DOMAIN ss : IsInjective(ss[k])
              /\ \A j, k \in DOMAIN ss : j # k => ToSet(ss[j]) \cap ToSet(ss[k]) = {}
              => IsInjective(FlattenSeq(ss))
<1>1. Len(ss) \in Nat /\ DOMAIN ss = 1..Len(ss)
  BY LenProperties
<1>2. CASE Len(ss) = 0
  <2>1. ss = <<>> /\ FlattenSeq(ss) = ss
    BY <1>2, EmptySeq DEF FlattenSeq
  <2>2. DOMAIN ss = {} /\ ToSet(<<>>) = {} /\ IsInjective(<<>>) /\ <<>> \in Seq(T)
    BY <1>1, <1>2 DEF ToSet, IsInjective
  <2> QED BY <2>1, <2>2
<1>3. CASE Len(ss) # 0
  <2>1. PICK run : Joins(ss, run, Len(ss)) /\ FlattenSeq(ss) = run[Len(ss)]
    BY <1>1, <1>3, FlattenJoins
  <2> DEFINE Alone == /\ \A k \in DOMAIN ss : IsInjective(ss[k])
                      /\ \A j, k \in DOMAIN ss : j # k => ToSet(ss[j]) \cap ToSet(ss[k]) = {}
             Held(d) == UNION {ToSet(ss[k]) : k \in 1..d}
             Good(d) == /\ run[d] \in Seq(T) /\ ToSet(run[d]) = Held(d)
                        /\ Alone => IsInjective(run[d])
             X == {d \in 0..Len(ss) : d = 0 \/ Good(d)}
  <2>2. 0 \in X
    BY <1>1
  <2>3. ASSUME NEW d \in 1..Len(ss), d - 1 \in X PROVE d \in X
    <3>1. run[d] = IF d = 1 THEN ss[d] ELSE run[d - 1] \o ss[d]
      BY <2>1 DEF Joins
    <3>2. ss[d] \in Seq(T) /\ d \in DOMAIN ss
      BY <1>1, ElementOfSeq
    <3>3. CASE d = 1
      <4>1. run[d] = ss[d]
        BY <3>1, <3>3
      <4>2. Held(d) = ToSet(ss[d])
        <5>1. 1..d = {d}
          BY <3>3
        <5> QED BY <5>1
      <4>3. Alone => IsInjective(ss[d])
        BY <3>2
      <4>4. Good(d)
        BY <3>2, <4>1, <4>2, <4>3
      <4> QED BY <1>1, <4>4
    <3>4. CASE d # 1
      <4>1. run[d] = run[d - 1] \o ss[d]
        BY <3>1, <3>4
      <4>2. Good(d - 1)
        <5>1. d - 1 # 0
          BY <3>4
        <5> HIDE DEF Good
        <5> QED BY <2>3, <5>1
      <4>3. Held(d) = Held(d - 1) \cup ToSet(ss[d])
        <5>1. 1..d = 1..(d - 1) \cup {d}
          OBVIOUS
        <5> QED BY <5>1
      <4>4. Alone => Held(d - 1) \cap ToSet(ss[d]) = {}
        <5>1. \A k \in 1..(d - 1) : k \in DOMAIN ss /\ k # d
          BY <1>1
        <5> QED BY <3>2, <5>1
      <4>5. Alone => IsInjective(ss[d])
        BY <3>2
      <4> HIDE DEF Alone, Held
      <4>6. /\ run[d] \in Seq(T) /\ ToSet(run[d]) = Held(d - 1) \cup ToSet(ss[d])
            /\ Alone => IsInjective(run[d])
        BY <3>2, <4>1, <4>2, <4>4, <4>5, JoinHolds
      <4>7. Good(d)
        BY <4>3, <4>6
      <4> QED BY <1>1, <4>7
    <3> QED BY <3>3, <3>4
  <2> HIDE DEF X
  <2>4. Len(ss) \in X
    <3>1. \A d \in 0..Len(ss) : d \in X
      BY <1>1, <2>2, <2>3, EveryTurn
    <3> QED BY <1>1, <3>1
  <2>5. Good(Len(ss))
    BY <1>3, <2>4 DEF X
  <2> HIDE DEF Good
  <2>6. Held(Len(ss)) = UNION {ToSet(ss[k]) : k \in DOMAIN ss}
    BY <1>1
  <2> QED BY <2>1, <2>5, <2>6 DEF Good
<1> QED BY <1>2, <1>3

\* s is the first n of the lists joined: every element of them has its place in
\* s, and the places are in order.
Placed(ss, s, n, row, col) ==
    /\ \A p \in DOMAIN s : row[p] \in 1..n /\ col[p] \in DOMAIN ss[row[p]] /\ s[p] = ss[row[p]][col[p]]
    /\ \A p, q \in DOMAIN s : p < q => row[p] < row[q] \/ (row[p] = row[q] /\ col[p] < col[q])
    /\ \A i \in 1..n : \A j \in DOMAIN ss[i] : \E p \in DOMAIN s : row[p] = i /\ col[p] = j

\* One more list.
LEMMA PlacedNext ==
    ASSUME NEW T, NEW ss, NEW s \in Seq(T), NEW d \in Nat \ {0}, ss[d] \in Seq(T),
           NEW row, NEW col, Placed(ss, s, d - 1, row, col)
    PROVE  \E r, c : Placed(ss, s \o ss[d], d, r, c)
<1> DEFINE t == ss[d]
           all == s \o t
           r == [p \in DOMAIN all |-> IF p <= Len(s) THEN row[p] ELSE d]
           c == [p \in DOMAIN all |-> IF p <= Len(s) THEN col[p] ELSE p - Len(s)]
<1>1. /\ Len(s) \in Nat /\ DOMAIN s = 1..Len(s) /\ Len(t) \in Nat /\ DOMAIN t = 1..Len(t)
  BY LenProperties
<1>2. /\ all \in Seq(T) /\ Len(all) = Len(s) + Len(t)
      /\ \A p \in 1..Len(s) + Len(t) : all[p] = IF p <= Len(s) THEN s[p] ELSE t[p - Len(s)]
  BY ConcatProperties
<1>3. DOMAIN all = 1..Len(s) + Len(t)
  BY <1>2, LenProperties
<1> DEFINE Early(p) == /\ p \in DOMAIN s /\ all[p] = s[p] /\ r[p] = row[p] /\ c[p] = col[p]
                       /\ p <= Len(s)
           Late(p) == /\ p - Len(s) \in DOMAIN t /\ all[p] = t[p - Len(s)] /\ r[p] = d
                      /\ c[p] = p - Len(s) /\ ~(p <= Len(s))
<1>4. ASSUME NEW p \in DOMAIN all PROVE p \in Int /\ (Early(p) \/ Late(p))
  <2>1. p \in Int /\ p \in 1..Len(s) + Len(t)
    BY <1>1, <1>3
  <2>2. CASE p <= Len(s)
    <3>1. p \in DOMAIN s
      BY <1>1, <2>1, <2>2
    <3> QED BY <1>2, <2>1, <2>2, <3>1
  <2>3. CASE ~(p <= Len(s))
    <3>1. p - Len(s) \in DOMAIN t
      BY <1>1, <2>1, <2>3
    <3> QED BY <1>2, <2>1, <2>3, <3>1
  <2> QED BY <2>1, <2>2, <2>3
<1>5. ASSUME NEW p \in DOMAIN s PROVE p \in DOMAIN all /\ Early(p)
  <2>1. p \in 1..Len(s) + Len(t) /\ p <= Len(s)
    BY <1>1
  <2> QED BY <1>2, <1>3, <2>1
<1>6. ASSUME NEW p \in DOMAIN t PROVE p + Len(s) \in DOMAIN all /\ r[p + Len(s)] = d /\ c[p + Len(s)] = p
  <2>1. p + Len(s) \in DOMAIN all /\ ~(p + Len(s) <= Len(s)) /\ (p + Len(s)) - Len(s) = p
    BY <1>1, <1>3
  <2> QED BY <2>1
<1> HIDE DEF all, r, c
<1>7. ASSUME NEW p \in DOMAIN all
      PROVE  r[p] \in 1..d /\ c[p] \in DOMAIN ss[r[p]] /\ all[p] = ss[r[p]][c[p]]
  <2>1. CASE Early(p)
    <3>1. row[p] \in 1..(d - 1) /\ col[p] \in DOMAIN ss[row[p]] /\ s[p] = ss[row[p]][col[p]]
      BY <2>1 DEF Placed
    <3>2. row[p] \in 1..d
      BY <3>1
    <3> QED BY <2>1, <3>1, <3>2
  <2>2. CASE Late(p)
    <3>1. d \in 1..d
      OBVIOUS
    <3> QED BY <2>2, <3>1
  <2> QED BY <1>4, <2>1, <2>2
<1>8. ASSUME NEW p \in DOMAIN all, NEW q \in DOMAIN all, p < q
      PROVE  r[p] < r[q] \/ (r[p] = r[q] /\ c[p] < c[q])
  <2>1. p \in Int /\ q \in Int /\ (Early(p) \/ Late(p)) /\ (Early(q) \/ Late(q))
    BY <1>4
  <2>2. CASE Early(p) /\ Early(q)
    <3>1. row[p] < row[q] \/ (row[p] = row[q] /\ col[p] < col[q])
      BY <1>8, <2>2 DEF Placed
    <3> QED BY <2>2, <3>1
  <2>3. CASE Early(p) /\ Late(q)
    <3>1. row[p] \in 1..(d - 1)
      BY <2>3 DEF Placed
    <3>2. row[p] < d
      BY <3>1
    <3> QED BY <2>3, <3>2
  <2>4. CASE Late(p) /\ Early(q)
    BY <1>1, <1>8, <2>1, <2>4
  <2>5. CASE Late(p) /\ Late(q)
    <3>1. p - Len(s) < q - Len(s)
      BY <1>1, <1>8, <2>1
    <3> QED BY <2>5, <3>1
  <2> QED BY <2>1, <2>2, <2>3, <2>4, <2>5
<1>9. ASSUME NEW i \in 1..d, NEW j \in DOMAIN ss[i] PROVE \E p \in DOMAIN all : r[p] = i /\ c[p] = j
  <2>1. CASE i = d
    BY <1>6, <2>1
  <2>2. CASE i # d
    <3>1. i \in 1..(d - 1)
      BY <2>2
    <3>2. PICK p \in DOMAIN s : row[p] = i /\ col[p] = j
      BY <3>1 DEF Placed
    <3> QED BY <1>5, <3>2
  <2> QED BY <2>1, <2>2
<1>10. Placed(ss, all, d, r, c)
  BY <1>7, <1>8, <1>9 DEF Placed
<1> QED BY <1>10 DEF all

\* FlattenSeq keeps the order.
LEMMA FlattenOrder ==
    ASSUME NEW T, NEW ss \in Seq(Seq(T))
    PROVE  \E row, col : Placed(ss, FlattenSeq(ss), Len(ss), row, col)
<1>1. Len(ss) \in Nat /\ DOMAIN ss = 1..Len(ss)
  BY LenProperties
<1>2. CASE Len(ss) = 0
  <2>1. ss = <<>> /\ FlattenSeq(ss) = ss
    BY <1>2, EmptySeq DEF FlattenSeq
  <2>2. DOMAIN FlattenSeq(ss) = {} /\ 1..Len(ss) = {}
    BY <1>1, <1>2, <2>1
  <2>3. Placed(ss, FlattenSeq(ss), Len(ss), <<>>, <<>>)
    BY <2>2 DEF Placed
  <2> QED BY <2>3
<1>3. CASE Len(ss) # 0
  <2>1. PICK run : Joins(ss, run, Len(ss)) /\ FlattenSeq(ss) = run[Len(ss)]
    BY <1>1, <1>3, FlattenJoins
  <2> DEFINE Good(d) == run[d] \in Seq(T) /\ \E row, col : Placed(ss, run[d], d, row, col)
             X == {d \in 0..Len(ss) : d = 0 \/ Good(d)}
  <2>2. 0 \in X
    BY <1>1
  <2>3. ASSUME NEW d \in 1..Len(ss), d - 1 \in X PROVE d \in X
    <3>1. run[d] = IF d = 1 THEN ss[d] ELSE run[d - 1] \o ss[d]
      BY <2>1 DEF Joins
    <3>2. ss[d] \in Seq(T) /\ d \in Nat \ {0}
      BY <1>1, ElementOfSeq
    <3>3. PICK s \in Seq(T) : run[d] = s \o ss[d] /\ \E row, col : Placed(ss, s, d - 1, row, col)
      <4>1. CASE d = 1
        <5>1. PICK empty \in Seq(T) : empty = <<>> /\ DOMAIN empty = {}
          <6>1. <<>> \in Seq(T) /\ DOMAIN <<>> = {}
            OBVIOUS
          <6> QED BY <6>1
        <5>2. empty \o ss[d] = ss[d]
          BY <3>2, <5>1, ConcatEmptySeq
        <5>3. 1..(d - 1) = {}
          BY <4>1
        <5>4. Placed(ss, empty, d - 1, <<>>, <<>>)
          BY <5>1, <5>3 DEF Placed
        <5> QED BY <3>1, <4>1, <5>2, <5>4
      <4>2. CASE d # 1
        <5>1. Good(d - 1)
          <6>1. d - 1 # 0
            BY <4>2
          <6> HIDE DEF Good
          <6> QED BY <2>3, <6>1
        <5> QED BY <3>1, <4>2, <5>1
      <4> QED BY <4>1, <4>2
    <3>4. PICK row, col : Placed(ss, s, d - 1, row, col)
      BY <3>3
    <3>5. \E r, c : Placed(ss, s \o ss[d], d, r, c)
      BY <3>2, <3>4, PlacedNext
    <3>6. run[d] \in Seq(T)
      BY <3>2, <3>3, JoinHolds
    <3>7. Good(d)
      BY <3>3, <3>5, <3>6
    <3> HIDE DEF Good
    <3> QED BY <1>1, <3>7
  <2> HIDE DEF X
  <2>4. Len(ss) \in X
    <3>1. \A d \in 0..Len(ss) : d \in X
      BY <1>1, <2>2, <2>3, EveryTurn
    <3> QED BY <1>1, <3>1
  <2>5. Good(Len(ss))
    BY <1>3, <2>4 DEF X
  <2> QED BY <2>1, <2>5
<1> QED BY <1>2, <1>3
===============================================================================
