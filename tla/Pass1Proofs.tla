------------------------------ MODULE Pass1Proofs ------------------------------
(****************************************************************************)
(* Proofs about Pass 1, for all names, values and functions.                *)
(****************************************************************************)
EXTENDS Pass1Meaning, FilterProofs

-----------------------------------------------------------------------------
(* The function that is visited. *)

\* What is assumed of its lines.
LEMMA TheText ==
    ASSUME function \in Functions
    PROVE  /\ Len(Original) \in Nat \ {0} /\ Lines = 1..Len(Original) /\ 1 \in Lines
           /\ Original \in Seq(SourceLine)
           /\ \A i \in Lines : Original[i] \in SourceLine
           /\ Original[1].op = "decl" /\ Original[1].flags = {"param"} /\ Original[1].blk = <<>>
           /\ \A i \in Lines : "param" \in Original[i].flags => i = 1
           /\ \A i \in Lines : Original[i].op \in {"set", "use"} => Len(Original[i].vars) = 1
           /\ \A i \in Lines : "readonly" \in Original[i].flags => "const" \in Original[i].flags
           /\ \A i \in Lines : "type" \in Original[i].flags => Original[i].vars # <<>>
<1>1. Original \in Seq(SourceLine) /\ Original # <<>>
  BY Pass1Assumption DEF Original
<1>2. Len(Original) \in Nat \ {0} /\ DOMAIN Original = 1..Len(Original)
  BY <1>1, LenProperties, EmptySeq
<1>3. Lines = DOMAIN Original
  BY DEF Lines, Original
<1>4. \A i \in Lines : Original[i] \in SourceLine
  BY <1>1, <1>2, <1>3, ElementOfSeq
<1>5. /\ Original[1].op = "decl" /\ Original[1].flags = {"param"} /\ Original[1].blk = <<>>
      /\ \A i \in Lines : "param" \in Original[i].flags => i = 1
      /\ \A i \in Lines : Original[i].op \in {"set", "use"} => Len(Original[i].vars) = 1
      /\ \A i \in Lines : "readonly" \in Original[i].flags => "const" \in Original[i].flags
      /\ \A i \in Lines : "type" \in Original[i].flags => Original[i].vars # <<>>
  <2>1. /\ function.text[1].op = "decl" /\ function.text[1].flags = {"param"}
        /\ function.text[1].blk = <<>>
    BY Pass1Assumption
  <2>2. \A i \in DOMAIN function.text :
           /\ "param" \in function.text[i].flags => i = 1
           /\ function.text[i].op \in {"set", "use"} => Len(function.text[i].vars) = 1
           /\ "readonly" \in function.text[i].flags => "const" \in function.text[i].flags
           /\ "type" \in function.text[i].flags => function.text[i].vars # <<>>
    BY Pass1Assumption
  <2> QED BY <2>1, <2>2 DEF Original, Lines
<1>6. 1 \in Lines
  BY <1>2, <1>3
<1> QED BY <1>1, <1>2, <1>3, <1>4, <1>5, <1>6

\* Nobody writes suffixes.
LEMMA TheNames ==
    ASSUME function \in Functions, NEW i \in Lines
    PROVE  /\ Original[i].op \in {"decl", "set", "use", "garbage"}
           /\ Original[i].blk \in Seq(Nat) /\ Original[i].flags \in SUBSET Flags
           /\ ~Original[i].mark
           /\ Original[i].vars \in Seq(SourceVar)
           /\ Len(Original[i].vars) \in Nat
           /\ DOMAIN Original[i].vars = 1..Len(Original[i].vars)
           /\ \A q \in DOMAIN Original[i].vars : Original[i].vars[q] \in SourceVar
           /\ NamesIn(Original[i]) \subseteq Name \X {0}
           /\ Original[i] \in LineType
           /\ ~Declares(Original[1])
           /\ i # 1 /\ Original[i].op = "decl" => Declares(Original[i])
<1>1. Original[i] \in SourceLine
  BY TheText
<1>2. /\ Original[i].op \in {"decl", "set", "use", "garbage"}
      /\ Original[i].blk \in Seq(Nat) /\ Original[i].flags \in SUBSET Flags
      /\ ~Original[i].mark
      /\ Original[i].vars \in Seq(SourceVar)
  BY <1>1 DEF SourceLine
<1>3. /\ Len(Original[i].vars) \in Nat
      /\ DOMAIN Original[i].vars = 1..Len(Original[i].vars)
      /\ \A q \in DOMAIN Original[i].vars : Original[i].vars[q] \in SourceVar
  BY <1>2, LenProperties, ElementOfSeq
<1>4. NamesIn(Original[i]) \subseteq Name \X {0}
  BY <1>3 DEF NamesIn, SourceVar
<1>5. Original[i] \in LineType
  <2>1. SourceVar \subseteq VarType
    <3>1. Name \X {0} \subseteq Names
      BY DEF Names
    <3> QED BY <3>1 DEF SourceVar, VarType
  <2>2. Original[i].vars \in Seq(VarType)
    <3>1. Original[i].vars \in [1..Len(Original[i].vars) -> SourceVar]
      BY <1>2, LenProperties
    <3>2. Original[i].vars \in [1..Len(Original[i].vars) -> VarType]
      BY <2>1, <3>1
    <3> QED BY <1>3, <3>2, SeqDef
  <2> QED BY <1>1, <1>2, <2>2 DEF SourceLine, LineType
<1>6. ~Declares(Original[1])
  BY TheText DEF Declares, Has
<1>7. i # 1 /\ Original[i].op = "decl" => Declares(Original[i])
  BY TheText DEF Declares, Has
<1> QED BY <1>2, <1>3, <1>4, <1>5, <1>6, <1>7

-----------------------------------------------------------------------------
(* Blocks. *)

\* A block contains another if its path is the beginning of the other's.
LEMMA PrefixMeans ==
    ASSUME NEW s \in Seq(Nat), NEW t \in Seq(Nat)
    PROVE  IsPrefix(s, t) <=> Len(s) <= Len(t) /\ \A i \in 1..Len(s) : s[i] = t[i]
<1>1. Len(s) \in Nat /\ Len(t) \in Nat
  BY LenProperties
<1>2. SubSeq(s, 1, Len(s)) = s
  BY SubSeqFull
<1>3. CASE Len(s) <= Len(t)
  <2>1. \A i \in 1..Len(s) : t[i] \in Nat
    BY <1>1, <1>3, ElementOfSeq
  <2>2. /\ SubSeq(t, 1, Len(s)) \in Seq(Nat)
        /\ Len(SubSeq(t, 1, Len(s))) = Len(s)
        /\ \A i \in 1..Len(s) : SubSeq(t, 1, Len(s))[i] = t[i]
    <3>1. 1 \in Int /\ Len(s) \in Int
      BY <1>1
    <3>2. /\ SubSeq(t, 1, Len(s)) \in Seq(Nat)
          /\ Len(SubSeq(t, 1, Len(s))) = IF 1 <= Len(s) THEN Len(s) - 1 + 1 ELSE 0
          /\ \A i \in 1..(Len(s) - 1 + 1) : SubSeq(t, 1, Len(s))[i] = t[1 + i - 1]
      BY <2>1, <3>1, SubSeqProperties
    <3>3. \A i \in 1..Len(s) : i \in 1..(Len(s) - 1 + 1) /\ 1 + i - 1 = i
      BY <1>1
    <3> QED BY <1>1, <3>2, <3>3
  <2>3. SubSeq(t, 1, Len(s)) = s <=> \A i \in 1..Len(s) : SubSeq(t, 1, Len(s))[i] = s[i]
    BY <2>2, SeqEqual
  <2> QED BY <1>2, <1>3, <2>2, <2>3 DEF IsPrefix
<1>4. CASE ~(Len(s) <= Len(t))
  BY <1>4 DEF IsPrefix
<1> QED BY <1>3, <1>4

\* Blocks contain what is in the blocks they contain.
LEMMA PrefixChain ==
    ASSUME NEW r \in Seq(Nat), NEW s \in Seq(Nat), NEW t \in Seq(Nat),
           IsPrefix(r, s), IsPrefix(s, t)
    PROVE  IsPrefix(r, t)
<1>1. Len(r) \in Nat /\ Len(s) \in Nat /\ Len(t) \in Nat
  BY LenProperties
<1>2. Len(r) <= Len(s) /\ \A i \in 1..Len(r) : r[i] = s[i]
  BY PrefixMeans
<1>3. Len(s) <= Len(t) /\ \A i \in 1..Len(s) : s[i] = t[i]
  BY PrefixMeans
<1>4. Len(r) <= Len(t) /\ \A i \in 1..Len(r) : i \in 1..Len(s)
  BY <1>1, <1>2, <1>3
<1>5. \A i \in 1..Len(r) : r[i] = t[i]
  BY <1>2, <1>3, <1>4
<1> QED BY <1>4, <1>5, PrefixMeans

\* The body contains every block, and only the body contains the body.
LEMMA PrefixBody ==
    ASSUME NEW s \in Seq(Nat)
    PROVE  IsPrefix(<<>>, s) /\ (IsPrefix(s, <<>>) => s = <<>>)
<1>1. PICK empty \in Seq(Nat) : empty = <<>> /\ Len(empty) = 0
  BY EmptySeq
<1>2. Len(s) \in Nat
  BY LenProperties
<1>3. IsPrefix(empty, s)
  <2>1. Len(empty) <= Len(s) /\ \A i \in 1..Len(empty) : empty[i] = s[i]
    BY <1>1, <1>2
  <2> QED BY <2>1, PrefixMeans
<1>4. IsPrefix(s, empty) => s = <<>>
  <2>1. IsPrefix(s, empty) => Len(s) <= 0
    BY <1>1, PrefixMeans
  <2> QED BY <1>2, <2>1, EmptySeq
<1> QED BY <1>1, <1>3, <1>4

-----------------------------------------------------------------------------
(* The variables that move. *)

\* Apart, one entry of the list at a time.
LEMMA ApartEach ==
    ASSUME NEW decls, NEW suffix, Apart(decls, suffix), NEW k \in DOMAIN decls
    PROVE  /\ \/ decls[k].name = decls[k].old
              \/ \E s \in 1..(suffix - 1) : decls[k].name = <<decls[k].old[1], s>>
           /\ decls[k].name \notin NamesOf(fncDecls)
           /\ decls[k].old \in NamesOf(fncDecls) \cup NamesOf(decls)
           /\ \A l \in DOMAIN decls : decls[k].name = decls[l].name => k = l
BY DEF Apart

\* A list to which a variable is added.
LEMMA OneMore ==
    ASSUME NEW decls \in Seq(DeclType), NEW d \in DeclType
    PROVE  /\ Append(decls, d) \in Seq(DeclType)
           /\ Len(Append(decls, d)) = Len(decls) + 1 /\ Len(decls) \in Nat
           /\ DOMAIN Append(decls, d) = 1..(Len(decls) + 1) /\ DOMAIN decls = 1..Len(decls)
           /\ Append(decls, d)[Len(decls) + 1] = d
           /\ \A k \in DOMAIN decls : k \in DOMAIN Append(decls, d) /\ Append(decls, d)[k] = decls[k]
           /\ \A k \in DOMAIN Append(decls, d) : k = Len(decls) + 1 \/ k \in DOMAIN decls
           /\ NamesOf(Append(decls, d)) = NamesOf(decls) \cup {d.name}
<1> DEFINE more == Append(decls, d)
<1>1. /\ more \in Seq(DeclType) /\ Len(more) = Len(decls) + 1
      /\ more[Len(decls) + 1] = d /\ \A k \in 1..Len(decls) : more[k] = decls[k]
  BY AppendProperties
<1>2. Len(decls) \in Nat /\ DOMAIN decls = 1..Len(decls) /\ DOMAIN more = 1..(Len(decls) + 1)
  BY <1>1, LenProperties
<1> HIDE DEF more
<1>3. \A k \in DOMAIN decls : k \in DOMAIN more /\ more[k] = decls[k]
  BY <1>1, <1>2
<1>4. \A k \in DOMAIN more : k = Len(decls) + 1 \/ k \in DOMAIN decls
  BY <1>2
<1>5. Len(decls) + 1 \in DOMAIN more
  BY <1>2
<1>6. NamesOf(more) = NamesOf(decls) \cup {d.name}
  <2>1. ASSUME NEW n \in NamesOf(more) PROVE n \in NamesOf(decls) \cup {d.name}
    <3>1. PICK k \in DOMAIN more : n = more[k].name
      BY <2>1 DEF NamesOf
    <3> QED BY <1>1, <1>3, <1>4, <3>1 DEF NamesOf
  <2>2. ASSUME NEW n \in NamesOf(decls) \cup {d.name} PROVE n \in NamesOf(more)
    <3>1. CASE n = d.name
      BY <1>1, <1>5, <3>1 DEF NamesOf
    <3>2. CASE n \in NamesOf(decls)
      <4>1. PICK k \in DOMAIN decls : n = decls[k].name
        BY <3>2 DEF NamesOf
      <4> QED BY <1>3, <4>1 DEF NamesOf
    <3> QED BY <2>2, <3>1, <3>2
  <2> QED BY <2>1, <2>2
<1> QED BY <1>1, <1>2, <1>3, <1>4, <1>6 DEF more

\* A name with a suffix is nobody's, and no suffix is handed out twice.
LEMMA ApartGrows ==
    ASSUME NEW decls \in Seq(DeclType), NEW suffix \in Nat \ {0}, Apart(decls, suffix),
           NEW d \in DeclType, NamesOf(fncDecls) \subseteq Name \X {0},
           d.name = IF Taken(decls, d.old) THEN <<d.old[1], suffix>> ELSE d.old
    PROVE  Apart(Append(decls, d), IF Taken(decls, d.old) THEN suffix + 1 ELSE suffix)
<1> DEFINE more == Append(decls, d)
           next == IF Taken(decls, d.old) THEN suffix + 1 ELSE suffix
           new == Len(decls) + 1
<1>1. /\ more[new] = d /\ NamesOf(more) = NamesOf(decls) \cup {d.name}
      /\ \A k \in DOMAIN decls : k \in DOMAIN more /\ more[k] = decls[k]
      /\ \A k \in DOMAIN more : k = new \/ k \in DOMAIN decls
  BY OneMore
<1>2. d.old \in Name \X {0} /\ \A k \in DOMAIN decls : decls[k].old \in Name \X {0}
  <2>1. \A k \in DOMAIN decls : decls[k] \in DeclType
    BY OneMore, ElementOfSeq
  <2> QED BY <2>1 DEF DeclType
<1> HIDE DEF more, new
<1>3. d.name \notin NamesOf(fncDecls) \cup NamesOf(decls)
  <2>1. CASE Taken(decls, d.old)
    <3>1. d.name = <<d.old[1], suffix>> /\ suffix # 0
      BY <2>1
    <3>2. d.name \notin Name \X {0}
      BY <3>1
    <3>3. ASSUME NEW k \in DOMAIN decls, decls[k].name = d.name PROVE FALSE
      <4>1. CASE decls[k].name = decls[k].old
        BY <1>2, <3>2, <3>3, <4>1
      <4>2. CASE \E s \in 1..(suffix - 1) : decls[k].name = <<decls[k].old[1], s>>
        <5>1. PICK s \in 1..(suffix - 1) : decls[k].name = <<decls[k].old[1], s>>
          BY <4>2
        <5>2. <<decls[k].old[1], s>> = <<d.old[1], suffix>>
          BY <3>1, <3>3, <5>1
        <5>3. s = suffix
          BY <5>2
        <5> QED BY <5>1, <5>3
      <4> QED BY <4>1, <4>2, ApartEach
    <3> QED BY <3>2, <3>3 DEF NamesOf
  <2>2. CASE ~Taken(decls, d.old)
    BY <2>2 DEF Taken
  <2> QED BY <2>1, <2>2
<1>4. next \in Nat \ {0} /\ 1..(suffix - 1) \subseteq 1..(next - 1)
  OBVIOUS
<1>5. d.name = d.old \/ \E s \in 1..(next - 1) : d.name = <<d.old[1], s>>
  <2>1. CASE Taken(decls, d.old)
    <3>1. suffix \in 1..(next - 1) /\ d.name = <<d.old[1], suffix>>
      BY <2>1
    <3> HIDE DEF next
    <3> QED BY <3>1
  <2>2. CASE ~Taken(decls, d.old)
    BY <2>2
  <2> QED BY <2>1, <2>2
<1>6. d.old \in NamesOf(fncDecls) \cup NamesOf(more)
  <2>1. CASE Taken(decls, d.old)
    BY <1>1, <2>1 DEF Taken
  <2>2. CASE ~Taken(decls, d.old)
    BY <1>1, <2>2
  <2> QED BY <2>1, <2>2
<1> HIDE DEF next
<1>7. ASSUME NEW k \in DOMAIN more
      PROVE  /\ \/ more[k].name = more[k].old
                \/ \E s \in 1..(next - 1) : more[k].name = <<more[k].old[1], s>>
             /\ more[k].name \notin NamesOf(fncDecls)
             /\ more[k].old \in NamesOf(fncDecls) \cup NamesOf(more)
  <2>1. CASE k = new
    BY <1>1, <1>3, <1>5, <1>6, <2>1
  <2>2. CASE k \in DOMAIN decls
    <3>1. more[k] = decls[k]
      BY <1>1, <2>2
    <3>2. \/ decls[k].name = decls[k].old
          \/ \E s \in 1..(suffix - 1) : decls[k].name = <<decls[k].old[1], s>>
      BY <2>2, ApartEach
    <3>3. decls[k].name \notin NamesOf(fncDecls) /\ decls[k].old \in NamesOf(fncDecls) \cup NamesOf(decls)
      BY <2>2, ApartEach
    <3> QED BY <1>1, <1>4, <3>1, <3>2, <3>3
  <2> QED BY <1>1, <2>1, <2>2
<1>8. ASSUME NEW k \in DOMAIN more, NEW l \in DOMAIN more, more[k].name = more[l].name
      PROVE  k = l
  <2>1. \A j \in DOMAIN decls : decls[j].name # d.name
    BY <1>3 DEF NamesOf
  <2>2. CASE k \in DOMAIN decls /\ l \in DOMAIN decls
    BY <1>1, <1>8, <2>2, ApartEach
  <2>3. CASE (k = new /\ l \in DOMAIN decls) \/ (k \in DOMAIN decls /\ l = new)
    BY <1>1, <1>8, <2>1, <2>3
  <2>4. CASE k = new /\ l = new
    BY <2>4
  <2> QED BY <1>1, <2>2, <2>3, <2>4
<1>9. Apart(more, next)
  BY <1>7, <1>8 DEF Apart
<1> QED BY <1>9 DEF more, next

\* What there is when line i has moved the first k of its variables.
Hoisting(acc, k, i) ==
    /\ acc.decls \in Seq(DeclType) /\ acc.suffix \in Nat \ {0} /\ acc.sets \in Seq(LineType)
    /\ Len(varDecls) <= Len(acc.decls)
    /\ \A j \in DOMAIN varDecls : acc.decls[j] = varDecls[j]
    /\ Apart(acc.decls, acc.suffix)
    /\ \A j \in DOMAIN acc.decls : j > Len(varDecls) => OfLine(acc.decls[j], i)
    /\ \A q \in 1..k : \E j \in DOMAIN acc.decls :
          OfLine(acc.decls[j], i) /\ acc.decls[j].old = Original[i].vars[q].name
    /\ \A j \in DOMAIN acc.sets : Assigns(acc.sets[j], i, acc.decls)
    /\ (\E q \in 1..k : Original[i].vars[q].init # NoInit) => acc.sets # <<>>

\* One variable.
LEMMA MoveOne ==
    ASSUME function \in Functions, NEW i \in Lines, NamesOf(fncDecls) \subseteq Name \X {0},
           varDecls \in Seq(DeclType),
           NEW k \in 1..Len(Original[i].vars), NEW acc, Hoisting(acc, k - 1, i)
    PROVE  Hoisting(Move(Original[i], acc, Original[i].vars[k]), k, i)
<1> DEFINE v == Original[i].vars[k]
           taken == Taken(acc.decls, v.name)
           new == IF taken THEN <<v.name[1], acc.suffix>> ELSE v.name
           d == [name |-> new, old |-> v.name, blk |-> Original[i].blk,
                 flags |-> Original[i].flags \cap Kept]
           set == [op |-> "set", blk |-> Original[i].blk, flags |-> {}, mark |-> TRUE,
                   vars |-> <<[name |-> new, ctx |-> "plain", init |-> v.init]>>]
           next == Move(Original[i], acc, v)
<1>1. /\ v \in SourceVar /\ k \in DOMAIN Original[i].vars
      /\ Original[i].blk \in Seq(Nat) /\ Len(Original[i].vars) \in Nat
  BY TheNames
<1>2. v.name \in Name \X {0} /\ v.init \in Value \cup {NoInit} \cup Names
  <2>1. Name \X {0} \subseteq Names
    BY DEF Names
  <2> QED BY <1>1, <2>1 DEF SourceVar
<1>3. v.name \in NamesIn(Original[i])
  BY <1>1 DEF NamesIn
<1> HIDE DEF v
<1>4. /\ acc.decls \in Seq(DeclType) /\ acc.suffix \in Nat \ {0} /\ acc.sets \in Seq(LineType)
      /\ Apart(acc.decls, acc.suffix)
  BY DEF Hoisting
<1>5. new \in Names
  <2>1. v.name[1] \in Name
    BY <1>2
  <2> QED BY <1>2, <1>4, <2>1 DEF Names
<1>6. /\ next.decls = Append(acc.decls, d)
      /\ next.suffix = IF taken THEN acc.suffix + 1 ELSE acc.suffix
      /\ next.sets = IF v.init = NoInit THEN acc.sets ELSE Append(acc.sets, set)
  BY DEF Move
<1> HIDE DEF next
<1>7. d \in DeclType /\ d.old = v.name /\ d.name = new /\ OfLine(d, i)
  BY <1>1, <1>2, <1>3, <1>5 DEF DeclType, OfLine
<1>8. set \in LineType
  <2>1. <<[name |-> new, ctx |-> "plain", init |-> v.init]>> \in Seq(VarType)
    BY <1>2, <1>5 DEF VarType
  <2> QED BY <1>1, <2>1 DEF LineType
<1>9. /\ set.op = "set" /\ set.mark /\ set.blk = Original[i].blk /\ Len(set.vars) = 1
      /\ set.vars[1].name = new /\ ReadIn(set) \subseteq ReadIn(Original[i])
  <2>1. set.vars[1].init = v.init /\ DOMAIN set.vars = {1}
    OBVIOUS
  <2>2. ReadIn(set) \subseteq {v.init} \ (Value \cup {NoInit})
    <3> HIDE DEF set
    <3> QED BY <2>1 DEF ReadIn
  <2>3. {v.init} \ (Value \cup {NoInit}) \subseteq ReadIn(Original[i])
    BY <1>1 DEF ReadIn, v
  <2>4. ReadIn(set) \subseteq ReadIn(Original[i])
    BY <2>2, <2>3
  <2> QED BY <2>4
<1>10. Apart(next.decls, next.suffix) /\ next.suffix \in Nat \ {0}
  <2>1. d.name = IF Taken(acc.decls, d.old) THEN <<d.old[1], acc.suffix>> ELSE d.old
    BY <1>7
  <2> HIDE DEF d, new
  <2>2. Apart(Append(acc.decls, d), IF Taken(acc.decls, d.old) THEN acc.suffix + 1 ELSE acc.suffix)
    BY <1>4, <1>7, <2>1, ApartGrows
  <2> QED BY <1>4, <1>6, <1>7, <2>2
<1> HIDE DEF d, set, new, taken
<1>11. /\ next.decls \in Seq(DeclType)
       /\ Len(next.decls) = Len(acc.decls) + 1 /\ Len(acc.decls) \in Nat
       /\ DOMAIN acc.decls = 1..Len(acc.decls)
       /\ next.decls[Len(acc.decls) + 1] = d
       /\ \A j \in DOMAIN acc.decls : j \in DOMAIN next.decls /\ next.decls[j] = acc.decls[j]
       /\ \A j \in DOMAIN next.decls : j = Len(acc.decls) + 1 \/ j \in DOMAIN acc.decls
       /\ Len(acc.decls) + 1 \in DOMAIN next.decls
  <2>1. DOMAIN next.decls = 1..(Len(acc.decls) + 1)
    BY <1>4, <1>6, <1>7, OneMore
  <2>2. Len(acc.decls) + 1 \in 1..(Len(acc.decls) + 1)
    BY <1>4, <1>7, OneMore
  <2> QED BY <1>4, <1>6, <1>7, <2>1, <2>2, OneMore
<1>12. Len(varDecls) <= Len(next.decls) /\ \A j \in DOMAIN varDecls : next.decls[j] = varDecls[j]
  <2>1. Len(varDecls) <= Len(acc.decls) /\ \A j \in DOMAIN varDecls : acc.decls[j] = varDecls[j]
    BY DEF Hoisting
  <2>2. DOMAIN varDecls = 1..Len(varDecls) /\ Len(varDecls) \in Nat
    BY LenProperties
  <2>3. DOMAIN varDecls \subseteq DOMAIN acc.decls
    BY <1>11, <2>1, <2>2
  <2> QED BY <1>11, <2>1, <2>2, <2>3
<1>13. ASSUME NEW j \in DOMAIN next.decls, j > Len(varDecls) PROVE OfLine(next.decls[j], i)
  <2>1. CASE j = Len(acc.decls) + 1
    BY <1>7, <1>11, <2>1
  <2>2. CASE j \in DOMAIN acc.decls
    BY <1>11, <1>13, <2>2 DEF Hoisting
  <2> QED BY <1>11, <2>1, <2>2
<1>14. ASSUME NEW q \in 1..k
       PROVE  \E j \in DOMAIN next.decls :
                 OfLine(next.decls[j], i) /\ next.decls[j].old = Original[i].vars[q].name
  <2>1. CASE q = k
    <3>1. d.old = Original[i].vars[q].name
      BY <1>7, <2>1 DEF v
    <3> QED BY <1>7, <1>11, <3>1
  <2>2. CASE q # k
    <3>1. q \in 1..(k - 1)
      BY <1>1, <2>2
    <3>2. PICK j \in DOMAIN acc.decls :
             OfLine(acc.decls[j], i) /\ acc.decls[j].old = Original[i].vars[q].name
      BY <3>1 DEF Hoisting
    <3> QED BY <1>11, <3>2
  <2> QED BY <2>1, <2>2
<1>15. ASSUME NEW s, Assigns(s, i, acc.decls) PROVE Assigns(s, i, next.decls)
  <2>1. PICK j \in DOMAIN acc.decls : OfLine(acc.decls[j], i) /\ s.vars[1].name = acc.decls[j].name
    BY <1>15 DEF Assigns
  <2>2. j \in DOMAIN next.decls /\ next.decls[j] = acc.decls[j]
    BY <1>11
  <2> QED BY <1>15, <2>1, <2>2 DEF Assigns
<1>16. Assigns(set, i, next.decls)
  BY <1>7, <1>9, <1>11 DEF Assigns
<1>17. /\ next.sets \in Seq(LineType)
       /\ \A j \in DOMAIN next.sets : Assigns(next.sets[j], i, next.decls)
       /\ v.init # NoInit \/ acc.sets # <<>> => next.sets # <<>>
  <2>1. \A j \in DOMAIN acc.sets : Assigns(acc.sets[j], i, next.decls)
    BY <1>15 DEF Hoisting
  <2>2. CASE v.init = NoInit
    BY <1>4, <1>6, <2>1, <2>2
  <2>3. CASE v.init # NoInit
    <3>1. next.sets = Append(acc.sets, set)
      BY <1>6, <2>3
    <3>2. /\ next.sets \in Seq(LineType) /\ Len(next.sets) = Len(acc.sets) + 1 /\ next.sets # <<>>
          /\ next.sets[Len(acc.sets) + 1] = set /\ \A j \in 1..Len(acc.sets) : next.sets[j] = acc.sets[j]
      BY <1>4, <1>8, <3>1, AppendProperties
    <3>3. /\ DOMAIN next.sets = 1..(Len(acc.sets) + 1)
          /\ DOMAIN acc.sets = 1..Len(acc.sets) /\ Len(acc.sets) \in Nat
      BY <1>4, <3>2, LenProperties
    <3>4. \A j \in DOMAIN next.sets : j = Len(acc.sets) + 1 \/ j \in DOMAIN acc.sets
      BY <3>3
    <3>5. \A j \in DOMAIN next.sets : Assigns(next.sets[j], i, next.decls)
      BY <1>16, <2>1, <3>2, <3>3, <3>4
    <3> QED BY <3>2, <3>5
  <2> QED BY <2>2, <2>3
<1>18. (\E q \in 1..k : Original[i].vars[q].init # NoInit) => next.sets # <<>>
  <2>1. \A q \in 1..k : q = k \/ q \in 1..(k - 1)
    BY <1>1
  <2>2. (\E q \in 1..(k - 1) : Original[i].vars[q].init # NoInit) => acc.sets # <<>>
    BY DEF Hoisting
  <2> QED BY <1>17, <2>1, <2>2 DEF v
<1>19. Hoisting(next, k, i)
  BY <1>10, <1>11, <1>12, <1>13, <1>14, <1>17, <1>18 DEF Hoisting
<1> QED BY <1>19 DEF next, v

\* run[k] is what there is after the first k of the variables of a line.
Hoists(line, start, run, n) ==
    /\ run = [k \in 0..n |-> run[k]]
    /\ run[0] = start
    /\ \A k \in 1..n : run[k] = Move(line, run[k - 1], line.vars[k])

\* All of them can be moved, one by one.
LEMMA HoistsRun ==
    ASSUME NEW line, NEW start, NEW n \in Nat
    PROVE  \E run : Hoists(line, start, run, n)
<1> DEFINE X == {d \in 0..n : \E run : Hoists(line, start, run, d)}
<1>1. 0 \in X
  <2>1. Hoists(line, start, [k \in 0..0 |-> start], 0)
    BY DEF Hoists
  <2> QED BY <2>1
<1>2. ASSUME NEW d \in 1..n, d - 1 \in X PROVE d \in X
  <2>1. PICK run : Hoists(line, start, run, d - 1)
    BY <1>2
  <2> DEFINE last == Move(line, run[d - 1], line.vars[d])
             more == [e \in 0..d |-> IF e = d THEN last ELSE run[e]]
  <2>2. more = [e \in 0..d |-> more[e]]
    OBVIOUS
  <2>3. more[d] = last /\ \A e \in 0..(d - 1) : more[e] = run[e]
    <3>1. d \in 0..d /\ \A e \in 0..(d - 1) : e \in 0..d /\ e # d
      OBVIOUS
    <3> HIDE DEF last
    <3> QED BY <3>1
  <2>4. more[0] = start
    <3>1. 0 \in 0..(d - 1)
      OBVIOUS
    <3> QED BY <2>1, <2>3, <3>1 DEF Hoists
  <2>5. ASSUME NEW e \in 1..d PROVE more[e] = Move(line, more[e - 1], line.vars[e])
    <3>1. e - 1 \in 0..(d - 1)
      OBVIOUS
    <3>2. CASE e = d
      BY <2>3, <3>1, <3>2
    <3>3. CASE e # d
      <4>1. e \in 1..(d - 1) /\ e \in 0..(d - 1)
        BY <3>3
      <4> QED BY <2>1, <2>3, <3>1, <4>1 DEF Hoists
    <3> QED BY <3>2, <3>3
  <2> HIDE DEF more, last
  <2>6. Hoists(line, start, more, d)
    BY <2>2, <2>4, <2>5 DEF Hoists
  <2> QED BY <1>2, <2>6
<1> HIDE DEF X
<1>3. n \in X
  BY <1>1, <1>2, EveryTurn
<1> QED BY <1>3 DEF X

\* What var_declVisit does with a declaration of an inner block.
LEMMA var_declVisitMoves ==
    ASSUME function \in Functions, BodyInv, MovedInv, var_declVisit, at \in Lines, Moves(Original[at])
    PROVE  \E all : /\ Hoisting(all, Len(Original[at].vars), at)
                    /\ varDecls' = all.decls /\ var_suffix' = all.suffix
                    /\ text' = [text EXCEPT ![at] = all.sets \o Garbled(Original[at])]
<1> DEFINE line == Original[at]
           n == Len(line.vars)
           start == [decls |-> varDecls, suffix |-> var_suffix, sets |-> <<>>]
           moved == CHOOSE f : f = [k \in 0..n |->
                       IF k = 0 THEN start ELSE Move(line, f[k - 1], line.vars[k])]
           all == moved[n]
<1>0. n \in Nat
  BY TheNames
<1>1. /\ varDecls' = all.decls /\ var_suffix' = all.suffix
      /\ text' = [text EXCEPT ![at] = all.sets \o Garbled(line)]
  BY DEF var_declVisit, Moves, Original
<1>2. PICK run : Hoists(line, start, run, n)
  BY <1>0, HoistsRun
<1>3. run = [k \in 0..n |-> IF k = 0 THEN start ELSE Move(line, run[k - 1], line.vars[k])]
  <2>1. \A k \in 0..n : run[k] = IF k = 0 THEN start ELSE Move(line, run[k - 1], line.vars[k])
    <3>1. \A k \in 0..n : k = 0 \/ k \in 1..n
      BY <1>0
    <3> QED BY <1>2, <3>1 DEF Hoists
  <2>2. run = [k \in 0..n |-> run[k]]
    BY <1>2 DEF Hoists
  <2> HIDE DEF start, n, line
  <2> QED BY <2>1, <2>2
<1>4. moved = [k \in 0..n |-> IF k = 0 THEN start ELSE Move(line, moved[k - 1], line.vars[k])]
  BY <1>3
<1> HIDE DEF moved
<1>5. NamesOf(fncDecls) \subseteq Name \X {0}
  <2>1. NamesOf(fncDecls) \subseteq UNION {NamesIn(Original[i]) : i \in Lines}
    BY DEF BodyInv
  <2>2. \A i \in Lines : NamesIn(Original[i]) \subseteq Name \X {0}
    BY TheNames
  <2> QED BY <2>1, <2>2
<1> DEFINE X == {k \in 0..n : Hoisting(moved[k], k, at)}
<1>6. 0 \in X
  <2>1. moved[0] = start
    BY <1>0, <1>4
  <2>2. /\ varDecls \in Seq(DeclType) /\ var_suffix \in Nat \ {0} /\ Apart(varDecls, var_suffix)
    BY DEF MovedInv
  <2>3. Len(varDecls) \in Nat /\ DOMAIN varDecls = 1..Len(varDecls)
    BY <2>2, LenProperties
  <2>4. \A j \in DOMAIN varDecls : ~(j > Len(varDecls))
    BY <2>3
  <2>5. start.sets \in Seq(LineType) /\ DOMAIN start.sets = {}
    BY EmptyList
  <2> DEFINE got == start
  <2>6. got.decls = varDecls /\ got.suffix = var_suffix
    OBVIOUS
  <2> HIDE DEF start
  <2>7. Len(varDecls) <= Len(varDecls)
    BY <2>3
  <2>8. Hoisting(start, 0, at)
    BY <2>2, <2>4, <2>5, <2>6, <2>7 DEF Hoisting
  <2> QED BY <1>0, <2>1, <2>8
<1>7. ASSUME NEW k \in 1..n, k - 1 \in X PROVE k \in X
  <2>1. moved[k] = Move(line, moved[k - 1], line.vars[k])
    <3>1. k \in 0..n /\ k # 0
      BY <1>0
    <3> HIDE DEF start, n, line
    <3> QED BY <1>4, <3>1
  <2>2. varDecls \in Seq(DeclType)
    BY DEF MovedInv
  <2>3. Hoisting(moved[k - 1], k - 1, at)
    BY <1>7
  <2>4. Hoisting(Move(line, moved[k - 1], line.vars[k]), k, at)
    BY <1>5, <2>2, <2>3, MoveOne
  <2> QED BY <1>0, <2>1, <2>4
<1> HIDE DEF X
<1>8. n \in X
  <2>1. \A k \in 0..n : k \in X
    BY <1>0, <1>6, <1>7, EveryTurn
  <2> QED BY <1>0, <2>1
<1> QED BY <1>1, <1>8 DEF X

-----------------------------------------------------------------------------
(* The steps of Pass 1. *)

\* A step does not change the function.
LEMMA Steady ==
    ASSUME function' = function
    PROVE  /\ Lines' = Lines /\ Original' = Original
           /\ \A i : NamesIn(Original[i])' = NamesIn(Original[i])
           /\ \A i : ReadIn(Original[i])' = ReadIn(Original[i])
           /\ \A i : Moves(Original[i])' = Moves(Original[i])
BY DEF Lines, Original, NamesIn, ReadIn, Moves, Declares, Has

\* What was said of a line remains true when more variables move.
LEMMA VersionStays ==
    ASSUME function' = function, NEW i \in Lines, NEW line, Version(line, i, 0),
           varDecls \in Seq(DeclType), varDecls' \in Seq(DeclType),
           \A k \in DOMAIN varDecls : k \in DOMAIN varDecls' /\ varDecls'[k] = varDecls[k]
    PROVE  Version(line, i, 0)'
<1>1. /\ line.op = Original'[i].op /\ line.blk = Original'[i].blk
      /\ line.flags = Original'[i].flags /\ ~line.mark
      /\ DOMAIN line.vars = DOMAIN Original'[i].vars
  BY Steady DEF Version
<1>2. /\ \A k \in DOMAIN varDecls : ~(k <= 0)
      /\ \A k \in DOMAIN varDecls' : ~(k <= 0)
  BY LenProperties
<1>3. ASSUME NEW q \in DOMAIN line.vars
      PROVE  /\ line.vars[q].ctx = Original[i].vars[q].ctx
             /\ line.vars[q].name = Original[i].vars[q].name
             /\ line.vars[q].init = Original[i].vars[q].init
  <2>1. \A old : Renewals(0, old, line.blk) = {}
    BY <1>2 DEF Renewals
  <2> QED BY <2>1 DEF Version
<1> QED BY <1>1, <1>2, <1>3, Steady DEF Version

\* The stages before a line is renamed.
Early == {"recursiveVisit", "fnc_declVisit", "var_declVisit", "insert_var_decl"}

\* A line is left alone while others move.
LEMMA LeftStays ==
    ASSUME function \in Functions, function' = function, NEW i \in Lines, Left(i),
           varDecls \in Seq(DeclType), varDecls' \in Seq(DeclType),
           \A k \in DOMAIN varDecls : k \in DOMAIN varDecls' /\ varDecls'[k] = varDecls[k],
           text'[i] = text[i], Moved(i)' <=> Moved(i), stage \in Early,
           stage' \in Early \/ (stage' = "replace_duplicate_vars" /\ at' = 1 /\ i # 1)
    PROVE  Left(i)'
<1>1. Turns = 0 /\ Turns' = 0
  BY DEF Turns, Early
<1>2. CASE Moved(i)
  <2>1. Moved(i)'
    BY <1>2
  <2>2. /\ \A j \in DOMAIN text[i] : \/ Has(Original[i], "comment") /\ text[i][j].op = "garbage"
                                     \/ Assigns(text[i][j], i, varDecls)
        /\ Has(Original[i], "comment") => \E j \in DOMAIN text[i] : text[i][j].op = "garbage"
        /\ Initialised(Original[i]) => \E j \in DOMAIN text[i] : Assigns(text[i][j], i, varDecls)
    BY <1>2 DEF Left
  <2>3. ASSUME NEW line, Assigns(line, i, varDecls) PROVE Assigns(line, i, varDecls)'
    <3>1. PICK k \in DOMAIN varDecls : OfLine(varDecls[k], i) /\ line.vars[1].name = varDecls[k].name
      BY <2>3 DEF Assigns
    <3>2. k \in DOMAIN varDecls' /\ varDecls'[k] = varDecls[k]
      OBVIOUS
    <3>3. OfLine(varDecls[k], i)'
      BY <3>1, <3>2, Steady DEF OfLine
    <3>4. ReadIn(line)' = ReadIn(line)
      BY DEF ReadIn
    <3> QED BY <2>3, <3>1, <3>2, <3>3, <3>4, Steady DEF Assigns
  <2>4. /\ \A j \in DOMAIN text'[i] : \/ Has(Original'[i], "comment") /\ text'[i][j].op = "garbage"
                                      \/ Assigns(text[i][j], i, varDecls)'
        /\ Has(Original'[i], "comment") => \E j \in DOMAIN text'[i] : text'[i][j].op = "garbage"
        /\ Initialised(Original'[i]) => \E j \in DOMAIN text'[i] : Assigns(text[i][j], i, varDecls)'
    <3>1. \A j \in DOMAIN text[i] : Assigns(text[i][j], i, varDecls) => Assigns(text[i][j], i, varDecls)'
      <4>1. ASSUME NEW j \in DOMAIN text[i], Assigns(text[i][j], i, varDecls)
            PROVE  Assigns(text[i][j], i, varDecls)'
        <5>1. PICK line : line = text[i][j]
          OBVIOUS
        <5>2. line = text'[i][j]
          BY <5>1
        <5>3. Assigns(line, i, varDecls)'
          BY <2>3, <4>1, <5>1
        <5> QED BY <5>2, <5>3 DEF Assigns
      <4> QED BY <4>1
    <3> QED BY <2>2, <3>1, Steady
  <2> QED BY <2>1, <2>4 DEF Left
<1>3. CASE ~Moved(i)
  <2>1. ~Moved(i)'
    BY <1>3
  <2>2. /\ Version(text[i][1], i, 0) /\ Len(text[i]) = 1
    BY <1>1, <1>3 DEF Left, Early
  <2>3. Version(text[i][1], i, Turns)'
    <3>1. PICK line : line = text[i][1]
      OBVIOUS
    <3>2. line = text'[i][1] /\ Turns' = 0
      BY <1>1, <3>1
    <3>3. Version(line, i, 0)'
      BY <2>2, <3>1, VersionStays
    <3> QED BY <3>2, <3>3 DEF Version
  <2>4. ~(i = 1 /\ stage' \in {"replace_duplicate_vars", "seperate_decl_init"})
    BY DEF Early
  <2>5. Len(text'[i]) = 1
    BY <2>2
  <2> QED BY <2>1, <2>3, <2>4, <2>5 DEF Left
<1> QED BY <1>2, <1>3

\* Before a line moves it is what was written.
LEMMA VersionFirst ==
    ASSUME function \in Functions, NEW i \in Lines, varDecls \in Seq(DeclType)
    PROVE  Version(Original[i], i, 0)
<1>1. \A k \in DOMAIN varDecls : ~(k <= 0)
  BY LenProperties
<1>2. ~Original[i].mark
  BY TheNames
<1> QED BY <1>1, <1>2 DEF Version

Holds == function \in Functions /\ LoopInv /\ BodyInv /\ MovedInv /\ TextInv

\* The first state.
LEMMA InitHolds ==
    ASSUME Init
    PROVE  Holds /\ CompilesUnless
<1>1. /\ function \in Functions /\ stage = "recursiveVisit" /\ at = 1 /\ bare = function.bare
      /\ text = [i \in Lines |-> <<function.text[i]>>]
      /\ fncDecls = <<>> /\ varDecls = <<>> /\ var_suffix = 1
  BY DEF Init
<1>2. LoopInv /\ CompilesUnless
  BY <1>1 DEF LoopInv, CompilesUnless, Stages
<1>3. BodyInv
  <2>1. <<>> \in Seq([name : Names, line : {i \in Lines : Declares(Original[i]) /\ Original[i].blk = <<>>}])
    OBVIOUS
  <2>2. NamesOf(<<>>) = {}
    BY DEF NamesOf
  <2> QED BY <1>1, <2>1, <2>2 DEF BodyInv
<1>4. varDecls \in Seq(DeclType) /\ DOMAIN varDecls = {}
  BY <1>1
<1>5. \A i \in Lines : ~Moved(i)
  BY <1>1 DEF Moved
<1>6. MovedInv
  BY <1>1, <1>4, <1>5 DEF MovedInv, Apart
<1>7. TextInv
  <2>1. ASSUME NEW i \in Lines PROVE text[i] \in Seq(LineType) /\ Left(i)
    <3>1. text[i] = <<Original[i]>> /\ Original[i] \in LineType
      BY <1>1, TheNames DEF Original
    <3>2. text[i] \in Seq(LineType) /\ text[i][1] = Original[i] /\ Len(text[i]) = 1
      BY <3>1
    <3>3. Version(text[i][1], i, Turns)
      BY <1>1, <1>4, <3>2, VersionFirst DEF Turns
    <3> QED BY <1>1, <1>5, <3>2, <3>3 DEF Left
  <2> QED BY <1>1, <2>1 DEF TextInv
<1> QED BY <1>1, <1>2, <1>3, <1>6, <1>7 DEF Holds

\* Braces: the text stays as it is.
LEMMA BracesHold ==
    ASSUME Holds, recursiveVisit
    PROVE  Holds' /\ CompilesUnless'
<1>1. /\ stage = "recursiveVisit" /\ stage' = "fnc_declVisit" /\ at' = 1
      /\ function' = function /\ text' = text /\ fncDecls' = fncDecls
      /\ varDecls' = varDecls /\ var_suffix' = var_suffix /\ bare' \subseteq bare
  BY DEF Holds, LoopInv, recursiveVisit, Advance
<1>2. LoopInv' /\ CompilesUnless'
  BY <1>1, Steady DEF Holds, LoopInv, CompilesUnless, Stages
<1>3. BodyInv'
  BY <1>1, Steady DEF Holds, BodyInv, NamesOf, Declares, Has
<1>4. \A i \in Lines : ~Moved(i) /\ ~Moved(i)'
  BY <1>1 DEF Moved
<1>5. varDecls \in Seq(DeclType)
  BY DEF Holds, MovedInv
<1>6. MovedInv'
  <2>1. DOMAIN varDecls = {}
    BY <1>4 DEF Holds, MovedInv
  <2> QED BY <1>1, <1>4, <2>1, Steady DEF Holds, MovedInv, Apart
<1>7. TextInv'
  <2>1. text \in [Lines -> Seq(LineType)] /\ \A i \in Lines : Left(i)
    BY <1>1 DEF Holds, TextInv
  <2>2. \A i \in Lines : Left(i)'
    BY <1>1, <1>4, <1>5, <2>1, LeftStays DEF Holds, Early
  <2> QED BY <1>1, <2>1, <2>2, Steady DEF TextInv
<1> QED BY <1>1, <1>2, <1>3, <1>6, <1>7 DEF Holds

Body == {i \in Lines : Declares(Original[i]) /\ Original[i].blk = <<>>}

\* The variables of the body are collected.
LEMMA BodyVariables ==
    ASSUME Holds, fnc_declVisit
    PROVE  /\ fncDecls' \in Seq([name : Names, line : Body])
           /\ NamesOf(fncDecls)' = UNION {NamesIn(Original[i]) : i \in Body}
           /\ fncDecls' # <<>> => \A i \in Body :
                 NamesIn(Original[i]) # {} => i <= fncDecls'[Len(fncDecls')].line
<1> DEFINE T == [name : Names, line : Body]
           row(i) == [k \in DOMAIN Original[i].vars |-> [name |-> Original[i].vars[k].name, line |-> i]]
           ss == [i \in Lines |-> IF i \in Body THEN row(i) ELSE <<>>]
<1>0. function \in Functions
  BY DEF Holds
<1>1. fncDecls' = FlattenSeq(ss)
  <2>1. \A i \in Lines : function.text[i] = Original[i]
    BY DEF Original
  <2>2. ss = [i \in Lines |->
          LET line == function.text[i] IN
          IF Declares(line) /\ line.blk = <<>>
          THEN [k \in DOMAIN line.vars |-> [name |-> line.vars[k].name, line |-> i]]
          ELSE <<>>]
    BY <2>1 DEF Body
  <2> HIDE DEF ss
  <2> QED BY <2>2 DEF fnc_declVisit
<1>2. ASSUME NEW i \in Body
      PROVE  row(i) \in Seq(T) /\ ToSet(row(i)) = {[name |-> n, line |-> i] : n \in NamesIn(Original[i])}
  <2>1. i \in Lines
    BY DEF Body
  <2>2. /\ DOMAIN Original[i].vars = 1..Len(Original[i].vars) /\ Len(Original[i].vars) \in Nat
        /\ \A k \in DOMAIN Original[i].vars : Original[i].vars[k].name \in Names
    <3>1. Name \X {0} \subseteq Names
      BY DEF Names
    <3> QED BY <1>0, <2>1, <3>1, TheNames DEF NamesIn
  <2>3. row(i) \in [1..Len(Original[i].vars) -> T]
    BY <2>2
  <2>4. row(i) \in Seq(T)
    BY <2>2, <2>3, SeqDef
  <2>5. ToSet(row(i)) = {[name |-> n, line |-> i] : n \in NamesIn(Original[i])}
    BY DEF ToSet, NamesIn
  <2> QED BY <2>4, <2>5
<1> HIDE DEF row
<1>3. ss \in Seq(Seq(T)) /\ DOMAIN ss = Lines
  <2>1. <<>> \in Seq(T)
    OBVIOUS
  <2> HIDE DEF T
  <2>2. ss \in [1..Len(Original) -> Seq(T)]
    BY <1>0, <1>2, <2>1, TheText
  <2>3. Len(Original) \in Nat
    BY <1>0, TheText
  <2> QED BY <2>2, <2>3, SeqDef
<1>4. \A i \in Lines : ToSet(ss[i]) = IF i \in Body THEN ToSet(row(i)) ELSE {}
  BY EmptyList
<1>5. ASSUME NEW i \in Lines, NEW j \in DOMAIN ss[i]
      PROVE  i \in Body /\ ss[i][j].line = i
  <2>1. ss[i] = IF i \in Body THEN row(i) ELSE <<>>
    OBVIOUS
  <2>2. DOMAIN <<>> = {}
    OBVIOUS
  <2> QED BY <1>5, <2>1, <2>2 DEF row
<1>6. \A i \in Body : DOMAIN ss[i] = DOMAIN Original[i].vars
  BY DEF Body, row
<1> HIDE DEF ss, T
<1>7. fncDecls' \in Seq(T) /\ ToSet(fncDecls') = UNION {ToSet(ss[i]) : i \in Lines}
  BY <1>1, <1>3, FlattenHolds
<1>8. ASSUME NEW n \in NamesOf(fncDecls)' PROVE n \in UNION {NamesIn(Original[i]) : i \in Body}
  <2>1. PICK k \in DOMAIN fncDecls' : n = fncDecls'[k].name
    BY <1>8 DEF NamesOf
  <2>2. fncDecls'[k] \in ToSet(fncDecls')
    BY <2>1 DEF ToSet
  <2>3. PICK i \in Lines : fncDecls'[k] \in ToSet(ss[i])
    BY <1>7, <2>2
  <2>4. i \in Body /\ fncDecls'[k] \in ToSet(row(i))
    BY <1>4, <2>3
  <2>5. PICK m \in NamesIn(Original[i]) : fncDecls'[k] = [name |-> m, line |-> i]
    BY <1>2, <2>4
  <2> QED BY <2>1, <2>4, <2>5
<1>9. ASSUME NEW n \in UNION {NamesIn(Original[i]) : i \in Body} PROVE n \in NamesOf(fncDecls)'
  <2>1. PICK i \in Body : n \in NamesIn(Original[i])
    BY <1>9
  <2>2. i \in Lines
    BY DEF Body
  <2>3. [name |-> n, line |-> i] \in ToSet(ss[i])
    BY <1>2, <1>4, <2>1, <2>2
  <2>4. [name |-> n, line |-> i] \in ToSet(fncDecls')
    BY <1>7, <2>2, <2>3
  <2>5. PICK k \in DOMAIN fncDecls' : fncDecls'[k] = [name |-> n, line |-> i]
    BY <2>4 DEF ToSet
  <2> QED BY <2>5 DEF NamesOf
<1>10. ASSUME NEW i \in Body, NamesIn(Original[i]) # {}
       PROVE  i <= fncDecls'[Len(fncDecls')].line
  <2>1. PICK s \in Seq(T) : s = fncDecls'
    BY <1>7
  <2>2. PICK r, c : Placed(ss, s, Len(ss), r, c)
    BY <1>1, <1>3, <2>1, FlattenOrder
  <2>3. Lines = 1..Len(ss) /\ Len(ss) \in Nat
    BY <1>3, LenProperties
  <2>4. \A q \in DOMAIN s : r[q] \in Lines /\ s[q].line = r[q]
    <3>1. \A q \in DOMAIN s :
             r[q] \in 1..Len(ss) /\ c[q] \in DOMAIN ss[r[q]] /\ s[q] = ss[r[q]][c[q]]
      BY <2>2 DEF Placed
    <3> QED BY <1>5, <2>3, <3>1
  <2>5. PICK j \in DOMAIN ss[i] : TRUE
    BY <1>6, <1>10 DEF NamesIn
  <2>6. i \in 1..Len(ss)
    BY <2>3 DEF Body
  <2>7. PICK p \in DOMAIN s : r[p] = i
    BY <2>2, <2>5, <2>6 DEF Placed
  <2>8. Len(s) \in DOMAIN s /\ (p < Len(s) \/ p = Len(s))
    BY <2>1, LenProperties
  <2>9. p < Len(s) => r[p] <= r[Len(s)]
    <3>1. p < Len(s) => r[p] < r[Len(s)] \/ r[p] = r[Len(s)]
      BY <2>2, <2>8 DEF Placed
    <3>2. r[p] \in Int /\ r[Len(s)] \in Int
      BY <2>3, <2>4, <2>8
    <3> QED BY <3>1, <3>2
  <2>10. i <= r[Len(s)]
    BY <2>3, <2>6, <2>7, <2>8, <2>9
  <2> QED BY <2>1, <2>4, <2>8, <2>10
<1> QED BY <1>7, <1>8, <1>9, <1>10 DEF T

\* The text stays as it is.
LEMMA BodyHolds ==
    ASSUME Holds, fnc_declVisit
    PROVE  Holds' /\ CompilesUnless'
<1>1. /\ stage = "fnc_declVisit" /\ stage' = "var_declVisit" /\ at' = 1
      /\ function' = function /\ text' = text /\ bare' = bare
      /\ varDecls' = varDecls /\ var_suffix' = var_suffix
  BY DEF Holds, LoopInv, fnc_declVisit, Advance
<1>2. function \in Functions /\ 1 \in 1..Len(function.text)
  BY TheText DEF Holds, Original
<1>3. LoopInv' /\ CompilesUnless'
  BY <1>1, <1>2, Steady DEF Holds, LoopInv, CompilesUnless, Stages
<1>4. BodyInv'
  <2>1. Body' = Body /\ \A i \in Body : NamesIn(Original[i])' = NamesIn(Original[i])
    BY <1>1, Steady DEF Body, Declares, Has
  <2> QED BY <1>1, <2>1, BodyVariables, Steady DEF BodyInv, Body
<1>5. \A i \in Lines : ~Moved(i) /\ ~Moved(i)'
  <2>1. \A i \in Lines : ~(i < 1)
    BY <1>2, TheText
  <2> QED BY <1>1, <2>1 DEF Moved
<1>6. varDecls \in Seq(DeclType)
  BY DEF Holds, MovedInv
<1>7. MovedInv'
  <2>1. DOMAIN varDecls = {}
    BY <1>5 DEF Holds, MovedInv
  <2> QED BY <1>1, <1>5, <2>1, Steady DEF Holds, MovedInv, Apart
<1>8. TextInv'
  <2>1. text \in [Lines -> Seq(LineType)] /\ \A i \in Lines : Left(i)
    BY <1>1 DEF Holds, TextInv
  <2>2. \A i \in Lines : Left(i)'
    BY <1>1, <1>2, <1>5, <1>6, <2>1, LeftStays DEF Early
  <2> QED BY <1>1, <2>1, <2>2, Steady DEF TextInv
<1> QED BY <1>1, <1>2, <1>3, <1>4, <1>7, <1>8 DEF Holds

\* The variables of the body are collected once.
LEMMA BodySteady ==
    ASSUME BodyInv, function' = function, fncDecls' = fncDecls,
           {"recursiveVisit", "fnc_declVisit"} \cap {stage, stage'} = {}
    PROVE  BodyInv'
<1>1. Body' = Body /\ \A i \in Body : NamesIn(Original[i])' = NamesIn(Original[i])
  BY Steady DEF Body, Declares, Has
<1>2. NamesOf(fncDecls)' = NamesOf(fncDecls)
  BY DEF NamesOf
<1>3. /\ fncDecls \in Seq([name : Names, line : Body])
      /\ NamesOf(fncDecls) = UNION {NamesIn(Original[i]) : i \in Body}
      /\ fncDecls # <<>> => \A i \in Body :
            NamesIn(Original[i]) # {} => i <= fncDecls[Len(fncDecls)].line
  BY DEF BodyInv, Body
<1> QED BY <1>1, <1>2, <1>3, Steady DEF BodyInv, Body

\* How the loop over the lines goes on.
LEMMA NextLine ==
    ASSUME Holds, var_declVisit
    PROVE  /\ function \in Functions /\ at \in Lines
           /\ stage = "var_declVisit" /\ stage' \in {"var_declVisit", "insert_var_decl"}
           /\ function' = function /\ bare' = bare /\ fncDecls' = fncDecls
           /\ DOMAIN text' = DOMAIN text
           /\ LoopInv' /\ CompilesUnless' /\ BodyInv'
           /\ \A i \in Lines : Moved(i)' <=> Moved(i) \/ (i = at /\ Moves(Original[i]))
<1>1. /\ function \in Functions /\ stage = "var_declVisit" /\ at \in 1..Len(function.text)
      /\ Len(function.text) \in Nat /\ Lines = 1..Len(function.text)
      /\ DOMAIN text = Lines /\ bare \subseteq function.bare
  <2>1. function \in Functions /\ stage = "var_declVisit"
    BY DEF Holds, var_declVisit
  <2>2. at \in 1..Len(function.text) /\ DOMAIN text = Lines /\ bare \subseteq function.bare
    BY <2>1 DEF Holds, LoopInv
  <2>3. Len(function.text) \in Nat /\ Lines = 1..Len(function.text)
    BY <2>1, TheText DEF Original
  <2> QED BY <2>1, <2>2, <2>3
<1>2. function' = function /\ bare' = bare /\ fncDecls' = fncDecls
  BY DEF var_declVisit
<1>3. DOMAIN text' = DOMAIN text
  BY DEF var_declVisit
<1>4. \/ at < Len(function.text) /\ stage' = "var_declVisit" /\ at' = at + 1
      \/ at = Len(function.text) /\ stage' = "insert_var_decl" /\ at' = 1
  <2>1. Advance(Len(function.text), "insert_var_decl")
    BY DEF var_declVisit
  <2> QED BY <1>1, <2>1 DEF Advance
<1>5. LoopInv'
  <2>1. stage' = "var_declVisit" => at' \in 1..Len(function.text)
    BY <1>1, <1>4
  <2> QED BY <1>1, <1>2, <1>3, <1>4, <2>1, Steady DEF LoopInv, Stages
<1>6. CompilesUnless'
  BY <1>4 DEF CompilesUnless
<1>7. BodyInv'
  <2>1. {"recursiveVisit", "fnc_declVisit"} \cap {stage, stage'} = {}
    BY <1>1, <1>4
  <2> QED BY <1>2, <2>1, BodySteady DEF Holds
<1>8. ASSUME NEW i \in Lines
      PROVE  Moved(i)' <=> Moved(i) \/ (i = at /\ Moves(Original[i]))
  <2>1. Moved(i) <=> Moves(Original[i]) /\ i < at
    BY <1>1 DEF Moved
  <2>2. Moved(i)' <=> Moves(Original[i]) /\ (stage' = "var_declVisit" => i < at')
    BY <1>2, <1>4, Steady DEF Moved
  <2> QED BY <1>1, <1>4, <2>1, <2>2
<1> QED BY <1>1, <1>2, <1>3, <1>4, <1>5, <1>6, <1>7, <1>8

\* A line that stays.
LEMMA StaysHold ==
    ASSUME Holds, var_declVisit, ~Moves(Original[at])
    PROVE  Holds'
<1>1. text' = text /\ varDecls' = varDecls /\ var_suffix' = var_suffix
  BY DEF var_declVisit, Moves, Original
<1>2. \A i \in Lines : Moved(i)' <=> Moved(i)
  BY NextLine
<1>3. varDecls \in Seq(DeclType)
  BY DEF Holds, MovedInv
<1>4. MovedInv'
  <2>1. NamesOf(fncDecls)' = NamesOf(fncDecls) /\ NamesOf(varDecls)' = NamesOf(varDecls)
    BY <1>1, NextLine DEF NamesOf
  <2>2. Apart(varDecls, var_suffix)'
    BY <1>1, <2>1 DEF Holds, MovedInv, Apart
  <2>3. \A k \in DOMAIN varDecls', i \in Lines : OfLine(varDecls[k], i)' <=> OfLine(varDecls[k], i)
    BY <1>1, NextLine, Steady DEF OfLine
  <2> QED BY <1>1, <1>2, <2>2, <2>3, NextLine, Steady DEF Holds, MovedInv
<1>5. TextInv'
  <2>1. text \in [Lines -> Seq(LineType)] /\ \A i \in Lines : Left(i)
    BY NextLine DEF Holds, TextInv
  <2>2. \A i \in Lines : Left(i)'
    BY <1>1, <1>2, <1>3, <2>1, NextLine, LeftStays DEF Early
  <2> QED BY <1>1, <2>1, <2>2, NextLine, Steady DEF TextInv
<1> QED BY <1>4, <1>5, NextLine DEF Holds

\* What is left of a line that moves.
LEMMA MovesLeft ==
    ASSUME Holds, var_declVisit, Moves(Original[at]), NEW all,
           Hoisting(all, Len(Original[at].vars), at), varDecls' = all.decls,
           text' = [text EXCEPT ![at] = all.sets \o Garbled(Original[at])]
    PROVE  \A i \in Lines : i = at => text'[i] \in Seq(LineType) /\ Left(i)'
<1> DEFINE line == Original[at]
           garbled == Garbled(line)
           left == all.sets \o garbled
<1>1. function \in Functions /\ at \in Lines /\ function' = function /\ DOMAIN text = Lines
  BY NextLine DEF Holds, LoopInv
<1>2. text'[at] = left
  BY <1>1
<1>3. line \in LineType
  BY <1>1, TheNames
<1>4. garbled \in Seq(LineType) /\ \A e \in ToSet(garbled) : Has(line, "comment") /\ e.op = "garbage"
  <2> DEFINE g == [line EXCEPT !.op = "garbage"]
  <2>1. g \in LineType /\ g.op = "garbage"
    BY <1>3 DEF LineType
  <2>2. <<g>> \in Seq(LineType) /\ ToSet(<<g>>) = {g}
    BY <2>1, Singleton
  <2>3. garbled = IF Has(line, "comment") THEN <<g>> ELSE <<>>
    BY DEF Garbled
  <2>4. <<>> \in Seq(LineType) /\ ToSet(<<>>) = {}
    BY EmptyList
  <2> HIDE DEF g, garbled
  <2>5. CASE Has(line, "comment")
    BY <2>1, <2>2, <2>3, <2>5
  <2>6. CASE ~Has(line, "comment")
    BY <2>3, <2>4, <2>6
  <2> QED BY <2>5, <2>6
<1>5. Has(line, "comment") => garbled # <<>>
  BY DEF Garbled
<1> HIDE DEF garbled
<1>6. all.sets \in Seq(LineType) /\ \A e \in ToSet(all.sets) : Assigns(e, at, all.decls)
  BY DEF Hoisting, ToSet
<1>7. left \in Seq(LineType) /\ ToSet(left) = ToSet(all.sets) \cup ToSet(garbled)
  BY <1>4, <1>6, JoinHolds
<1> HIDE DEF left
<1>8. Has(line, "comment") => ToSet(garbled) # {}
  <2>1. garbled # <<>> => 1 \in DOMAIN garbled
    BY <1>4, LenProperties, EmptySeq
  <2> QED BY <1>5, <2>1 DEF ToSet
<1>9. Initialised(line) => ToSet(all.sets) # {}
  <2>1. Initialised(line) => \E q \in 1..Len(line.vars) : line.vars[q].init # NoInit
    BY <1>1, TheNames DEF Initialised
  <2>2. Initialised(line) => all.sets # <<>>
    BY <2>1 DEF Hoisting
  <2>3. all.sets # <<>> => 1 \in DOMAIN all.sets
    BY <1>6, LenProperties, EmptySeq
  <2> QED BY <2>2, <2>3 DEF ToSet
<1>10. \A e : Assigns(e, at, all.decls) => Assigns(e, at, varDecls') 
  OBVIOUS
<1>11. PICK i \in Lines : i = at
  BY <1>1
<1>12. /\ Original' = Original /\ \A e : Assigns(e, i, varDecls)' <=> Assigns(e, i, varDecls')
  BY <1>1, Steady DEF Assigns, OfLine
<1>13. \A e \in ToSet(left) : (Has(Original[i], "comment") /\ e.op = "garbage") \/ Assigns(e, i, varDecls)'
  BY <1>4, <1>6, <1>7, <1>10, <1>11, <1>12
<1>14. Has(Original[i], "comment") => \E e \in ToSet(left) : e.op = "garbage"
  BY <1>4, <1>7, <1>8, <1>11
<1>15. Initialised(Original[i]) => \E e \in ToSet(left) : Assigns(e, i, varDecls)'
  <2>1. ASSUME Initialised(Original[i]) PROVE \E e \in ToSet(left) : Assigns(e, i, varDecls)'
    <3>1. PICK e \in ToSet(all.sets) : TRUE
      BY <1>9, <1>11, <2>1
    <3> QED BY <1>6, <1>7, <1>10, <1>11, <1>12, <3>1
  <2> QED BY <2>1
<1>16. Moved(i)'
  BY <1>11, NextLine
<1>17. text'[i] = left
  BY <1>2, <1>11
<1>18. Left(i)'
  <2>1. \A j \in DOMAIN left : left[j] \in ToSet(left)
    BY DEF ToSet
  <2>2. \A j \in DOMAIN text'[i] : \/ Has(Original'[i], "comment") /\ text'[i][j].op = "garbage"
                                   \/ Assigns(text'[i][j], i, varDecls')
    BY <1>12, <1>13, <1>17, <2>1
  <2>3. Has(Original'[i], "comment") => \E j \in DOMAIN text'[i] : text'[i][j].op = "garbage"
    BY <1>12, <1>14, <1>17 DEF ToSet
  <2>4. Initialised(Original'[i]) => \E j \in DOMAIN text'[i] : Assigns(text'[i][j], i, varDecls')
    BY <1>12, <1>15, <1>17 DEF ToSet
  <2>5. \A j : Assigns(text[i][j], i, varDecls)' <=> Assigns(text'[i][j], i, varDecls')
    BY <1>12 DEF Assigns, OfLine
  <2> QED BY <1>16, <2>2, <2>3, <2>4, <2>5 DEF Left
<1>19. \A j \in Lines : j = at => j = i
  BY <1>11
<1> QED BY <1>7, <1>17, <1>18, <1>19

\* A line that moves.
LEMMA MovesHold ==
    ASSUME Holds, var_declVisit, Moves(Original[at])
    PROVE  Holds'
<1>1. /\ function \in Functions /\ at \in Lines /\ function' = function /\ fncDecls' = fncDecls
      /\ DOMAIN text = Lines
  BY NextLine DEF Holds, LoopInv
<1>2. PICK all : /\ Hoisting(all, Len(Original[at].vars), at)
                 /\ varDecls' = all.decls /\ var_suffix' = all.suffix
                 /\ text' = [text EXCEPT ![at] = all.sets \o Garbled(Original[at])]
  BY <1>1, var_declVisitMoves DEF Holds
<1>3. PICK h \in Lines : h = at
  BY <1>1
<1>4. varDecls \in Seq(DeclType) /\ DOMAIN varDecls = 1..Len(varDecls) /\ Len(varDecls) \in Nat
  BY LenProperties DEF Holds, MovedInv
<1>5. /\ varDecls' \in Seq(DeclType) /\ var_suffix' \in Nat \ {0}
      /\ DOMAIN varDecls' = 1..Len(varDecls') /\ Len(varDecls') \in Nat
  BY <1>2, LenProperties DEF Hoisting
<1>6. \A k \in DOMAIN varDecls : k \in DOMAIN varDecls' /\ varDecls'[k] = varDecls[k]
  BY <1>2, <1>4, <1>5 DEF Hoisting
<1>7. \A i \in Lines : Moved(i)' <=> Moved(i) \/ (i = h /\ Moves(Original[i]))
  BY <1>3, NextLine
<1>8. MovedInv'
  <2>1. Apart(varDecls, var_suffix)'
    <3>1. Apart(all.decls, all.suffix)
      BY <1>2 DEF Hoisting
    <3> QED BY <1>1, <1>2, <3>1 DEF Apart, NamesOf
  <2>2. \A d, i : i \in Lines => (OfLine(d, i)' <=> OfLine(d, i))
    BY <1>1, Steady DEF OfLine
  <2>3. ASSUME NEW k \in DOMAIN varDecls'
        PROVE  \E i \in Lines : Moved(i)' /\ OfLine(varDecls'[k], i)
    <3>1. CASE k \in DOMAIN varDecls
      <4>1. PICK i \in Lines : Moved(i) /\ OfLine(varDecls[k], i)
        BY <3>1 DEF Holds, MovedInv
      <4> QED BY <1>6, <1>7, <3>1, <4>1
    <3>2. CASE k \notin DOMAIN varDecls
      <4>1. k > Len(varDecls)
        BY <1>4, <1>5, <3>2
      <4>2. OfLine(varDecls'[k], h)
        BY <1>2, <1>3, <4>1 DEF Hoisting
      <4> QED BY <1>3, <1>7, <4>2
    <3> QED BY <3>1, <3>2
  <2>4. ASSUME NEW i \in Lines, Moved(i)', NEW n \in NamesIn(Original[i])
        PROVE  \E k \in DOMAIN varDecls' : OfLine(varDecls'[k], i) /\ varDecls'[k].old = n
    <3>1. CASE Moved(i)
      <4>1. PICK k \in DOMAIN varDecls : OfLine(varDecls[k], i) /\ varDecls[k].old = n
        BY <3>1 DEF Holds, MovedInv
      <4> QED BY <1>6, <4>1
    <3>2. CASE i = h
      <4>1. PICK q \in 1..Len(Original[i].vars) : n = Original[i].vars[q].name
        BY <1>1, TheNames DEF NamesIn
      <4> QED BY <1>2, <1>3, <3>2, <4>1 DEF Hoisting
    <3> QED BY <1>7, <2>4, <3>1, <3>2
  <2>5. \A k \in DOMAIN varDecls' : \E i \in Lines' : Moved(i)' /\ OfLine(varDecls[k], i)'
    <3>1. \A k, i : i \in Lines => (OfLine(varDecls[k], i)' <=> OfLine(varDecls'[k], i))
      BY <1>1, Steady DEF OfLine
    <3> QED BY <1>1, <2>3, <3>1, Steady
  <2>6. \A i \in Lines' : Moved(i)' => \A n \in NamesIn(Original[i])' :
           \E k \in DOMAIN varDecls' : OfLine(varDecls[k], i)' /\ varDecls'[k].old = n
    <3>1. \A k, i : i \in Lines => (OfLine(varDecls[k], i)' <=> OfLine(varDecls'[k], i))
      BY <1>1, Steady DEF OfLine
    <3> QED BY <1>1, <2>4, <3>1, Steady
  <2> QED BY <1>5, <2>1, <2>5, <2>6 DEF MovedInv
<1>9. TextInv'
  <2>1. text \in [Lines -> Seq(LineType)] /\ \A i \in Lines : Left(i)
    BY NextLine DEF Holds, TextInv
  <2>2. text'[h] \in Seq(LineType) /\ Left(h)'
    BY <1>2, <1>3, MovesLeft
  <2>3. \A i \in Lines : i # h => text'[i] = text[i]
    BY <1>1, <1>2, <1>3
  <2>4. \A i \in Lines : i # h => Left(i)'
    BY <1>4, <1>5, <1>6, <1>7, <2>1, <2>3, NextLine, LeftStays DEF Early
  <2>5. text' \in [Lines -> Seq(LineType)]
    <3>1. text' = [i \in Lines |-> text'[i]]
      BY <1>1, <1>2, <2>1
    <3> QED BY <2>1, <2>2, <2>3, <3>1
  <2> QED BY <1>1, <2>2, <2>4, <2>5, Steady DEF TextInv
<1> QED BY <1>8, <1>9, NextLine DEF Holds

\* The declarations of what has moved are inserted behind the head.
LEMMA InsertHolds ==
    ASSUME Holds, insert_var_decl
    PROVE  Holds' /\ CompilesUnless'
<1> DEFINE more == [k \in DOMAIN varDecls |-> Declaration(varDecls[k].name, varDecls[k].flags)]
<1>1. /\ function \in Functions /\ stage = "insert_var_decl" /\ at = 1
      /\ stage' = "replace_duplicate_vars" /\ at' = 1
      /\ function' = function /\ bare' = bare /\ fncDecls' = fncDecls
      /\ varDecls' = varDecls /\ var_suffix' = var_suffix
      /\ DOMAIN text = Lines /\ 1 \in Lines
      /\ text' = [text EXCEPT ![1] = @ \o more]
  BY TheText DEF Holds, LoopInv, insert_var_decl, Advance
<1>2. /\ varDecls \in Seq(DeclType) /\ DOMAIN varDecls = 1..Len(varDecls) /\ Len(varDecls) \in Nat
  BY LenProperties DEF Holds, MovedInv
<1>3. LoopInv' /\ CompilesUnless'
  BY <1>1, Steady DEF Holds, LoopInv, CompilesUnless, Stages
<1>4. BodyInv'
  BY <1>1, BodySteady DEF Holds
<1>5. \A i \in Lines : Moved(i)' <=> Moved(i)
  BY <1>1, Steady DEF Moved
<1>6. MovedInv'
  <2>1. NamesOf(fncDecls)' = NamesOf(fncDecls) /\ NamesOf(varDecls)' = NamesOf(varDecls)
    BY <1>1 DEF NamesOf
  <2>2. Apart(varDecls, var_suffix)'
    BY <1>1, <2>1 DEF Holds, MovedInv, Apart
  <2>3. \A k \in DOMAIN varDecls', i \in Lines : OfLine(varDecls[k], i)' <=> OfLine(varDecls[k], i)
    BY <1>1, Steady DEF OfLine
  <2> QED BY <1>1, <1>5, <2>2, <2>3, Steady DEF Holds, MovedInv
<1>7. text \in [Lines -> Seq(LineType)] /\ \A i \in Lines : Left(i)
  BY <1>1 DEF Holds, TextInv
<1>8. more \in Seq(LineType) /\ Len(more) = Len(varDecls)
  <2>1. ASSUME NEW k \in DOMAIN varDecls PROVE Declaration(varDecls[k].name, varDecls[k].flags) \in LineType
    <3>1. varDecls[k] \in DeclType
      BY <1>2, ElementOfSeq
    <3>2. varDecls[k].name \in Names /\ varDecls[k].flags \in SUBSET Kept
      BY <3>1 DEF DeclType
    <3>3. Kept \subseteq Flags
      BY DEF Flags, Kept
    <3>4. varDecls[k].flags \in SUBSET Flags
      BY <3>2, <3>3
    <3>5. <<[name |-> varDecls[k].name, ctx |-> "word", init |-> NoInit]>> \in Seq(VarType)
      BY <3>2 DEF VarType
    <3>6. <<>> \in Seq(Nat)
      OBVIOUS
    <3> QED BY <3>4, <3>5, <3>6 DEF Declaration, LineType
  <2>2. more \in [1..Len(varDecls) -> LineType]
    BY <1>2, <2>1
  <2>3. more \in Seq(LineType)
    BY <1>2, <2>2, SeqDef
  <2> QED BY <1>2, <2>2, <2>3, LenProperties
<1>9. \A k \in DOMAIN varDecls : more[k] = Declaration(varDecls[k].name, varDecls[k].flags)
  OBVIOUS
<1> HIDE DEF more
<1>10. text'[1] \in Seq(LineType) /\ Left(1)'
  <2>1. text'[1] = text[1] \o more /\ text[1] \in Seq(LineType)
    BY <1>1, <1>7
  <2>2. ~Moved(1) /\ ~Moved(1)'
    BY <1>1, <1>5, TheText DEF Moved, Moves, Declares, Has
  <2>3. Version(text[1][1], 1, 0) /\ Len(text[1]) = 1
    BY <1>1, <1>7, <2>2 DEF Left, Turns
  <2>4. /\ text'[1] \in Seq(LineType) /\ Len(text'[1]) = 1 + Len(varDecls)
        /\ \A p \in 1..(1 + Len(varDecls)) : text'[1][p] = IF p <= 1 THEN text[1][p] ELSE more[p - 1]
    <3>1. PICK line \in Seq(LineType) : line = text[1] /\ Len(line) = 1
      BY <2>1, <2>3
    <3>2. /\ line \o more \in Seq(LineType) /\ Len(line \o more) = Len(line) + Len(more)
          /\ \A p \in 1..Len(line) + Len(more) :
                (line \o more)[p] = IF p <= Len(line) THEN line[p] ELSE more[p - Len(line)]
      BY <1>8, ConcatProperties
    <3> QED BY <1>8, <2>1, <3>1, <3>2
  <2>5. text'[1][1] = text[1][1]
    BY <1>2, <2>4
  <2>6. \A k \in DOMAIN varDecls : text'[1][k + 1] = more[k]
    <3>1. \A k \in DOMAIN varDecls :
             k + 1 \in 1..(1 + Len(varDecls)) /\ ~(k + 1 <= 1) /\ (k + 1) - 1 = k
      BY <1>2
    <3> QED BY <2>4, <3>1
  <2>7. Version(text[1][1], 1, Turns)'
    <3>1. PICK line : line = text[1][1]
      OBVIOUS
    <3>2. line = text'[1][1] /\ Turns' = 0
      <4>1. Turns' = 1 - 1
        BY <1>1 DEF Turns
      <4> QED BY <2>5, <3>1, <4>1
    <3>3. Version(line, 1, 0)'
      BY <1>1, <1>2, <2>3, <3>1, VersionStays
    <3> QED BY <3>2, <3>3 DEF Version
  <2>8. Len(text'[1]) = Len(varDecls') + 1
    BY <1>1, <1>2, <2>4
  <2>9. \A k \in DOMAIN varDecls' : text'[1][k + 1] = Declaration(varDecls'[k].name, varDecls'[k].flags)
    BY <1>1, <1>9, <2>6
  <2> QED BY <1>1, <2>2, <2>4, <2>7, <2>8, <2>9 DEF Left
<1>11. \A i \in Lines : i # 1 => text'[i] = text[i]
  BY <1>1
<1>12. \A i \in Lines : i # 1 => Left(i)'
  BY <1>1, <1>2, <1>5, <1>7, <1>11, LeftStays DEF Early
<1>13. TextInv'
  <2>1. text' = [i \in Lines |-> text'[i]]
    BY <1>1
  <2>2. text' \in [Lines -> Seq(LineType)]
    BY <1>7, <1>10, <1>11, <2>1
  <2> QED BY <1>1, <1>10, <1>12, <2>2, Steady DEF TextInv
<1> QED BY <1>1, <1>3, <1>4, <1>6, <1>13 DEF Holds

-----------------------------------------------------------------------------
(* Renaming. *)

\* What a variable that moves is, and was.
LEMMA MovedVariable ==
    ASSUME function \in Functions, MovedInv, NEW k \in DOMAIN varDecls
    PROVE  /\ varDecls[k] \in DeclType /\ varDecls[k].old \in Name \X {0}
           /\ varDecls[k].name \in Names /\ varDecls[k].blk \in Seq(Nat)
           /\ varDecls[k].name # varDecls[k].old => varDecls[k].name \notin Name \X {0}
           /\ varDecls[k].blk # <<>>
<1>1. varDecls \in Seq(DeclType) /\ Apart(varDecls, var_suffix) /\ var_suffix \in Nat \ {0}
  BY DEF MovedInv
<1>2. varDecls[k] \in DeclType
  BY <1>1, LenProperties, ElementOfSeq
<1>3. ASSUME varDecls[k].name # varDecls[k].old PROVE varDecls[k].name \notin Name \X {0}
  <2>1. PICK s \in 1..(var_suffix - 1) : varDecls[k].name = <<varDecls[k].old[1], s>>
    BY <1>1, <1>3, ApartEach
  <2>2. s # 0
    BY <1>1
  <2> QED BY <2>1, <2>2
<1>4. varDecls[k].blk # <<>>
  <2>1. PICK i \in Lines : Moved(i) /\ OfLine(varDecls[k], i)
    BY DEF MovedInv
  <2> QED BY <2>1 DEF Moved, Moves, OfLine
<1> QED BY <1>2, <1>3, <1>4 DEF DeclType

\* What a renaming does with a line.
LEMMA Replaces ==
    ASSUME NEW line \in LineType, NEW old \in Names, NEW new \in Names
    PROVE  LET next == replace_variable(line, old, new)
           IN  /\ next \in LineType /\ next.op = line.op /\ next.blk = line.blk
               /\ next.flags = line.flags /\ next.mark = line.mark
               /\ line.mark => next = line
               /\ DOMAIN next.vars = DOMAIN line.vars
               /\ \A q \in DOMAIN line.vars :
                     /\ next.vars[q].ctx = line.vars[q].ctx
                     /\ ~line.mark => next.vars[q].name =
                           IF line.vars[q].name = old /\ line.vars[q].ctx = "plain"
                           THEN new ELSE line.vars[q].name
                     /\ ~line.mark => next.vars[q].init =
                           IF line.vars[q].init = old THEN new ELSE line.vars[q].init
<1> DEFINE vs == [q \in DOMAIN line.vars |->
                     [line.vars[q] EXCEPT
                         !.name = IF @ = old /\ is_valid_variable(line.vars[q]) THEN new ELSE @,
                         !.init = IF @ = old THEN new ELSE @]]
<1>1. CASE line.mark
  BY <1>1 DEF replace_variable
<1>2. CASE ~line.mark
  <2>1. replace_variable(line, old, new) = [line EXCEPT !.vars = vs]
    BY <1>2 DEF replace_variable
  <2>2. line.vars \in Seq(VarType)
    BY DEF LineType
  <2>3. /\ DOMAIN line.vars = 1..Len(line.vars) /\ Len(line.vars) \in Nat
        /\ \A q \in DOMAIN line.vars : line.vars[q] \in VarType
    BY <2>2, LenProperties, ElementOfSeq
  <2>4. ASSUME NEW q \in DOMAIN line.vars
        PROVE  /\ vs[q] \in VarType /\ vs[q].ctx = line.vars[q].ctx
               /\ vs[q].name = IF line.vars[q].name = old /\ line.vars[q].ctx = "plain"
                               THEN new ELSE line.vars[q].name
               /\ vs[q].init = IF line.vars[q].init = old THEN new ELSE line.vars[q].init
    BY <2>3 DEF VarType, is_valid_variable
  <2>5. DOMAIN vs = DOMAIN line.vars
    OBVIOUS
  <2>6. vs \in Seq(VarType)
    <3>1. vs \in [1..Len(line.vars) -> VarType]
      <4>1. vs = [q \in DOMAIN line.vars |-> vs[q]]
        OBVIOUS
      <4> HIDE DEF vs
      <4> QED BY <2>3, <2>4, <4>1
    <3> HIDE DEF vs
    <3> QED BY <2>3, <3>1, SeqDef
  <2> HIDE DEF vs
  <2>7. /\ [line EXCEPT !.vars = vs] \in LineType
        /\ [line EXCEPT !.vars = vs].vars = vs /\ [line EXCEPT !.vars = vs].op = line.op
        /\ [line EXCEPT !.vars = vs].blk = line.blk /\ [line EXCEPT !.vars = vs].flags = line.flags
        /\ [line EXCEPT !.vars = vs].mark = line.mark
    BY <2>6 DEF LineType
  <2> QED BY <1>2, <2>1, <2>4, <2>5, <2>7
<1> QED BY <1>1, <1>2

\* What is said of a variable of line i when n renamings have been made.
LEMMA VersionEach ==
    ASSUME NEW i \in Lines, NEW n, NEW line, Version(line, i, n), NEW q \in DOMAIN line.vars
    PROVE  /\ line.vars[q].ctx = Original[i].vars[q].ctx
           /\ \/ line.vars[q].name = Original[i].vars[q].name
              \/ /\ line.vars[q].name \in Renewals(n, Original[i].vars[q].name, line.blk)
                 /\ Original[i].vars[q].ctx = "plain"
           /\ \/ line.vars[q].init = Original[i].vars[q].init
              \/ line.vars[q].init \in Renewals(n, Original[i].vars[q].init, line.blk)
           /\ Original[i].vars[q].ctx = "plain" =>
                 \A k \in DOMAIN varDecls :
                    k <= n /\ Enclosing(k) = {}
                    /\ Renames(k, Original[i].vars[q].name, line.blk) =>
                        line.vars[q].name # Original[i].vars[q].name
BY DEF Version

\* One renaming more makes more of a name.
LEMMA MoreRenewals ==
    ASSUME NEW n \in DOMAIN varDecls, varDecls \in Seq(DeclType), NEW old, NEW blk
    PROVE  /\ Renewals(n - 1, old, blk) \subseteq Renewals(n, old, blk)
           /\ Renames(n, old, blk) => varDecls[n].name \in Renewals(n, old, blk)
           /\ \A k \in DOMAIN varDecls : k <= n => k <= n - 1 \/ k = n
<1>1. DOMAIN varDecls = 1..Len(varDecls) /\ Len(varDecls) \in Nat
  BY LenProperties
<1>2. \A k \in DOMAIN varDecls : (k <= n - 1 => k <= n) /\ (k <= n => k <= n - 1 \/ k = n)
  BY <1>1
<1>3. n <= n
  BY <1>1
<1> QED BY <1>2, <1>3 DEF Renewals

\* A variable that keeps its name is not replaced.
LEMMA VersionSkips ==
    ASSUME NEW i \in Lines, NEW n \in DOMAIN varDecls, NEW line, Version(line, i, n - 1),
           varDecls \in Seq(DeclType), ~Renaming(n)
    PROVE  Version(line, i, n)
<1>1. \A k \in DOMAIN varDecls : k <= n => k <= n - 1 \/ k = n
  BY MoreRenewals
<1>2. \A old, blk : ~Renames(n, old, blk)
  BY DEF Renames
<1>3. \A old, blk : Renewals(n - 1, old, blk) \subseteq Renewals(n, old, blk)
  BY MoreRenewals
<1>4. ASSUME NEW q \in DOMAIN line.vars, Original[i].vars[q].ctx = "plain",
             NEW k \in DOMAIN varDecls, k <= n, Enclosing(k) = {},
             Renames(k, Original[i].vars[q].name, line.blk)
      PROVE  line.vars[q].name # Original[i].vars[q].name
  <2>1. k <= n - 1
    BY <1>1, <1>2, <1>4
  <2> QED BY <1>4, <2>1, VersionEach
<1>5. \A q \in DOMAIN line.vars :
         /\ line.vars[q].ctx = Original[i].vars[q].ctx
         /\ \/ line.vars[q].name = Original[i].vars[q].name
            \/ /\ line.vars[q].name \in Renewals(n, Original[i].vars[q].name, line.blk)
               /\ Original[i].vars[q].ctx = "plain"
         /\ \/ line.vars[q].init = Original[i].vars[q].init
            \/ line.vars[q].init \in Renewals(n, Original[i].vars[q].init, line.blk)
  BY <1>3, VersionEach
<1> QED BY <1>4, <1>5 DEF Version

\* What a line was renamed to before is no name that is replaced.
LEMMA VersionRenames ==
    ASSUME function \in Functions, MovedInv, NEW i \in Lines, NEW n \in DOMAIN varDecls,
           NEW line \in LineType, Version(line, i, n - 1), Renaming(n),
           NEW b \in BOOLEAN, b => Reaches(n, line.blk),
           Enclosing(n) = {} /\ Reaches(n, line.blk) => b,
           NEW next, next = IF b THEN replace_variable(line, varDecls[n].old, varDecls[n].name)
                            ELSE line
    PROVE  Version(next, i, n)
<1> DEFINE old == varDecls[n].old
           new == varDecls[n].name
<1>1. old \in Name \X {0} /\ old \in Names /\ new \in Names /\ new # old
  <2>1. Name \X {0} \subseteq Names
    BY DEF Names
  <2> QED BY <2>1, MovedVariable DEF Renaming
<1>2. varDecls \in Seq(DeclType)
  BY DEF MovedInv
<1>3. ~line.mark
  BY DEF Version
<1>4. /\ next.op = line.op /\ next.blk = line.blk /\ next.flags = line.flags /\ ~next.mark
      /\ DOMAIN next.vars = DOMAIN line.vars
      /\ \A q \in DOMAIN line.vars :
            /\ next.vars[q].ctx = line.vars[q].ctx
            /\ next.vars[q].name =
                  IF b /\ line.vars[q].name = old /\ line.vars[q].ctx = "plain"
                  THEN new ELSE line.vars[q].name
            /\ next.vars[q].init =
                  IF b /\ line.vars[q].init = old THEN new ELSE line.vars[q].init
  <2>1. CASE b
    BY <1>1, <1>3, <2>1, Replaces
  <2>2. CASE ~b
    BY <1>3, <2>2
  <2> QED BY <2>1, <2>2
<1>5. /\ \A m, blk : Renewals(n - 1, m, blk) \subseteq Renewals(n, m, blk)
      /\ \A m, blk : Renames(n, m, blk) => new \in Renewals(n, m, blk)
      /\ \A k \in DOMAIN varDecls : k <= n => k <= n - 1 \/ k = n
  BY <1>2, MoreRenewals
<1>6. \A m, blk : Renames(n, m, blk) <=> m = old /\ Reaches(n, blk)
  BY DEF Renames
<1>7. \A m : old \notin Renewals(n - 1, m, line.blk)
  <2>1. \A k \in DOMAIN varDecls : Renaming(k) => varDecls[k].name \notin Name \X {0}
    BY MovedVariable DEF Renaming
  <2> HIDE DEF old
  <2> QED BY <1>1, <2>1 DEF Renewals, Renames
<1> HIDE DEF old, new
<1>8. ASSUME NEW q \in DOMAIN line.vars
      PROVE  /\ next.vars[q].ctx = Original[i].vars[q].ctx
             /\ \/ next.vars[q].name = Original[i].vars[q].name
                \/ /\ next.vars[q].name \in Renewals(n, Original[i].vars[q].name, line.blk)
                   /\ Original[i].vars[q].ctx = "plain"
             /\ \/ next.vars[q].init = Original[i].vars[q].init
                \/ next.vars[q].init \in Renewals(n, Original[i].vars[q].init, line.blk)
             /\ Original[i].vars[q].ctx = "plain" =>
                   \A k \in DOMAIN varDecls :
                      k <= n /\ Enclosing(k) = {}
                      /\ Renames(k, Original[i].vars[q].name, line.blk) =>
                          next.vars[q].name # Original[i].vars[q].name
  <2> DEFINE was == Original[i].vars[q]
  <2>1. /\ line.vars[q].ctx = was.ctx
        /\ \/ line.vars[q].name = was.name
           \/ line.vars[q].name \in Renewals(n - 1, was.name, line.blk) /\ was.ctx = "plain"
        /\ \/ line.vars[q].init = was.init
           \/ line.vars[q].init \in Renewals(n - 1, was.init, line.blk)
        /\ was.ctx = "plain" =>
              \A k \in DOMAIN varDecls :
                 k <= n - 1 /\ Enclosing(k) = {} /\ Renames(k, was.name, line.blk) =>
                     line.vars[q].name # was.name
    BY VersionEach
  <2> HIDE DEF was
  <2>2. \/ next.vars[q].name = was.name
        \/ next.vars[q].name \in Renewals(n, was.name, line.blk) /\ was.ctx = "plain"
    <3>1. CASE b /\ line.vars[q].name = old /\ line.vars[q].ctx = "plain"
      BY <1>4, <1>5, <1>6, <1>7, <2>1, <3>1
    <3>2. CASE ~(b /\ line.vars[q].name = old /\ line.vars[q].ctx = "plain")
      BY <1>4, <1>5, <2>1, <3>2
    <3> QED BY <3>1, <3>2
  <2>3. \/ next.vars[q].init = was.init
        \/ next.vars[q].init \in Renewals(n, was.init, line.blk)
    <3>1. CASE b /\ line.vars[q].init = old
      BY <1>4, <1>5, <1>6, <1>7, <2>1, <3>1
    <3>2. CASE ~(b /\ line.vars[q].init = old)
      BY <1>4, <1>5, <2>1, <3>2
    <3> QED BY <3>1, <3>2
  <2>4. ASSUME was.ctx = "plain", NEW k \in DOMAIN varDecls, k <= n, Enclosing(k) = {},
               Renames(k, was.name, line.blk)
        PROVE  next.vars[q].name # was.name
    <3>1. CASE b /\ line.vars[q].name = old
      <4>1. next.vars[q].name = new /\ was.name = old
        BY <1>4, <1>7, <2>1, <2>4, <3>1
      <4> QED BY <1>1, <4>1 DEF old, new
    <3>2. CASE ~(b /\ line.vars[q].name = old)
      <4>1. next.vars[q].name = line.vars[q].name
        BY <1>4, <3>2
      <4>2. k = n => b /\ was.name = old
        BY <1>6, <2>4
      <4>3. k = n \/ k <= n - 1
        BY <1>5, <2>4
      <4> QED BY <2>1, <2>4, <3>2, <4>1, <4>2, <4>3
    <3> QED BY <3>1, <3>2
  <2> QED BY <1>4, <2>1, <2>2, <2>3, <2>4 DEF was
<1>9. /\ line.op = Original[i].op /\ line.blk = Original[i].blk
      /\ line.flags = Original[i].flags /\ DOMAIN line.vars = DOMAIN Original[i].vars
  BY DEF Version
<1> QED BY <1>4, <1>8, <1>9 DEF Version

\* How the loop over the variables goes on.
LEMMA NextVariable ==
    ASSUME Holds, replace_duplicate_vars
    PROVE  /\ function \in Functions /\ stage = "replace_duplicate_vars"
           /\ stage' \in {"replace_duplicate_vars", "seperate_decl_init"}
           /\ function' = function /\ bare' = bare /\ fncDecls' = fncDecls
           /\ varDecls' = varDecls /\ var_suffix' = var_suffix
           /\ LoopInv' /\ CompilesUnless' /\ BodyInv' /\ MovedInv'
           /\ \A i \in Lines : Moved(i)' <=> Moved(i)
           /\ at \in Nat /\ Turns = at - 1
           /\ varDecls # <<>> => at \in DOMAIN varDecls /\ Turns' = at
           /\ varDecls = <<>> => Turns = 0 /\ Turns' = 0
<1>1. /\ function \in Functions /\ stage = "replace_duplicate_vars"
      /\ at = 1 \/ at \in 1..Len(varDecls)
      /\ function' = function /\ bare' = bare /\ fncDecls' = fncDecls
      /\ varDecls' = varDecls /\ var_suffix' = var_suffix
  <2>1. stage = "replace_duplicate_vars"
    BY DEF replace_duplicate_vars
  <2>2. at = 1 \/ at \in 1..Len(varDecls)
    BY <2>1 DEF Holds, LoopInv
  <2> QED BY <2>1, <2>2 DEF Holds, replace_duplicate_vars
<1>2. /\ varDecls \in Seq(DeclType) /\ DOMAIN varDecls = 1..Len(varDecls) /\ Len(varDecls) \in Nat
      /\ varDecls # <<>> => Len(varDecls) # 0
  BY LenProperties, EmptySeq DEF Holds, MovedInv
<1>3. \/ at < Len(varDecls) /\ stage' = "replace_duplicate_vars" /\ at' = at + 1
      \/ ~(at < Len(varDecls)) /\ stage' = "seperate_decl_init" /\ at' = 1
  <2>1. Advance(Len(varDecls), "seperate_decl_init")
    BY DEF replace_duplicate_vars
  <2> QED BY <1>1, <2>1 DEF Advance
<1>4. at \in Nat /\ Turns = at - 1
  BY <1>1, <1>2 DEF Turns
<1>5. varDecls # <<>> => at \in DOMAIN varDecls /\ Turns' = at
  <2>1. ASSUME varDecls # <<>> PROVE at \in 1..Len(varDecls)
    BY <1>1, <1>2, <2>1
  <2>2. CASE at < Len(varDecls)
    <3>1. Turns' = at' - 1 /\ at' = at + 1
      BY <1>3, <2>2 DEF Turns
    <3>2. Turns' = at
      BY <1>4, <3>1
    <3> QED BY <1>2, <2>1, <3>2
  <2>3. CASE ~(at < Len(varDecls))
    <3>1. Turns' = Len(varDecls)
      BY <1>1, <1>3, <2>3 DEF Turns
    <3> QED BY <1>2, <2>1, <2>3, <3>1
  <2> QED BY <2>2, <2>3
<1>6. varDecls = <<>> => Turns = 0 /\ Turns' = 0
  <2>1. ASSUME varDecls = <<>> PROVE Turns = 0 /\ Turns' = 0
    <3>1. Len(varDecls) = 0 /\ at = 1
      BY <1>1, <1>2, <2>1
    <3>2. stage' = "seperate_decl_init"
      BY <1>3, <3>1
    <3>3. Turns' = Len(varDecls)
      BY <1>1, <3>2 DEF Turns
    <3> QED BY <1>4, <3>1, <3>3
  <2> QED BY <2>1
<1>7. LoopInv'
  <2>1. DOMAIN text' = Lines
    BY DEF Holds, LoopInv, replace_duplicate_vars
  <2>2. bare \subseteq function.bare
    BY DEF Holds, LoopInv
  <2>3. stage' = "replace_duplicate_vars" => at' = 1 \/ at' \in 1..Len(varDecls)
    BY <1>1, <1>2, <1>3, <1>4
  <2> QED BY <1>1, <1>3, <2>1, <2>2, <2>3, Steady DEF LoopInv, Stages
<1>8. CompilesUnless'
  BY <1>3 DEF CompilesUnless
<1>9. BodyInv'
  <2>1. {"recursiveVisit", "fnc_declVisit"} \cap {stage, stage'} = {}
    BY <1>1, <1>3
  <2> QED BY <1>1, <2>1, BodySteady DEF Holds
<1>10. \A i \in Lines : Moved(i)' <=> Moved(i)
  BY <1>1, <1>3, Steady DEF Moved
<1>11. MovedInv'
  <2>1. NamesOf(fncDecls)' = NamesOf(fncDecls) /\ NamesOf(varDecls)' = NamesOf(varDecls)
    BY <1>1 DEF NamesOf
  <2>2. Apart(varDecls, var_suffix)'
    BY <1>1, <2>1 DEF Holds, MovedInv, Apart
  <2>3. \A k \in DOMAIN varDecls', i \in Lines : OfLine(varDecls[k], i)' <=> OfLine(varDecls[k], i)
    BY <1>1, Steady DEF OfLine
  <2> QED BY <1>1, <1>10, <2>2, <2>3, Steady DEF Holds, MovedInv
<1> QED BY <1>1, <1>3, <1>4, <1>5, <1>6, <1>7, <1>8, <1>9, <1>10, <1>11

\* The lines that a renaming replaces.
LEMMA WindowLines ==
    ASSUME NEW k \in DOMAIN varDecls, NEW window \in Windows(k)
    PROVE  /\ \A i \in window : i \in Lines /\ Reaches(k, Original[i].blk)
           /\ Enclosing(k) = {} => \A i \in Lines : Reaches(k, Original[i].blk) => i \in window
<1> DEFINE Block(l) == {i \in Lines : InParent(varDecls[l], Original[i].blk)}
<1>1. window \in (IF Enclosing(k) = {} THEN {Block(k)}
                  ELSE {Block(l) \cap (from..to) : l \in Enclosing(k), from \in Lines, to \in Lines})
  BY DEF Windows, Original
<1>2. CASE Enclosing(k) = {}
  <2>1. window = Block(k)
    BY <1>1, <1>2
  <2> QED BY <1>2, <2>1 DEF Reaches
<1>3. CASE Enclosing(k) # {}
  <2>1. window \in {Block(l) \cap (from..to) : l \in Enclosing(k), from \in Lines, to \in Lines}
    BY <1>1, <1>3
  <2>2. PICK l \in Enclosing(k) : window \subseteq Block(l)
    <3> HIDE DEF Block
    <3> QED BY <2>1
  <2> QED BY <1>3, <2>2 DEF Reaches
<1> QED BY <1>2, <1>3

\* No line of the body is among them.
LEMMA BodyBeyond ==
    ASSUME function \in Functions, MovedInv, NEW k \in DOMAIN varDecls
    PROVE  ~Reaches(k, <<>>)
<1>1. varDecls \in Seq(DeclType)
  BY DEF MovedInv
<1>2. DOMAIN varDecls = 1..Len(varDecls) /\ Len(varDecls) \in Nat
  BY <1>1, LenProperties
<1>3. \A l \in DOMAIN varDecls : ~InParent(varDecls[l], <<>>)
  BY MovedVariable, PrefixBody DEF InParent
<1>4. \A l \in Enclosing(k) : l \in DOMAIN varDecls
  BY <1>2 DEF Enclosing
<1> QED BY <1>3, <1>4 DEF Reaches

\* There is a variable to rename.
Replacing == varDecls # <<>> /\ Renaming(at)

\* What becomes of one line.
Renewed(line, within) ==
    IF Replacing /\ within THEN replace_variable(line, varDecls[at].old, varDecls[at].name) ELSE line

\* Every line is rewritten on its own.
LEMMA RowsRenamed ==
    ASSUME Holds, replace_duplicate_vars
    PROVE  /\ text \in [Lines -> Seq(LineType)] /\ text' \in [Lines -> Seq(LineType)]
           /\ \A i \in Lines : /\ DOMAIN text'[i] = DOMAIN text[i] /\ Len(text'[i]) = Len(text[i])
                               /\ \A j \in DOMAIN text[i] : text[i][j] \in LineType
           /\ \E window \in SUBSET Lines :
                 /\ Replacing => window \in Windows(at)
                 /\ \A i \in Lines : \A j \in DOMAIN text[i] :
                       text'[i][j] = Renewed(text[i][j], i \in window)
<1>1. text \in [Lines -> Seq(LineType)]
  BY NextVariable DEF Holds, TextInv
<1>2. \A i \in Lines : /\ text[i] \in Seq(LineType) /\ Len(text[i]) \in Nat
                       /\ DOMAIN text[i] = 1..Len(text[i])
                       /\ \A j \in DOMAIN text[i] : text[i][j] \in LineType
  BY <1>1, LenProperties, ElementOfSeq
<1>3. CASE Replacing
  <2>1. at \in DOMAIN varDecls /\ MovedInv /\ function \in Functions
    BY <1>3, NextVariable DEF Replacing, Holds
  <2>2. PICK window \in Windows(at) :
           text' = [i \in Lines |->
                  IF i \in window
                  THEN [j \in DOMAIN text[i] |->
                          replace_variable(text[i][j], varDecls[at].old, varDecls[at].name)]
                  ELSE text[i]]
    BY <1>3 DEF replace_duplicate_vars, Replacing
  <2>3. window \in SUBSET Lines
    <3>1. PICK k \in DOMAIN varDecls : k = at
      BY <2>1
    <3> QED BY <3>1, WindowLines
  <2> DEFINE row(i) == [j \in DOMAIN text[i] |-> Renewed(text[i][j], i \in window)]
  <2>4. text' = [i \in Lines |-> row(i)]
    <3>1. ASSUME NEW i \in Lines
          PROVE  row(i) = IF i \in window
                          THEN [j \in DOMAIN text[i] |->
                                  replace_variable(text[i][j], varDecls[at].old, varDecls[at].name)]
                          ELSE text[i]
      <4>1. text[i] = [j \in DOMAIN text[i] |-> text[i][j]]
        BY <1>2
      <4> QED BY <1>3, <4>1 DEF Renewed
    <3> HIDE DEF row
    <3> QED BY <2>2, <3>1
  <2>5. varDecls[at].old \in Names /\ varDecls[at].name \in Names
    <3>1. Name \X {0} \subseteq Names
      BY DEF Names
    <3> QED BY <2>1, <3>1, MovedVariable
  <2>6. \A line \in LineType : \A i \in Lines : Renewed(line, i \in window) \in LineType
    BY <2>5, Replaces DEF Renewed
  <2>7. ASSUME NEW i \in Lines PROVE row(i) \in Seq(LineType) /\ DOMAIN row(i) = DOMAIN text[i]
    <3>1. row(i) \in [1..Len(text[i]) -> LineType]
      BY <1>2, <2>6
    <3>2. Len(text[i]) \in Nat /\ DOMAIN row(i) = DOMAIN text[i]
      BY <1>2
    <3> HIDE DEF row
    <3> QED BY <3>1, <3>2, SeqDef
  <2>8. \A i \in Lines : \A j \in DOMAIN text[i] : row(i)[j] = Renewed(text[i][j], i \in window)
    OBVIOUS
  <2> HIDE DEF row
  <2>9. \A i \in Lines : Len(row(i)) = Len(text[i])
    <3>1. \A i \in Lines : /\ DOMAIN row(i) = 1..Len(row(i)) /\ Len(row(i)) \in Nat
      BY <2>7, LenProperties
    <3>2. \A m, n \in Nat : 1..m = 1..n => m = n
      <4>1. ASSUME NEW m \in Nat, NEW n \in Nat, 1..m = 1..n, m < n PROVE FALSE
        <5>1. n \in 1..n /\ n \notin 1..m
          BY <4>1
        <5> QED BY <4>1, <5>1
      <4>2. ASSUME NEW m \in Nat, NEW n \in Nat, 1..m = 1..n, n < m PROVE FALSE
        <5>1. m \in 1..m /\ m \notin 1..n
          BY <4>2
        <5> QED BY <4>2, <5>1
      <4>3. \A m, n \in Nat : m = n \/ m < n \/ n < m
        OBVIOUS
      <4> QED BY <4>1, <4>2, <4>3
    <3> QED BY <1>2, <2>7, <3>1, <3>2
  <2>10. text' \in [Lines -> Seq(LineType)]
    BY <2>4, <2>7
  <2>11. \A i \in Lines : DOMAIN text'[i] = DOMAIN text[i] /\ Len(text'[i]) = Len(text[i])
    BY <2>4, <2>7, <2>9
  <2>12. \A i \in Lines : \A j \in DOMAIN text[i] : text'[i][j] = Renewed(text[i][j], i \in window)
    BY <2>4, <2>8
  <2> QED BY <1>1, <1>2, <2>10, <2>2, <2>3, <2>11, <2>12
<1>4. CASE ~Replacing
  <2>1. text' = text
    BY <1>4 DEF replace_duplicate_vars, Replacing
  <2>2. \A line, within : Renewed(line, within) = line
    BY <1>4 DEF Renewed
  <2> QED BY <1>1, <1>2, <1>4, <2>1, <2>2
<1> QED BY <1>3, <1>4

\* A line that did not move is renamed once more.
LEMMA VersionAgain ==
    ASSUME Holds, replace_duplicate_vars, NEW i \in Lines, NEW line \in LineType,
           Version(line, i, Turns),
           NEW window \in SUBSET Lines, Replacing => window \in Windows(at)
    PROVE  Version(Renewed(line, i \in window), i, Turns')
<1>0. function \in Functions /\ MovedInv /\ varDecls \in Seq(DeclType)
  BY DEF Holds, MovedInv
<1>1. CASE varDecls = <<>>
  <2>1. Turns' = Turns
    BY <1>1, NextVariable
  <2>2. Renewed(line, i \in window) = line
    BY <1>1 DEF Renewed, Replacing
  <2> QED BY <2>1, <2>2
<1>2. CASE varDecls # <<>>
  <2>1. at \in DOMAIN varDecls /\ at \in Nat /\ Turns = at - 1 /\ Turns' = at
    BY <1>2, NextVariable
  <2>2. PICK n \in DOMAIN varDecls : n = at
    BY <2>1
  <2>3. CASE ~Renaming(at)
    <3>1. Renewed(line, i \in window) = line
      BY <2>3 DEF Renewed, Replacing
    <3>2. Version(line, i, n - 1) /\ ~Renaming(n)
      BY <2>1, <2>2, <2>3
    <3>3. Version(line, i, n)
      BY <1>0, <3>2, VersionSkips
    <3> QED BY <2>1, <2>2, <3>1, <3>3
  <2>4. CASE Renaming(at)
    <3>1. Replacing /\ window \in Windows(n) /\ Renaming(n) /\ Version(line, i, n - 1)
      BY <1>2, <2>1, <2>2, <2>4 DEF Replacing
    <3>2. line.blk = Original[i].blk
      BY DEF Version
    <3>3. /\ i \in window => Reaches(n, line.blk)
          /\ Enclosing(n) = {} /\ Reaches(n, line.blk) => i \in window
      BY <3>1, <3>2, WindowLines
    <3>4. PICK b \in BOOLEAN : b <=> i \in window
      OBVIOUS
    <3>5. PICK next : next = IF b THEN replace_variable(line, varDecls[n].old, varDecls[n].name)
                             ELSE line
      OBVIOUS
    <3>6. Renewed(line, i \in window) = next
      BY <2>2, <3>1, <3>4, <3>5 DEF Renewed
    <3>7. b => Reaches(n, line.blk)
      BY <3>3, <3>4
    <3>8. Enclosing(n) = {} /\ Reaches(n, line.blk) => b
      BY <3>3, <3>4
    <3>9. Version(next, i, n)
      BY <1>0, <3>1, <3>5, <3>7, <3>8, VersionRenames
    <3> QED BY <2>1, <2>2, <3>6, <3>9
  <2> QED BY <2>3, <2>4
<1> QED BY <1>1, <1>2

\* A step of the renaming.
LEMMA ReplaceHolds ==
    ASSUME Holds, replace_duplicate_vars
    PROVE  Holds' /\ CompilesUnless'
<1>0. /\ function \in Functions /\ MovedInv /\ stage = "replace_duplicate_vars"
      /\ stage' \in {"replace_duplicate_vars", "seperate_decl_init"}
      /\ function' = function /\ varDecls' = varDecls
  BY NextVariable DEF Holds
<1>1. \A i \in Lines : Left(i)
  BY <1>0 DEF Holds, TextInv
<1>2. PICK window \in SUBSET Lines :
         /\ Replacing => window \in Windows(at)
         /\ \A i \in Lines : \A j \in DOMAIN text[i] :
               text'[i][j] = Renewed(text[i][j], i \in window)
  BY RowsRenamed
<1>3. ASSUME NEW i \in Lines, Moved(i) PROVE Left(i)'
  <2>1. Moved(i)'
    BY <1>3, NextVariable
  <2>2. /\ \A j \in DOMAIN text[i] : \/ Has(Original[i], "comment") /\ text[i][j].op = "garbage"
                                     \/ Assigns(text[i][j], i, varDecls)
        /\ Has(Original[i], "comment") => \E j \in DOMAIN text[i] : text[i][j].op = "garbage"
        /\ Initialised(Original[i]) => \E j \in DOMAIN text[i] : Assigns(text[i][j], i, varDecls)
    BY <1>1, <1>3 DEF Left
  <2>3. ASSUME NEW j \in DOMAIN text[i]
        PROVE  /\ text'[i][j].op = text[i][j].op
               /\ Assigns(text[i][j], i, varDecls) => Assigns(text'[i][j], i, varDecls)
    <3>1. text[i][j] \in LineType /\ text'[i][j] = Renewed(text[i][j], i \in window)
      BY <1>2, RowsRenamed
    <3>2. CASE ~Replacing
      BY <3>1, <3>2 DEF Renewed
    <3>3. CASE Replacing
      <4>1. varDecls[at].old \in Names /\ varDecls[at].name \in Names
        <5>1. Name \X {0} \subseteq Names
          BY DEF Names
        <5>2. at \in DOMAIN varDecls
          BY <3>3, NextVariable DEF Replacing
        <5> QED BY <1>0, <5>1, <5>2, MovedVariable
      <4> DEFINE next == replace_variable(text[i][j], varDecls[at].old, varDecls[at].name)
      <4>2. next.op = text[i][j].op /\ (text[i][j].mark => next = text[i][j])
        BY <3>1, <4>1, Replaces
      <4>3. text'[i][j] = next \/ text'[i][j] = text[i][j]
        BY <3>1 DEF Renewed
      <4> HIDE DEF next
      <4>4. Assigns(text[i][j], i, varDecls) => text[i][j].mark
        BY DEF Assigns
      <4>5. text[i][j].mark => text'[i][j] = text[i][j]
        BY <4>2, <4>3
      <4> QED BY <4>2, <4>3, <4>4, <4>5
    <3> QED BY <3>2, <3>3
  <2>4. \A j : Assigns(text[i][j], i, varDecls)' <=> Assigns(text'[i][j], i, varDecls)
    BY <1>0, Steady DEF Assigns, OfLine
  <2>5. DOMAIN text'[i] = DOMAIN text[i]
    BY RowsRenamed
  <2>6. \A j \in DOMAIN text'[i] : \/ Has(Original'[i], "comment") /\ text'[i][j].op = "garbage"
                                   \/ Assigns(text[i][j], i, varDecls)'
    BY <1>0, <2>2, <2>3, <2>4, <2>5, Steady
  <2>7. Has(Original'[i], "comment") => \E j \in DOMAIN text'[i] : text'[i][j].op = "garbage"
    BY <1>0, <2>2, <2>3, <2>5, Steady
  <2>8. Initialised(Original'[i]) => \E j \in DOMAIN text'[i] : Assigns(text[i][j], i, varDecls)'
    BY <1>0, <2>2, <2>3, <2>4, <2>5, Steady
  <2> QED BY <2>1, <2>6, <2>7, <2>8 DEF Left
<1>4. ASSUME NEW i \in Lines, ~Moved(i) PROVE Left(i)'
  <2>1. ~Moved(i)'
    BY <1>4, NextVariable
  <2>2. /\ Version(text[i][1], i, Turns)
        /\ i = 1 => /\ Len(text[i]) = Len(varDecls) + 1
                    /\ \A k \in DOMAIN varDecls :
                          text[i][k + 1] = Declaration(varDecls[k].name, varDecls[k].flags)
        /\ i # 1 => Len(text[i]) = 1
    BY <1>0, <1>1, <1>4 DEF Left
  <2>3. /\ DOMAIN text[i] = 1..Len(text[i]) /\ Len(text[i]) \in Nat
        /\ DOMAIN varDecls = 1..Len(varDecls) /\ Len(varDecls) \in Nat
    BY <1>0, RowsRenamed, LenProperties DEF MovedInv
  <2>4. 1 \in DOMAIN text[i] /\ (i = 1 => \A k \in DOMAIN varDecls : k + 1 \in DOMAIN text[i])
    BY <2>2, <2>3
  <2>5. Version(text[i][1], i, Turns)'
    <3>1. PICK line \in LineType : line = text[i][1] /\ text'[i][1] = Renewed(line, i \in window)
      BY <1>2, <2>4, RowsRenamed
    <3>2. PICK next : next = Renewed(line, i \in window)
      OBVIOUS
    <3>3. PICK n : n = Turns'
      OBVIOUS
    <3>4. Version(next, i, n)
      BY <1>2, <2>2, <3>1, <3>2, <3>3, VersionAgain
    <3>5. Version(next, i, n)'
      <4>1. /\ \A k : Enclosing(k)' = Enclosing(k)
            /\ \A k, old, blk : Renames(k, old, blk)' <=> Renames(k, old, blk)
        BY <1>0 DEF Enclosing, Renames, Reaches, Renaming, InParent
      <4>2. \A old, blk : Renewals(n, old, blk)' = Renewals(n, old, blk)
        BY <1>0, <4>1 DEF Renewals
      <4> QED BY <1>0, <3>4, <4>1, <4>2, Steady DEF Version
    <3> QED BY <3>1, <3>2, <3>3, <3>5 DEF Version
  <2>6. ASSUME i = 1, NEW k \in DOMAIN varDecls
        PROVE  text'[i][k + 1] = Declaration(varDecls[k].name, varDecls[k].flags)
    <3>1. text'[i][k + 1] = Renewed(Declaration(varDecls[k].name, varDecls[k].flags), i \in window)
      BY <1>2, <2>2, <2>4, <2>6
    <3>2. Original[i].blk = <<>>
      BY <1>0, <2>6, TheText
    <3>3. Replacing => i \notin window
      <4>1. Replacing => at \in DOMAIN varDecls
        BY NextVariable DEF Replacing
      <4>2. ASSUME NEW l \in DOMAIN varDecls, window \in Windows(l) PROVE i \notin window
        BY <1>0, <3>2, <4>2, WindowLines, BodyBeyond
      <4> QED BY <1>2, <4>1, <4>2
    <3> QED BY <3>1, <3>2, <3>3 DEF Renewed
  <2>7. Len(text'[i]) = Len(text[i])
    BY RowsRenamed
  <2>8. i = 1 => /\ Len(text'[i]) = Len(varDecls') + 1
                 /\ \A k \in DOMAIN varDecls' :
                       text'[i][k + 1] = Declaration(varDecls'[k].name, varDecls'[k].flags)
    BY <1>0, <2>2, <2>6, <2>7
  <2>9. i # 1 => Len(text'[i]) = 1
    BY <2>2, <2>7
  <2> QED BY <1>0, <2>1, <2>5, <2>8, <2>9 DEF Left
<1>5. TextInv'
  <2>1. \A i \in Lines : Left(i)'
    BY <1>3, <1>4
  <2>2. text' \in [Lines -> Seq(LineType)]
    BY RowsRenamed
  <2> QED BY <1>0, <2>1, <2>2, Steady DEF TextInv
<1> QED BY <1>0, <1>5, NextVariable DEF Holds

-----------------------------------------------------------------------------
(* Separating. *)

\* What is gathered of the declarations of the body.
Separated == Keep(function.text, {line \in ToSet(function.text) : Separates(line)})
AllDeclarations == FlattenSeq([k \in DOMAIN Separated |-> Declarations(Separated[k])])
AllAssignments == FlattenSeq([k \in DOMAIN Separated |-> Assignments(Separated[k])])

SeparateNames == UNION {NamesIn(Original[i]) : i \in {j \in Lines : Separates(Original[j])}}

\* The lines that are separated.
LEMMA SeparatedLines ==
    ASSUME function \in Functions
    PROVE  /\ Separated \in Seq(SourceLine) /\ DOMAIN Separated = 1..Len(Separated)
           /\ Len(Separated) \in Nat
           /\ \A k \in DOMAIN Separated :
                 \E i \in Lines : Separated[k] = Original[i] /\ Separates(Original[i])
           /\ \A i \in Lines : Separates(Original[i]) =>
                 \E k \in DOMAIN Separated : Separated[k] = Original[i]
           /\ Compiles(Original, function.globals) => IsInjective(Separated)
<1> DEFINE S == {line \in ToSet(Original) : Separates(line)}
<1>1. Separated = Keep(Original, S) /\ Original \in Seq(SourceLine) /\ Lines = DOMAIN Original
  BY TheText DEF Separated, Original, Lines
<1>2. Separated \in Seq(SourceLine) /\ ToSet(Separated) = ToSet(Original) \cap S
  BY <1>1, KeepElements
<1>3. DOMAIN Separated = 1..Len(Separated) /\ Len(Separated) \in Nat
  BY <1>2, LenProperties
<1>4. ASSUME NEW k \in DOMAIN Separated
      PROVE  \E i \in Lines : Separated[k] = Original[i] /\ Separates(Original[i])
  <2>1. Separated[k] \in ToSet(Original) \cap S
    BY <1>2 DEF ToSet
  <2> QED BY <1>1, <2>1 DEF ToSet
<1>5. ASSUME NEW i \in Lines, Separates(Original[i])
      PROVE  \E k \in DOMAIN Separated : Separated[k] = Original[i]
  <2>1. Original[i] \in ToSet(Original) \cap S
    BY <1>1, <1>5 DEF ToSet
  <2>2. Original[i] \in ToSet(Separated)
    BY <1>2, <2>1
  <2> QED BY <2>2 DEF ToSet
<1>6. ASSUME Compiles(Original, function.globals), NEW a \in DOMAIN Separated, NEW b \in DOMAIN Separated,
             Separated[a] = Separated[b], a # b
      PROVE  FALSE
  <2>1. PICK p \in Lines, q \in Lines : p # q /\ Original[p] = Separated[a] /\ Original[q] = Separated[a]
    <3> HIDE DEF S
    <3>1. a \in DOMAIN Keep(Original, S) /\ b \in DOMAIN Keep(Original, S)
      BY <1>1, <1>6
    <3>2. Keep(Original, S)[a] = Keep(Original, S)[b]
      BY <1>1, <1>6
    <3>3. \E p, q \in DOMAIN Original :
             p # q /\ Original[p] = Keep(Original, S)[a] /\ Original[q] = Keep(Original, S)[a]
      BY <1>1, <1>6, <3>1, <3>2, KeepTwice
    <3> QED BY <1>1, <3>3
  <2>2. Separates(Original[p])
    BY <1>4, <2>1
  <2>3. PICK k \in DOMAIN Original[p].vars : TRUE
    BY <2>2 DEF Separates, Initialised
  <2>4. Original[p].vars[k].name \in NamesIn(Original[p]) \cap NamesIn(Original[q])
    BY <2>1 DEF NamesIn
  <2>5. Original[p].op = "decl" /\ Original[q].op = "decl" /\ Original[p].blk = Original[q].blk
    BY <2>1, <2>2 DEF Separates, Declares
  <2>6. p < q \/ q < p
    BY <2>1, TheText
  <2> QED BY <1>1, <1>6, <2>4, <2>5, <2>6 DEF Compiles
<1> QED BY <1>2, <1>3, <1>4, <1>5, <1>6 DEF IsInjective

\* Names of two declarations of a block differ.
LEMMA SameBlock ==
    ASSUME function \in Functions, Compiles(Original, function.globals), NEW i \in Lines, NEW j \in Lines,
           Original[i].op = "decl", Original[j].op = "decl", Original[i].blk = Original[j].blk,
           NEW n, n \in NamesIn(Original[i]), n \in NamesIn(Original[j])
    PROVE  i = j
<1>1. Lines = DOMAIN Original /\ (i = j \/ i < j \/ j < i)
  BY TheText DEF Lines, Original
<1> QED BY <1>1 DEF Compiles

\* The declaration of the variable n of line i, which is separated.
Declared(e, i, n) ==
    /\ Separates(Original[i]) /\ n \in NamesIn(Original[i])
    /\ e = Declaration(n, Original[i].flags \cap Kept)

\* What a declaration that is gathered is.
LEMMA DeclaredIs ==
    ASSUME function \in Functions, NEW i \in Lines, NEW n, NEW e, Declared(e, i, n)
    PROVE  /\ e.blk = <<>> /\ Len(e.vars) = 1 /\ DOMAIN e.vars = {1}
           /\ e.vars[1].name = n /\ NamesIn(e) = {n} /\ ReadIn(e) = {}
           /\ e.flags \subseteq {"type"} /\ e.flags = Original[i].flags \cap Kept
           /\ e.op = IF Has(Original[i], "type") THEN "garbage" ELSE "decl"
<1>1. Original[i].flags \cap Kept \subseteq {"type"}
  BY TheText DEF Declared, Separates, Has, Kept
<1>2. /\ e.blk = <<>> /\ e.vars = <<[name |-> n, ctx |-> "word", init |-> NoInit]>>
      /\ e.flags = Original[i].flags \cap Kept
      /\ e.op = IF "type" \in Original[i].flags \cap Kept THEN "garbage" ELSE "decl"
  BY DEF Declared, Declaration
<1>3. /\ Len(e.vars) = 1 /\ DOMAIN e.vars = {1}
      /\ e.vars[1].name = n /\ e.vars[1].init = NoInit
  BY <1>2
<1>4. NamesIn(e) = {n} /\ ReadIn(e) = {}
  BY <1>3 DEF NamesIn, ReadIn
<1> QED BY <1>1, <1>2, <1>3, <1>4 DEF Has, Kept

\* Each variable that is separated is declared once.
LEMMA DeclarationsGathered ==
    ASSUME function \in Functions
    PROVE  /\ AllDeclarations \in Seq(LineType)
           /\ \A i \in Lines : Separates(Original[i]) => \A n \in NamesIn(Original[i]) :
                 \E e \in ToSet(AllDeclarations) : Declared(e, i, n)
           /\ \A e \in ToSet(AllDeclarations) : \E i \in Lines :
                 \E n \in NamesIn(Original[i]) : Declared(e, i, n)
           /\ Compiles(Original, function.globals) => IsInjective(AllDeclarations)
<1> DEFINE ss == [k \in DOMAIN Separated |-> Declarations(Separated[k])]
<1>1. ASSUME NEW i \in Lines, Separates(Original[i])
      PROVE  /\ Declarations(Original[i]) \in Seq(LineType)
             /\ \A n \in NamesIn(Original[i]) :
                   \E e \in ToSet(Declarations(Original[i])) : Declared(e, i, n)
             /\ \A e \in ToSet(Declarations(Original[i])) :
                   \E n \in NamesIn(Original[i]) : Declared(e, i, n)
             /\ Compiles(Original, function.globals) => IsInjective(Declarations(Original[i]))
  <2> DEFINE vs == Original[i].vars
             kept == Original[i].flags \cap Kept
             row == [k \in DOMAIN vs |-> Declaration(vs[k].name, kept)]
  <2>1. Declarations(Original[i]) = row
    BY DEF Declarations
  <2>2. DOMAIN vs = 1..Len(vs) /\ Len(vs) \in Nat /\ \A k \in DOMAIN vs : vs[k].name \in Names
    <3>1. Name \X {0} \subseteq Names
      BY DEF Names
    <3> QED BY <3>1, TheNames DEF NamesIn
  <2> HIDE DEF kept
  <2>3. \A n \in Names : Declaration(n, kept) \in LineType
    <3>1. ASSUME NEW n \in Names PROVE Declaration(n, kept) \in LineType
      <4>1. <<[name |-> n, ctx |-> "word", init |-> NoInit]>> \in Seq(VarType)
        BY DEF VarType
      <4>2. <<>> \in Seq(Nat) /\ kept \in SUBSET Flags
        BY TheNames DEF kept
      <4> QED BY <4>1, <4>2 DEF Declaration, LineType
    <3> QED BY <3>1
  <2>4. \A n, m : Declaration(n, kept) = Declaration(m, kept) => n = m
    <3>1. ASSUME NEW n, NEW m, Declaration(n, kept) = Declaration(m, kept) PROVE n = m
      <4>1. Declaration(n, kept).vars[1].name = n /\ Declaration(m, kept).vars[1].name = m
        BY DEF Declaration
      <4> QED BY <3>1, <4>1
    <3> QED BY <3>1
  <2>5. row \in Seq(LineType)
    <3>1. row \in [1..Len(vs) -> LineType]
      BY <2>2, <2>3
    <3> QED BY <2>2, <3>1, SeqDef
  <2>6. ToSet(row) = {Declaration(n, kept) : n \in NamesIn(Original[i])}
    BY DEF ToSet, NamesIn
  <2>7. \A n \in NamesIn(Original[i]) : Declared(Declaration(n, kept), i, n)
    BY <1>1 DEF Declared, kept
  <2>8. Compiles(Original, function.globals) => IsInjective(row)
    <3>1. ASSUME Compiles(Original, function.globals), NEW a \in DOMAIN vs, NEW b \in DOMAIN vs,
                 row[a] = row[b]
          PROVE  a = b
      <4>1. vs[a].name = vs[b].name
        BY <2>4, <3>1
      <4>2. Original[i].op = "decl" /\ i \in DOMAIN Original
        BY <1>1 DEF Separates, Declares, Lines, Original
      <4> QED BY <3>1, <4>1, <4>2 DEF Compiles
    <3>2. DOMAIN row = DOMAIN vs
      OBVIOUS
    <3> HIDE DEF row, vs
    <3> QED BY <3>1, <3>2 DEF IsInjective
  <2> HIDE DEF row
  <2> QED BY <2>1, <2>5, <2>6, <2>8, <2>7
<1>2. \A k \in DOMAIN Separated : ss[k] \in Seq(LineType)
  BY <1>1, SeparatedLines
<1>3. DOMAIN ss = DOMAIN Separated /\ \A k \in DOMAIN ss : ss[k] = Declarations(Separated[k])
  OBVIOUS
<1>4. ss \in Seq(Seq(LineType))
  <2>1. ss \in [1..Len(Separated) -> Seq(LineType)]
    BY <1>2, SeparatedLines
  <2>2. Len(Separated) \in Nat
    BY SeparatedLines
  <2> HIDE DEF ss
  <2> QED BY <2>1, <2>2, SeqDef
<1>5. AllDeclarations = FlattenSeq(ss)
  BY DEF AllDeclarations
<1> HIDE DEF ss
<1>6. /\ AllDeclarations \in Seq(LineType)
      /\ ToSet(AllDeclarations) = UNION {ToSet(ss[k]) : k \in DOMAIN ss}
      /\ /\ \A k \in DOMAIN ss : IsInjective(ss[k])
         /\ \A j, k \in DOMAIN ss : j # k => ToSet(ss[j]) \cap ToSet(ss[k]) = {}
         => IsInjective(AllDeclarations)
  BY <1>4, <1>5, FlattenHolds
<1>7. ASSUME NEW e \in ToSet(AllDeclarations)
      PROVE  \E i \in Lines : \E n \in NamesIn(Original[i]) : Declared(e, i, n)
  <2>1. PICK k \in DOMAIN Separated : e \in ToSet(Declarations(Separated[k]))
    BY <1>3, <1>6
  <2>2. PICK i \in Lines : Separated[k] = Original[i] /\ Separates(Original[i])
    BY SeparatedLines
  <2> QED BY <1>1, <2>1, <2>2
<1>8. ASSUME NEW i \in Lines, Separates(Original[i]), NEW n \in NamesIn(Original[i])
      PROVE  \E e \in ToSet(AllDeclarations) : Declared(e, i, n)
  <2>1. PICK k \in DOMAIN Separated : Separated[k] = Original[i]
    BY <1>8, SeparatedLines
  <2>2. PICK e \in ToSet(ss[k]) : Declared(e, i, n)
    BY <1>1, <1>3, <1>8, <2>1
  <2> QED BY <1>3, <1>6, <2>2
<1>9. ASSUME Compiles(Original, function.globals) PROVE IsInjective(AllDeclarations)
  <2>1. \A k \in DOMAIN ss : IsInjective(ss[k])
    BY <1>1, <1>3, <1>9, SeparatedLines
  <2>2. ASSUME NEW j \in DOMAIN ss, NEW k \in DOMAIN ss, NEW e,
               e \in ToSet(ss[j]), e \in ToSet(ss[k])
        PROVE  j = k
    <3>1. PICK p \in Lines : Separated[j] = Original[p] /\ Separates(Original[p])
      BY <1>3, SeparatedLines
    <3>2. PICK q \in Lines : Separated[k] = Original[q] /\ Separates(Original[q])
      BY <1>3, SeparatedLines
    <3>3. PICK n \in NamesIn(Original[p]) : Declared(e, p, n)
      BY <1>1, <1>3, <2>2, <3>1
    <3>4. PICK m \in NamesIn(Original[q]) : Declared(e, q, m)
      BY <1>1, <1>3, <2>2, <3>2
    <3>5. n = m
      BY <3>3, <3>4, DeclaredIs
    <3>6. /\ Original[p].op = "decl" /\ Original[q].op = "decl"
          /\ Original[p].blk = Original[q].blk
      BY <3>1, <3>2 DEF Separates, Declares
    <3>7. p = q
      BY <1>9, <3>5, <3>6, SameBlock
    <3> QED BY <1>3, <1>9, <3>1, <3>2, <3>7, SeparatedLines DEF IsInjective
  <2> QED BY <1>6, <2>1, <2>2
<1> QED BY <1>6, <1>7, <1>9, <1>8

\* An assignment to a variable that was separated.
AssignsSeparate(line) ==
    /\ line.op = "set" /\ line.blk = <<>> /\ Len(line.vars) = 1
    /\ \E i \in Lines : /\ Separates(Original[i]) /\ line.vars[1].name \in NamesIn(Original[i])
                        /\ ReadIn(line) \subseteq ReadIn(Original[i])

\* All assignments that are gathered are such.
LEMMA AssignmentsGathered ==
    ASSUME function \in Functions
    PROVE  /\ AllAssignments \in Seq(LineType)
           /\ \A e \in ToSet(AllAssignments) : AssignsSeparate(e)
<1> DEFINE ss == [k \in DOMAIN Separated |-> Assignments(Separated[k])]
<1>1. ASSUME NEW i \in Lines, Separates(Original[i])
      PROVE  /\ Assignments(Original[i]) \in Seq(LineType)
             /\ \A e \in ToSet(Assignments(Original[i])) : AssignsSeparate(e)
  <2> DEFINE vs == Original[i].vars
             S == {v \in ToSet(vs) : v.init # NoInit}
             inits == Keep(vs, S)
             Of(v) == [op |-> "set", blk |-> <<>>, flags |-> {}, mark |-> FALSE,
                       vars |-> <<[v EXCEPT !.ctx = "plain"]>>]
             row == [k \in DOMAIN inits |-> Of(inits[k])]
  <2>1. Assignments(Original[i]) = row
    BY DEF Assignments
  <2>2. vs \in Seq(SourceVar)
    BY TheNames
  <2>3. inits \in Seq(SourceVar) /\ ToSet(inits) = ToSet(vs) \cap S
    BY <2>2, KeepElements
  <2> HIDE DEF inits
  <2>4. DOMAIN inits = 1..Len(inits) /\ Len(inits) \in Nat
    BY <2>3, LenProperties
  <2>5. \A v \in SourceVar : v \in VarType /\ [v EXCEPT !.ctx = "plain"] \in VarType
                              /\ [v EXCEPT !.ctx = "plain"].name = v.name
                              /\ [v EXCEPT !.ctx = "plain"].init = v.init
    <3>1. Name \X {0} \subseteq Names
      BY DEF Names
    <3> QED BY <3>1 DEF SourceVar, VarType
  <2>6. ASSUME NEW k \in DOMAIN inits PROVE Of(inits[k]) \in LineType /\ AssignsSeparate(Of(inits[k]))
    <3>1. inits[k] \in ToSet(vs)
      BY <2>3 DEF ToSet
    <3>2. PICK q \in DOMAIN vs : inits[k] = vs[q]
      BY <3>1 DEF ToSet
    <3>3. inits[k] \in SourceVar
      BY <3>2, TheNames
    <3> DEFINE u == [inits[k] EXCEPT !.ctx = "plain"]
    <3>4. u \in VarType /\ u.name = inits[k].name /\ u.init = inits[k].init
      BY <2>5, <3>3
    <3>5. u.name \in NamesIn(Original[i]) /\ {u.init} \ (Value \cup {NoInit}) \subseteq ReadIn(Original[i])
      BY <3>2, <3>4 DEF NamesIn, ReadIn
    <3> HIDE DEF u
    <3>6. <<u>> \in Seq(VarType) /\ <<>> \in Seq(Nat) /\ {} \in SUBSET Flags
      BY <3>4
    <3>7. /\ Of(inits[k]).op = "set" /\ Of(inits[k]).blk = <<>> /\ Of(inits[k]).vars = <<u>>
          /\ Of(inits[k]) = [op |-> "set", blk |-> <<>>, flags |-> {}, mark |-> FALSE, vars |-> <<u>>]
      BY DEF u
    <3> HIDE DEF Of
    <3>8. Of(inits[k]) \in LineType
      BY <3>6, <3>7 DEF LineType
    <3>9. Len(<<u>>) = 1 /\ <<u>>[1] = u /\ DOMAIN <<u>> = {1}
      OBVIOUS
    <3>10. ReadIn(Of(inits[k])) \subseteq ReadIn(Original[i])
      BY <3>5, <3>7, <3>9 DEF ReadIn
    <3> QED BY <1>1, <3>5, <3>7, <3>8, <3>9, <3>10 DEF AssignsSeparate
  <2> HIDE DEF Of
  <2>7. row \in [1..Len(inits) -> LineType]
    BY <2>4, <2>6
  <2>8. row \in Seq(LineType)
    <3> HIDE DEF row
    <3> QED BY <2>4, <2>7, SeqDef
  <2>9. \A e \in ToSet(row) : AssignsSeparate(e)
    BY <2>6 DEF ToSet
  <2> QED BY <2>1, <2>8, <2>9
<1>2. \A k \in DOMAIN Separated : ss[k] \in Seq(LineType)
  BY <1>1, SeparatedLines
<1>3. DOMAIN ss = DOMAIN Separated /\ \A k \in DOMAIN ss : ss[k] = Assignments(Separated[k])
  OBVIOUS
<1>4. ss \in Seq(Seq(LineType))
  <2>1. ss \in [1..Len(Separated) -> Seq(LineType)]
    BY <1>2, SeparatedLines
  <2>2. Len(Separated) \in Nat
    BY SeparatedLines
  <2> HIDE DEF ss
  <2> QED BY <2>1, <2>2, SeqDef
<1>5. AllAssignments = FlattenSeq(ss)
  BY DEF AllAssignments
<1> HIDE DEF ss
<1>6. /\ AllAssignments \in Seq(LineType)
      /\ ToSet(AllAssignments) = UNION {ToSet(ss[k]) : k \in DOMAIN ss}
  BY <1>4, <1>5, FlattenHolds
<1>7. ASSUME NEW e \in ToSet(AllAssignments) PROVE AssignsSeparate(e)
  <2>1. PICK k \in DOMAIN Separated : e \in ToSet(Assignments(Separated[k]))
    BY <1>3, <1>6
  <2>2. PICK i \in Lines : Separated[k] = Original[i] /\ Separates(Original[i])
    BY SeparatedLines
  <2> QED BY <1>1, <2>1, <2>2
<1> QED BY <1>6, <1>7

\* The line behind which they are inserted, and what else there is of a line.
Site == IF fncDecls = <<>> THEN 0 ELSE fncDecls[Len(fncDecls)].line

Own(i) == IF Separates(Original[i]) /\ ~Has(Original[i], "comment") THEN <<>> ELSE text[i]

Final(i) == IF i = Site THEN Own(i) \o AllDeclarations \o AllAssignments ELSE Own(i)

\* The last line of the body's declarations.
LEMMA LastLine ==
    ASSUME function \in Functions, BodyInv, stage = "seperate_decl_init"
    PROVE  /\ fncDecls # <<>> => Site \in Body
           /\ fncDecls = <<>> => Site = 0 /\ \A i \in Lines : ~Separates(Original[i])
           /\ SeparateNames # {} => Site \in Body
           /\ NamesOf(fncDecls) = UNION {NamesIn(Original[i]) : i \in Body}
           /\ \A i \in Body : NamesIn(Original[i]) # {} => Site \in Body /\ i <= Site
           /\ \A i \in Lines : Separates(Original[i]) => i \in Body /\ Site \in Body /\ i <= Site
<1>1. /\ fncDecls \in Seq([name : Names, line : Body])
      /\ NamesOf(fncDecls) = UNION {NamesIn(Original[i]) : i \in Body}
      /\ fncDecls # <<>> => \A i \in Body :
            NamesIn(Original[i]) # {} => i <= fncDecls[Len(fncDecls)].line
  BY DEF BodyInv, Body
<1>2. fncDecls # <<>> => Site \in Body
  <2>1. ASSUME fncDecls # <<>> PROVE Len(fncDecls) \in 1..Len(fncDecls)
    <3>1. Len(fncDecls) \in Nat \ {0}
      BY <1>1, <2>1, EmptySeq
    <3> QED BY <3>1
  <2>2. fncDecls # <<>> => fncDecls[Len(fncDecls)] \in [name : Names, line : Body]
    BY <1>1, <2>1, ElementOfSeq
  <2> QED BY <2>2 DEF Site
<1>3. ASSUME fncDecls = <<>>, NEW i \in Lines, Separates(Original[i]) PROVE FALSE
  <2>1. PICK k \in DOMAIN Original[i].vars : TRUE
    BY <1>3 DEF Separates, Initialised
  <2>2. Original[i].vars[k].name \in NamesIn(Original[i]) /\ i \in Body
    BY <1>3, <2>1 DEF NamesIn, Body, Separates
  <2>3. NamesOf(fncDecls) = {}
    BY <1>3 DEF NamesOf
  <2> QED BY <1>1, <2>2, <2>3
<1>4. SeparateNames # {} => Site \in Body
  <2>1. SeparateNames # {} => \E i \in Lines : Separates(Original[i])
    BY DEF SeparateNames
  <2> QED BY <1>2, <1>3, <2>1
<1>5. ASSUME NEW i \in Body, NamesIn(Original[i]) # {} PROVE Site \in Body /\ i <= Site
  <2>1. fncDecls # <<>>
    <3>1. NamesOf(fncDecls) # {}
      BY <1>1, <1>5
    <3> QED BY <3>1 DEF NamesOf
  <2> QED BY <1>1, <1>2, <1>5, <2>1 DEF Site
<1>6. ASSUME NEW i \in Lines, Separates(Original[i])
      PROVE  i \in Body /\ NamesIn(Original[i]) # {}
  <2>1. PICK k \in DOMAIN Original[i].vars : TRUE
    BY <1>6 DEF Separates, Initialised
  <2>2. Original[i].vars[k].name \in NamesIn(Original[i]) /\ i \in Body
    BY <1>6, <2>1 DEF NamesIn, Body, Separates
  <2> QED BY <2>2
<1> QED BY <1>1, <1>2, <1>3, <1>4, <1>5, <1>6 DEF Site

\* The last step.
LEMMA SeparateRows ==
    ASSUME Holds, seperate_decl_init
    PROVE  /\ stage = "seperate_decl_init" /\ stage' = "done" /\ at' = 1
           /\ function' = function /\ bare' = bare /\ fncDecls' = fncDecls
           /\ varDecls' = varDecls /\ var_suffix' = var_suffix
           /\ DOMAIN text' = Lines
           /\ text' = [i \in Lines |-> Final(i)]
<1>1. /\ stage = "seperate_decl_init" /\ stage' = "done" /\ at' = 1
      /\ function' = function /\ bare' = bare /\ fncDecls' = fncDecls
      /\ varDecls' = varDecls /\ var_suffix' = var_suffix
  <2>1. stage = "seperate_decl_init"
    BY DEF seperate_decl_init
  <2>2. at = 1
    BY <2>1 DEF Holds, LoopInv
  <2> QED BY <2>1, <2>2 DEF seperate_decl_init, Advance
<1>2. text' = [i \in Lines |-> Final(i)]
  <2>1. CASE fncDecls = <<>>
    <3>1. text' = text
      BY <2>1 DEF seperate_decl_init
    <3>2. text \in [Lines -> Seq(LineType)]
      BY <1>1 DEF Holds, TextInv
    <3>3. \A i \in Lines : i # Site /\ ~Separates(Original[i])
      BY <1>1, <2>1, LastLine, TheText DEF Holds
    <3>4. \A i \in Lines : Final(i) = text[i]
      BY <3>3 DEF Final, Own
    <3> QED BY <3>1, <3>2, <3>4
  <2>2. CASE fncDecls # <<>>
    <3>1. \A i \in Lines : Original[i] = function.text[i]
      BY DEF Original
    <3>2. text' = [i \in Lines |->
             LET own == IF Separates(Original[i]) /\ ~Has(Original[i], "comment") THEN <<>> ELSE text[i]
             IN  IF i = fncDecls[Len(fncDecls)].line
                 THEN own \o AllDeclarations \o AllAssignments ELSE own]
      BY <2>2, <3>1 DEF seperate_decl_init, AllDeclarations, AllAssignments, Separated
    <3>3. \A i \in Lines : Final(i) =
             LET own == IF Separates(Original[i]) /\ ~Has(Original[i], "comment") THEN <<>> ELSE text[i]
             IN  IF i = fncDecls[Len(fncDecls)].line
                 THEN own \o AllDeclarations \o AllAssignments ELSE own
      BY <2>2 DEF Final, Own, Site
    <3> QED BY <3>2, <3>3
  <2> QED BY <2>1, <2>2
<1> QED BY <1>1, <1>2

-----------------------------------------------------------------------------
(* The lines of the result. *)

\* A line that was neither moved nor separated.
IsKept(i, c) ==
    /\ c = 1 /\ ~Moves(Original[i]) /\ (Separates(Original[i]) => Has(Original[i], "comment"))
    /\ Version(Final(i)[c], i, Len(varDecls))

\* The declaration of a variable that was moved.
IsHoisted(i, c) ==
    /\ i = 1 /\ c - 1 \in DOMAIN varDecls
    /\ Final(i)[c] = Declaration(varDecls[c - 1].name, varDecls[c - 1].flags)

\* A comment in a comment.
IsGarbage(i, c) ==
    Moves(Original[i]) /\ Has(Original[i], "comment") /\ Final(i)[c].op = "garbage"

\* What stays behind of an initialiser.
IsLeft(i, c) == Moves(Original[i]) /\ Assigns(Final(i)[c], i, varDecls)

\* The declaration of a variable that was separated.
IsSeparate(i, c) ==
    /\ i = Site /\ c - Len(Own(i)) \in DOMAIN AllDeclarations
    /\ Final(i)[c] = AllDeclarations[c - Len(Own(i))]

\* Its initialiser.
IsInitial(i, c) ==
    /\ i = Site /\ AssignsSeparate(Final(i)[c])
    /\ c > Len(Own(i)) + Len(AllDeclarations)

\* What there is of a line before the last step.
LEMMA OwnLines ==
    ASSUME Holds, stage = "seperate_decl_init", NEW i \in Lines
    PROVE  /\ text[i] \in Seq(LineType) /\ Own(i) \in Seq(LineType) /\ Left(i)
           /\ Moved(i) <=> Moves(Original[i])
           /\ Turns = Len(varDecls)
           /\ varDecls \in Seq(DeclType) /\ DOMAIN varDecls = 1..Len(varDecls) /\ Len(varDecls) \in Nat
           /\ DOMAIN text[i] = 1..Len(text[i]) /\ Len(text[i]) \in Nat
           /\ DOMAIN Own(i) = 1..Len(Own(i)) /\ Len(Own(i)) \in Nat
           /\ ~Moves(Original[1]) /\ ~Separates(Original[1]) /\ Site # 1
           /\ i = Site \/ Separates(Original[i]) => ~Moves(Original[i])
<1>1. text[i] \in Seq(LineType) /\ Left(i) /\ varDecls \in Seq(DeclType)
  BY DEF Holds, TextInv, MovedInv
<1>2. Own(i) \in Seq(LineType)
  BY <1>1, EmptyList DEF Own
<1>3. Moved(i) <=> Moves(Original[i])
  BY DEF Moved
<1>4. Turns = Len(varDecls)
  BY DEF Turns
<1>5. ~Moves(Original[1]) /\ ~Separates(Original[1])
  BY TheText, TheNames DEF Holds, Moves, Separates
<1>6. Site # 1
  <2>1. Site \in Body \/ Site = 0
    BY LastLine DEF Holds
  <2>2. 1 \notin Body
    BY TheText, TheNames DEF Holds, Body
  <2> QED BY <2>1, <2>2
<1>7. i = Site \/ Separates(Original[i]) => ~Moves(Original[i])
  <2>1. Separates(Original[i]) => ~Moves(Original[i])
    BY DEF Separates, Moves
  <2>2. Site \in Body \/ Site = 0
    BY LastLine DEF Holds
  <2>3. i # 0
    BY TheText DEF Holds
  <2>4. i = Site => ~Moves(Original[i])
    BY <2>2, <2>3 DEF Body, Moves
  <2> QED BY <2>1, <2>4
<1> QED BY <1>1, <1>2, <1>3, <1>4, <1>5, <1>6, <1>7, LenProperties

\* What the last step inserts comes after it.
LEMMA FinalLines ==
    ASSUME Holds, stage = "seperate_decl_init", NEW i \in Lines
    PROVE  /\ Final(i) \in Seq(LineType) /\ DOMAIN Final(i) = 1..Len(Final(i))
           /\ DOMAIN Own(i) \subseteq DOMAIN Final(i)
           /\ \A c \in DOMAIN Own(i) : Final(i)[c] = Own(i)[c]
           /\ i # Site => Final(i) = Own(i)
           /\ i = Site => /\ \A c \in DOMAIN Final(i) :
                                c \in DOMAIN Own(i) \/ IsSeparate(i, c) \/ IsInitial(i, c)
                          /\ \A d \in DOMAIN AllDeclarations : /\ Len(Own(i)) + d \in DOMAIN Final(i)
                                                               /\ IsSeparate(i, Len(Own(i)) + d)
<1>1. Own(i) \in Seq(LineType) /\ DOMAIN Own(i) = 1..Len(Own(i)) /\ Len(Own(i)) \in Nat
  BY OwnLines
<1>2. AllDeclarations \in Seq(LineType) /\ AllAssignments \in Seq(LineType)
  BY DeclarationsGathered, AssignmentsGathered DEF Holds
<1>3. /\ DOMAIN AllDeclarations = 1..Len(AllDeclarations) /\ Len(AllDeclarations) \in Nat
      /\ DOMAIN AllAssignments = 1..Len(AllAssignments) /\ Len(AllAssignments) \in Nat
  BY <1>2, LenProperties
<1>4. CASE i # Site
  BY <1>1, <1>4 DEF Final
<1>5. CASE i = Site
  <2> DEFINE some == Own(i) \o AllDeclarations
             all == some \o AllAssignments
  <2>1. /\ some \in Seq(LineType) /\ Len(some) = Len(Own(i)) + Len(AllDeclarations)
        /\ \A c \in 1..Len(Own(i)) + Len(AllDeclarations) :
              some[c] = IF c <= Len(Own(i)) THEN Own(i)[c] ELSE AllDeclarations[c - Len(Own(i))]
    BY <1>1, <1>2, ConcatProperties
  <2> HIDE DEF some
  <2>2. /\ all \in Seq(LineType) /\ Len(all) = Len(some) + Len(AllAssignments)
        /\ \A c \in 1..Len(some) + Len(AllAssignments) :
              all[c] = IF c <= Len(some) THEN some[c] ELSE AllAssignments[c - Len(some)]
    <3>1. some \in Seq(LineType) /\ AllAssignments \in Seq(LineType)
      BY <1>2, <2>1
    <3> QED BY <3>1, ConcatProperties
  <2>3. Final(i) = all
    BY <1>5 DEF Final, some
  <2> HIDE DEF all
  <2>4. DOMAIN all = 1..Len(all)
    BY <2>2, LenProperties
  <2>5. ASSUME NEW c \in DOMAIN Own(i) PROVE c \in DOMAIN all /\ all[c] = Own(i)[c]
    BY <1>1, <1>3, <2>1, <2>2, <2>4
  <2>6. ASSUME NEW c \in DOMAIN all PROVE c \in DOMAIN Own(i) \/ IsSeparate(i, c) \/ IsInitial(i, c)
    <3>1. CASE c <= Len(Own(i))
      BY <1>1, <2>4, <3>1
    <3>2. CASE ~(c <= Len(Own(i))) /\ c <= Len(some)
      <4>1. c - Len(Own(i)) \in DOMAIN AllDeclarations
        BY <1>1, <1>3, <2>1, <2>4, <3>2
      <4>2. all[c] = AllDeclarations[c - Len(Own(i))]
        BY <1>1, <1>3, <2>1, <2>2, <2>4, <3>2
      <4> QED BY <1>5, <2>3, <4>1, <4>2 DEF IsSeparate
    <3>3. CASE ~(c <= Len(some))
      <4>1. c - Len(some) \in DOMAIN AllAssignments
        BY <1>1, <1>3, <2>1, <2>2, <2>4, <3>3
      <4>2. all[c] = AllAssignments[c - Len(some)]
        BY <1>1, <1>3, <2>1, <2>2, <2>4, <3>3
      <4>3. all[c] \in ToSet(AllAssignments)
        BY <4>1, <4>2 DEF ToSet
      <4>4. c > Len(Own(i)) + Len(AllDeclarations)
        BY <1>1, <1>3, <2>1, <2>4, <3>3
      <4> QED BY <1>5, <2>3, <4>3, <4>4, AssignmentsGathered DEF IsInitial, Holds
    <3> QED BY <3>1, <3>2, <3>3
  <2>7. ASSUME NEW d \in DOMAIN AllDeclarations
        PROVE  Len(Own(i)) + d \in DOMAIN all /\ IsSeparate(i, Len(Own(i)) + d)
    <3>1. PICK m \in Nat : m = Len(Own(i))
      BY <1>1
    <3>2. PICK c \in Nat : c = m + d
      BY <1>3
    <3>3. i = Site /\ all = Final(i)
      BY <1>5, <2>3
    <3>4. c \in DOMAIN all /\ c - m = d /\ all[c] = AllDeclarations[d]
      BY <1>1, <1>3, <2>1, <2>2, <2>4, <3>1, <3>2
    <3>5. c - Len(Own(i)) \in DOMAIN AllDeclarations
      BY <3>1, <3>4
    <3>6. Final(i)[c] = AllDeclarations[c - Len(Own(i))]
      BY <3>1, <3>3, <3>4
    <3>7. IsSeparate(i, c)
      BY <3>3, <3>5, <3>6 DEF IsSeparate
    <3> QED BY <3>1, <3>2, <3>4, <3>7
  <2> QED BY <1>5, <2>2, <2>3, <2>4, <2>5, <2>6, <2>7
<1> QED BY <1>4, <1>5

\* Every line of the result is one of these.
LEMMA FinalKinds ==
    ASSUME Holds, stage = "seperate_decl_init", NEW i \in Lines, NEW c \in DOMAIN Final(i)
    PROVE  \/ IsKept(i, c) \/ IsHoisted(i, c) \/ IsGarbage(i, c) \/ IsLeft(i, c)
           \/ IsSeparate(i, c) \/ IsInitial(i, c)
<1>1. CASE c \in DOMAIN Own(i)
  <2>1. /\ Final(i)[c] = Own(i)[c] /\ Left(i) /\ (Moved(i) <=> Moves(Original[i]))
        /\ Turns = Len(varDecls) /\ DOMAIN text[i] = 1..Len(text[i]) /\ Len(text[i]) \in Nat
        /\ Len(varDecls) \in Nat /\ DOMAIN varDecls = 1..Len(varDecls)
        /\ DOMAIN Own(i) = 1..Len(Own(i))
    BY <1>1, FinalLines, OwnLines
  <2>2. Own(i) = text[i] /\ (Separates(Original[i]) => Has(Original[i], "comment"))
    <3>1. Own(i) # <<>>
      BY <1>1
    <3> QED BY <3>1 DEF Own
  <2>3. CASE Moves(Original[i])
    <3>1. \/ Has(Original[i], "comment") /\ text[i][c].op = "garbage"
          \/ Assigns(text[i][c], i, varDecls)
      BY <1>1, <2>1, <2>2, <2>3 DEF Left
    <3>2. Final(i)[c] = text[i][c]
      BY <2>1, <2>2
    <3>3. Assigns(text[i][c], i, varDecls) => Assigns(Final(i)[c], i, varDecls)
      BY <3>2
    <3> QED BY <2>3, <3>1, <3>2, <3>3 DEF IsGarbage, IsLeft
  <2>4. CASE ~Moves(Original[i])
    <3>1. /\ Version(text[i][1], i, Len(varDecls))
          /\ i = 1 => /\ Len(text[i]) = Len(varDecls) + 1
                      /\ \A k \in DOMAIN varDecls :
                            text[i][k + 1] = Declaration(varDecls[k].name, varDecls[k].flags)
          /\ i # 1 => Len(text[i]) = 1
      BY <2>1, <2>4 DEF Left
    <3>2. CASE c = 1
      <4>1. Final(i)[c] = text[i][1]
        BY <2>1, <2>2, <3>2
      <4>2. Version(Final(i)[c], i, Len(varDecls))
        BY <3>1, <4>1
      <4> QED BY <2>2, <2>4, <3>2, <4>2 DEF IsKept
    <3>3. CASE c # 1
      <4>1. i = 1
        BY <1>1, <2>1, <2>2, <3>1, <3>3
      <4>2. c - 1 \in DOMAIN varDecls /\ c - 1 + 1 = c
        BY <1>1, <2>1, <2>2, <3>1, <3>3, <4>1
      <4>3. Final(i)[c] = Declaration(varDecls[c - 1].name, varDecls[c - 1].flags)
        BY <2>1, <2>2, <3>1, <4>1, <4>2
      <4> QED BY <4>1, <4>2, <4>3 DEF IsHoisted
    <3> QED BY <3>2, <3>3
  <2> QED BY <2>3, <2>4
<1>2. CASE c \notin DOMAIN Own(i)
  BY <1>2, FinalLines
<1> QED BY <1>1, <1>2

\* What is kept stands first.
LEMMA KeptPresent ==
    ASSUME Holds, stage = "seperate_decl_init", NEW i \in Lines, ~Moves(Original[i]),
           Separates(Original[i]) => Has(Original[i], "comment")
    PROVE  1 \in DOMAIN Own(i) /\ 1 \in DOMAIN Final(i) /\ IsKept(i, 1)
<1>1. /\ Left(i) /\ ~Moved(i) /\ Turns = Len(varDecls)
      /\ DOMAIN text[i] = 1..Len(text[i]) /\ Len(text[i]) \in Nat /\ Len(varDecls) \in Nat
  BY OwnLines
<1>2. Version(text[i][1], i, Len(varDecls)) /\ (Len(text[i]) = Len(varDecls) + 1 \/ Len(text[i]) = 1)
  BY <1>1 DEF Left
<1>3. Own(i) = text[i]
  BY DEF Own
<1>4. 1 \in DOMAIN Own(i)
  BY <1>1, <1>2, <1>3
<1>5. 1 \in DOMAIN Final(i) /\ Final(i)[1] = text[i][1]
  BY <1>3, <1>4, FinalLines
<1>6. Version(Final(i)[1], i, Len(varDecls))
  BY <1>2, <1>5
<1> QED BY <1>4, <1>5, <1>6 DEF IsKept

\* The variables that were moved follow the head.
LEMMA HoistedPresent ==
    ASSUME Holds, stage = "seperate_decl_init", NEW k \in DOMAIN varDecls
    PROVE  1 \in Lines /\ k \in Nat /\ k + 1 \in DOMAIN Final(1) /\ IsHoisted(1, k + 1)
<1>1. 1 \in Lines
  BY TheText DEF Holds
<1>2. /\ Left(1) /\ ~Moved(1) /\ DOMAIN text[1] = 1..Len(text[1]) /\ Len(text[1]) \in Nat
      /\ Len(varDecls) \in Nat /\ DOMAIN varDecls = 1..Len(varDecls) /\ 1 # Site
      /\ ~Separates(Original[1])
  BY <1>1, OwnLines
<1>3. /\ Len(text[1]) = Len(varDecls) + 1
      /\ text[1][k + 1] = Declaration(varDecls[k].name, varDecls[k].flags)
  BY <1>2 DEF Left
<1>4. Final(1) = text[1]
  BY <1>2 DEF Final, Own
<1>5. k \in Nat /\ k + 1 \in DOMAIN text[1] /\ k + 1 - 1 = k
  BY <1>2, <1>3
<1> QED BY <1>1, <1>3, <1>4, <1>5 DEF IsHoisted

\* What is left of a line that was moved.
LEMMA LeftPresent ==
    ASSUME Holds, stage = "seperate_decl_init", NEW i \in Lines, Moves(Original[i])
    PROVE  /\ Has(Original[i], "comment") => \E c \in DOMAIN Final(i) : Final(i)[c].op = "garbage"
           /\ Initialised(Original[i]) => \E c \in DOMAIN Final(i) : IsLeft(i, c)
<1>1. Left(i) /\ Moved(i) /\ i # Site /\ ~Separates(Original[i])
  BY OwnLines
<1>2. Final(i) = text[i]
  BY <1>1 DEF Final, Own
<1>3. /\ Has(Original[i], "comment") => \E j \in DOMAIN text[i] : text[i][j].op = "garbage"
      /\ Initialised(Original[i]) => \E j \in DOMAIN text[i] : Assigns(text[i][j], i, varDecls)
  BY <1>1 DEF Left
<1>4. \A j \in DOMAIN text[i] : Assigns(text[i][j], i, varDecls) => IsLeft(i, j)
  <2>1. ASSUME NEW j \in DOMAIN text[i], Assigns(text[i][j], i, varDecls) PROVE IsLeft(i, j)
    <3>1. Final(i)[j] = text[i][j]
      BY <1>2
    <3> QED BY <2>1, <3>1 DEF IsLeft
  <2> QED BY <2>1
<1> QED BY <1>2, <1>3, <1>4

\* The variables that were separated follow the last declaration of the body.
LEMMA SeparatePresent ==
    ASSUME Holds, stage = "seperate_decl_init",
           NEW i \in Lines, Separates(Original[i]), NEW n \in NamesIn(Original[i])
    PROVE  /\ Site \in Lines
           /\ \E c \in DOMAIN Final(Site) :
                 /\ IsSeparate(Site, c) /\ Declared(Final(Site)[c], i, n)
                 /\ c \notin DOMAIN Own(Site) /\ c \in Nat
                 /\ c > Len(Own(Site)) /\ c <= Len(Own(Site)) + Len(AllDeclarations)
<1>1. Site \in Lines
  BY LastLine DEF Holds, Body
<1>2. AllDeclarations \in Seq(LineType) /\ \E e \in ToSet(AllDeclarations) : Declared(e, i, n)
  BY DeclarationsGathered DEF Holds
<1>3. PICK d \in DOMAIN AllDeclarations : Declared(AllDeclarations[d], i, n)
  BY <1>2 DEF ToSet
<1>4. Len(Own(Site)) + d \in DOMAIN Final(Site) /\ IsSeparate(Site, Len(Own(Site)) + d)
  BY <1>1, FinalLines
<1>5. /\ DOMAIN AllDeclarations = 1..Len(AllDeclarations) /\ Len(AllDeclarations) \in Nat
      /\ DOMAIN Own(Site) = 1..Len(Own(Site)) /\ Len(Own(Site)) \in Nat
  BY <1>1, <1>2, OwnLines, LenProperties
<1>6. PICK m \in Nat : m = Len(Own(Site))
  BY <1>5
<1>7. PICK c \in Nat : c = m + d
  BY <1>5
<1>8. c \in DOMAIN Final(Site) /\ IsSeparate(Site, c) /\ c - Len(Own(Site)) = d
  <2>1. c \in DOMAIN Final(Site) /\ IsSeparate(Site, c)
    BY <1>4, <1>6, <1>7
  <2> QED BY <1>5, <1>6, <1>7, <2>1
<1>9. Declared(Final(Site)[c], i, n)
  BY <1>3, <1>8 DEF IsSeparate
<1>10. c \notin DOMAIN Own(Site) /\ c > Len(Own(Site)) /\ c <= Len(Own(Site)) + Len(AllDeclarations)
  BY <1>5, <1>6, <1>7
<1> QED BY <1>1, <1>8, <1>9, <1>10

-----------------------------------------------------------------------------
(* The declarations of the result. *)

\* A name in a line that was kept is the written one, or that of a variable
\* that was moved and renamed.
LEMMA VersionFrom ==
    ASSUME NEW i \in Lines, NEW n, NEW line, Version(line, i, n), NEW q \in DOMAIN line.vars
    PROVE  /\ q \in DOMAIN Original[i].vars /\ Original[i].vars[q].name \in NamesIn(Original[i])
           /\ line.vars[q].ctx = Original[i].vars[q].ctx
           /\ \/ line.vars[q].name = Original[i].vars[q].name
              \/ \E k \in DOMAIN varDecls :
                    /\ Renames(k, Original[i].vars[q].name, Original[i].blk)
                    /\ line.vars[q].name = varDecls[k].name
           /\ \/ line.vars[q].init = Original[i].vars[q].init
              \/ \E k \in DOMAIN varDecls :
                    /\ Renames(k, Original[i].vars[q].init, Original[i].blk)
                    /\ line.vars[q].init = varDecls[k].name
<1>1. line.blk = Original[i].blk /\ q \in DOMAIN Original[i].vars
  BY DEF Version
<1>2. Original[i].vars[q].name \in NamesIn(Original[i])
  BY <1>1 DEF NamesIn
<1> QED BY <1>1, <1>2, VersionEach DEF Renewals

\* What was written for a name.
Origin(m) ==
    IF \E k \in DOMAIN varDecls : varDecls[k].name = m
    THEN varDecls[CHOOSE k \in DOMAIN varDecls : varDecls[k].name = m].old ELSE m

\* Two variables do not become one.
LEMMA VersionNames ==
    ASSUME function \in Functions, MovedInv, NEW n, NEW i \in Lines,
           NEW line, Version(line, i, n)
    PROVE  \A q \in DOMAIN line.vars : Origin(line.vars[q].name) = Original[i].vars[q].name
<1> TAKE q \in DOMAIN line.vars
<1> DEFINE o == Original[i].vars[q].name
           m == line.vars[q].name
<1>1. o \in Name \X {0}
  BY VersionFrom, TheNames
<1>2. m = o \/ \E k \in DOMAIN varDecls : varDecls[k].old = o /\ m = varDecls[k].name
  BY VersionFrom DEF Renames
<1> HIDE DEF o, m
<1>3. \A k \in DOMAIN varDecls : varDecls[k].name # varDecls[k].old => varDecls[k].name \notin Name \X {0}
  BY MovedVariable
<1>4. CASE \E k \in DOMAIN varDecls : varDecls[k].name = m
  <2>1. PICK k \in DOMAIN varDecls : varDecls[k].name = m /\ Origin(m) = varDecls[k].old
    BY <1>4 DEF Origin
  <2>2. \A l \in DOMAIN varDecls : varDecls[l].name = m => k = l
    BY <2>1, ApartEach DEF MovedInv
  <2> QED BY <1>1, <1>2, <1>3, <2>1, <2>2 DEF o, m
<1>5. CASE ~\E k \in DOMAIN varDecls : varDecls[k].name = m
  <2>1. m = o
    BY <1>2, <1>5
  <2> QED BY <1>5, <2>1 DEF Origin, o, m
<1> QED BY <1>4, <1>5

\* No name in the body is replaced.
LEMMA VersionBody ==
    ASSUME function \in Functions, MovedInv, NEW n, NEW i \in Lines, Original[i].blk = <<>>,
           NEW line, Version(line, i, n)
    PROVE  NamesIn(line) = NamesIn(Original[i]) /\ ReadIn(line) = ReadIn(Original[i])
<1>1. ASSUME NEW k \in DOMAIN varDecls, NEW old PROVE ~Renames(k, old, <<>>)
  BY BodyBeyond DEF Renames
<1>2. ASSUME NEW q \in DOMAIN line.vars
      PROVE  /\ line.vars[q].name = Original[i].vars[q].name
             /\ line.vars[q].init = Original[i].vars[q].init
  BY <1>1, VersionFrom
<1>3. DOMAIN line.vars = DOMAIN Original[i].vars
  BY DEF Version
<1>4. NamesIn(line) = NamesIn(Original[i])
  BY <1>2, <1>3 DEF NamesIn
<1>5. ReadIn(line) = ReadIn(Original[i])
  BY <1>2, <1>3 DEF ReadIn
<1> QED BY <1>4, <1>5

\* A declaration that was kept.
LEMMA KeptDeclares ==
    ASSUME Holds, NEW i \in Lines, NEW c, IsKept(i, c)
    PROVE  /\ Final(i)[c].op = Original[i].op /\ Final(i)[c].blk = Original[i].blk
           /\ Final(i)[c].flags = Original[i].flags
           /\ Original[i].blk = <<>> => /\ NamesIn(Final(i)[c]) = NamesIn(Original[i])
                                        /\ ReadIn(Final(i)[c]) = ReadIn(Original[i])
<1>1. PICK line : line = Final(i)[c] /\ Version(line, i, Len(varDecls))
  BY DEF IsKept
<1>2. line.op = Original[i].op /\ line.blk = Original[i].blk /\ line.flags = Original[i].flags
  BY <1>1 DEF Version
<1>3. Original[i].blk = <<>> =>
         NamesIn(line) = NamesIn(Original[i]) /\ ReadIn(line) = ReadIn(Original[i])
  BY <1>1, VersionBody DEF Holds
<1> QED BY <1>1, <1>2, <1>3

\* What was written for its names.
LEMMA KeptNames ==
    ASSUME Holds, NEW i \in Lines, NEW c, IsKept(i, c)
    PROVE  /\ DOMAIN Final(i)[c].vars = DOMAIN Original[i].vars
           /\ \A q \in DOMAIN Final(i)[c].vars :
                 /\ Origin(Final(i)[c].vars[q].name) = Original[i].vars[q].name
                 /\ Original[i].vars[q].name \in NamesIn(Original[i])
<1>1. PICK line : line = Final(i)[c] /\ Version(line, i, Len(varDecls))
  BY DEF IsKept
<1>2. DOMAIN line.vars = DOMAIN Original[i].vars
  BY <1>1 DEF Version
<1>3. \A q \in DOMAIN line.vars : Origin(line.vars[q].name) = Original[i].vars[q].name
  <2>1. PICK m : Version(line, i, m)
    BY <1>1
  <2>2. function \in Functions /\ MovedInv
    BY DEF Holds
  <2> QED BY <2>1, <2>2, VersionNames
<1>4. \A q \in DOMAIN line.vars : Original[i].vars[q].name \in NamesIn(Original[i])
  BY <1>2 DEF NamesIn
<1> QED BY <1>1, <1>2, <1>3, <1>4

\* A declaration that is inserted.
LEMMA DeclarationIs ==
    ASSUME NEW name, NEW flags
    PROVE  /\ Declaration(name, flags).op = IF "type" \in flags THEN "garbage" ELSE "decl"
           /\ Declaration(name, flags).blk = <<>> /\ Declaration(name, flags).flags = flags
           /\ DOMAIN Declaration(name, flags).vars = {1}
           /\ NamesIn(Declaration(name, flags)) = {name}
           /\ ReadIn(Declaration(name, flags)) = {}
<1>1. /\ DOMAIN Declaration(name, flags).vars = {1} /\ Declaration(name, flags).vars[1].name = name
      /\ Declaration(name, flags).vars[1].init = NoInit
  BY DEF Declaration
<1> QED BY <1>1 DEF Declaration, NamesIn, ReadIn

\* That of a variable that was moved.
LEMMA HoistedDeclares ==
    ASSUME Holds, NEW i \in Lines, NEW c, IsHoisted(i, c)
    PROVE  /\ i = 1 /\ c - 1 \in DOMAIN varDecls
           /\ Final(i)[c].op = IF "type" \in varDecls[c - 1].flags THEN "garbage" ELSE "decl"
           /\ Final(i)[c].blk = <<>> /\ Final(i)[c].flags = varDecls[c - 1].flags
           /\ DOMAIN Final(i)[c].vars = {1}
           /\ NamesIn(Final(i)[c]) = {varDecls[c - 1].name} /\ ReadIn(Final(i)[c]) = {}
           /\ varDecls[c - 1].name \notin NamesOf(fncDecls)
<1>1. varDecls[c - 1].name \notin NamesOf(fncDecls)
  BY ApartEach DEF Holds, MovedInv, IsHoisted
<1>2. Final(i)[c] = Declaration(varDecls[c - 1].name, varDecls[c - 1].flags)
  BY DEF IsHoisted
<1> QED BY <1>1, <1>2, DeclarationIs DEF IsHoisted

\* That of a variable that was separated.
LEMMA SeparateDeclares ==
    ASSUME Holds, stage = "seperate_decl_init", NEW i \in Lines, NEW c, IsSeparate(i, c)
    PROVE  /\ Final(i)[c].blk = <<>> /\ ~Has(Final(i)[c], "readonly")
           /\ DOMAIN Final(i)[c].vars = {1} /\ ReadIn(Final(i)[c]) = {}
           /\ \E h \in Lines : /\ Separates(Original[h])
                               /\ NamesIn(Final(i)[c]) \subseteq NamesIn(Original[h])
                               /\ NamesIn(Final(i)[c]) \subseteq NamesOf(fncDecls)
                               /\ Final(i)[c].op = IF Has(Original[h], "type") THEN "garbage" ELSE "decl"
<1>1. Final(i)[c] \in ToSet(AllDeclarations)
  BY DEF IsSeparate, ToSet
<1>2. PICK h \in Lines : \E n \in NamesIn(Original[h]) : Declared(Final(i)[c], h, n)
  BY <1>1, DeclarationsGathered DEF Holds
<1>3. PICK n \in NamesIn(Original[h]) : Declared(Final(i)[c], h, n)
  BY <1>2
<1>4. Separates(Original[h])
  BY <1>3 DEF Declared
<1>5. n \in NamesOf(fncDecls)
  <2>1. h \in Body
    BY <1>4 DEF Body, Separates
  <2>2. NamesOf(fncDecls) = UNION {NamesIn(Original[g]) : g \in Body}
    BY LastLine DEF Holds
  <2> QED BY <1>3, <2>1, <2>2
<1>6. PICK e : e = Final(i)[c]
  OBVIOUS
<1>7. /\ e.blk = <<>> /\ DOMAIN e.vars = {1} /\ NamesIn(e) = {n} /\ ReadIn(e) = {}
      /\ e.flags \subseteq {"type"} /\ e.op = IF Has(Original[h], "type") THEN "garbage" ELSE "decl"
  BY <1>3, <1>6, DeclaredIs DEF Holds
<1> QED BY <1>4, <1>5, <1>6, <1>7 DEF Has

\* There are no other declarations.
LEMMA DeclarationKinds ==
    ASSUME Holds, stage = "seperate_decl_init", NEW i \in Lines, NEW c \in DOMAIN Final(i),
           Final(i)[c].op = "decl"
    PROVE  IsKept(i, c) \/ IsHoisted(i, c) \/ IsSeparate(i, c)
<1>1. ~IsGarbage(i, c) /\ ~IsLeft(i, c) /\ ~IsInitial(i, c)
  BY DEF IsGarbage, IsLeft, IsInitial, Assigns, AssignsSeparate
<1> QED BY <1>1, FinalKinds

\* A line of the body that declares, and is not the head.
LEMMA BodyDeclares ==
    ASSUME Holds, stage = "seperate_decl_init", NEW i \in Lines,
           Original[i].op = "decl", Original[i].blk = <<>>, i # 1
    PROVE  NamesIn(Original[i]) \subseteq NamesOf(fncDecls)
<1>1. i \in Body
  BY TheNames DEF Holds, Body
<1>2. NamesOf(fncDecls) = UNION {NamesIn(Original[g]) : g \in Body}
  BY LastLine DEF Holds
<1> QED BY <1>1, <1>2

\* What declares a name twice in the body.
Clashing ==
    \E h \in Lines : \/ Moves(Original[h]) /\ NamesIn(Original[h]) \cap NamesIn(Original[1]) # {}
                     \/ Separates(Original[h]) /\ Has(Original[h], "comment")

\* A declaration of the result has no name twice.
LEMMA DistinctNames ==
    ASSUME Holds, stage = "seperate_decl_init", Compiles(Original, function.globals),
           NEW i \in Lines, NEW c \in DOMAIN Final(i), Final(i)[c].op = "decl",
           NEW q \in DOMAIN Final(i)[c].vars, NEW r \in DOMAIN Final(i)[c].vars,
           Final(i)[c].vars[q].name = Final(i)[c].vars[r].name
    PROVE  q = r
<1>1. CASE IsKept(i, c)
  <2>1. Original[i].vars[q].name = Original[i].vars[r].name
    BY <1>1, KeptNames
  <2>2. q \in DOMAIN Original[i].vars /\ r \in DOMAIN Original[i].vars
    BY <1>1, KeptNames
  <2>3. Original[i].op = "decl"
    BY <1>1, KeptDeclares
  <2>4. i \in DOMAIN Original
    BY DEF Lines, Original
  <2> QED BY <2>1, <2>2, <2>3, <2>4 DEF Compiles
<1>2. CASE IsHoisted(i, c)
  BY <1>2, HoistedDeclares
<1>3. CASE IsSeparate(i, c)
  BY <1>3, SeparateDeclares
<1> QED BY <1>1, <1>2, <1>3, DeclarationKinds

\* A line that was kept declares a name that another declares in the same block
\* only if that was moved there from a line with a parameter's name, or if it was
\* separated and kept.
LEMMA KeptClashes ==
    ASSUME Holds, stage = "seperate_decl_init", Compiles(Original, function.globals),
           NEW i \in Lines, NEW c \in DOMAIN Final(i), IsKept(i, c), Final(i)[c].op = "decl",
           NEW j \in Lines, NEW d \in DOMAIN Final(j), Final(j)[d].op = "decl",
           i # j \/ c # d, Final(i)[c].blk = Final(j)[d].blk,
           NEW n, n \in NamesIn(Final(i)[c]), n \in NamesIn(Final(j)[d])
    PROVE  Clashing
<1>1. function \in Functions /\ Original[i].op = "decl" /\ Final(i)[c].blk = Original[i].blk
  BY KeptDeclares DEF Holds
<1>2. CASE IsKept(j, d)
  <2>1. i # j /\ Original[j].op = "decl" /\ Original[j].blk = Original[i].blk
    BY <1>1, <1>2, KeptDeclares DEF IsKept
  <2>2. PICK q \in DOMAIN Final(i)[c].vars : Final(i)[c].vars[q].name = n
    BY DEF NamesIn
  <2>3. PICK r \in DOMAIN Final(j)[d].vars : Final(j)[d].vars[r].name = n
    BY DEF NamesIn
  <2>4. Original[i].vars[q].name = Origin(n) /\ Origin(n) \in NamesIn(Original[i])
    BY <2>2, KeptNames
  <2>5. Original[j].vars[r].name = Origin(n) /\ Origin(n) \in NamesIn(Original[j])
    BY <1>2, <2>3, KeptNames
  <2>6. i = j
    BY <1>1, <2>1, <2>4, <2>5, SameBlock
  <2> QED BY <2>1, <2>6
<1>3. CASE IsHoisted(j, d)
  <2>1. Original[i].blk = <<>> /\ n = varDecls[d - 1].name /\ d - 1 \in DOMAIN varDecls
    <3>1. Final(j)[d].blk = <<>> /\ NamesIn(Final(j)[d]) = {varDecls[d - 1].name}
      BY <1>3, HoistedDeclares
    <3>2. d - 1 \in DOMAIN varDecls
      BY <1>3, HoistedDeclares
    <3> QED BY <1>1, <3>1, <3>2
  <2>2. n \in NamesIn(Original[i])
    BY <1>1, <2>1, KeptDeclares
  <2>3. n \notin NamesOf(fncDecls)
    BY <1>3, <2>1, HoistedDeclares
  <2>4. i = 1
    BY <1>1, <2>1, <2>2, <2>3, BodyDeclares
  <2>5. n \in Name \X {0}
    BY <1>1, <2>2, TheNames
  <2>6. varDecls[d - 1].old = n
    BY <2>1, <2>5, MovedVariable DEF Holds
  <2>7. PICK h \in Lines : Moved(h) /\ OfLine(varDecls[d - 1], h)
    BY <2>1 DEF Holds, MovedInv
  <2>8. Moves(Original[h]) /\ n \in NamesIn(Original[h])
    BY <2>6, <2>7 DEF Moved, OfLine
  <2> QED BY <2>2, <2>4, <2>8 DEF Clashing
<1>4. CASE IsSeparate(j, d)
  <2>1. Original[i].blk = <<>>
    BY <1>1, <1>4, SeparateDeclares
  <2>2. n \in NamesIn(Original[i])
    BY <2>1, KeptDeclares
  <2>3. PICK h \in Lines : Separates(Original[h]) /\ n \in NamesIn(Original[h])
    BY <1>4, SeparateDeclares
  <2>4. Original[h].op = "decl" /\ Original[h].blk = <<>>
    BY <2>3 DEF Separates, Declares
  <2>5. i = h
    BY <1>1, <2>1, <2>2, <2>3, <2>4, SameBlock
  <2>6. Has(Original[h], "comment")
    BY <2>3, <2>5 DEF IsKept
  <2> QED BY <2>3, <2>6 DEF Clashing
<1> QED BY <1>2, <1>3, <1>4, DeclarationKinds

\* Variables that were moved or separated are declared once.
LEMMA OthersClash ==
    ASSUME Holds, stage = "seperate_decl_init", Compiles(Original, function.globals),
           NEW i \in Lines, NEW c \in DOMAIN Final(i),
           NEW j \in Lines, NEW d \in DOMAIN Final(j),
           IsHoisted(i, c) \/ IsSeparate(i, c), IsHoisted(j, d) \/ IsSeparate(j, d),
           NEW n, n \in NamesIn(Final(i)[c]), n \in NamesIn(Final(j)[d])
    PROVE  i = j /\ c = d
<1>0. DOMAIN Final(i) = 1..Len(Final(i)) /\ DOMAIN Final(j) = 1..Len(Final(j)) /\ c \in Int /\ d \in Int
  BY FinalLines
<1>1. CASE IsHoisted(i, c) /\ IsHoisted(j, d)
  <2>1. i = 1 /\ j = 1 /\ varDecls[c - 1].name = n /\ varDecls[d - 1].name = n
    <3>1. i = 1 /\ NamesIn(Final(i)[c]) = {varDecls[c - 1].name}
      BY <1>1, HoistedDeclares
    <3>2. j = 1 /\ NamesIn(Final(j)[d]) = {varDecls[d - 1].name}
      BY <1>1, HoistedDeclares
    <3> QED BY <3>1, <3>2
  <2>2. c - 1 \in DOMAIN varDecls /\ d - 1 \in DOMAIN varDecls
    BY <1>1, HoistedDeclares
  <2>3. c - 1 = d - 1
    BY <2>1, <2>2, ApartEach DEF Holds, MovedInv
  <2> QED BY <1>0, <2>1, <2>3
<1>2. CASE IsSeparate(i, c) /\ IsSeparate(j, d)
  <2>1. i = Site /\ j = Site
    BY <1>2 DEF IsSeparate
  <2> DEFINE a == c - Len(Own(i))
             b == d - Len(Own(i))
  <2>2. /\ a \in DOMAIN AllDeclarations /\ b \in DOMAIN AllDeclarations
        /\ Final(i)[c] = AllDeclarations[a] /\ Final(j)[d] = AllDeclarations[b]
    BY <1>2, <2>1 DEF IsSeparate
  <2> HIDE DEF a, b
  <2>3. ASSUME NEW e \in ToSet(AllDeclarations), n \in NamesIn(e)
        PROVE  \E h \in Lines : n \in NamesIn(Original[h]) /\ Declared(e, h, n)
    <3>1. PICK h \in Lines : \E m \in NamesIn(Original[h]) : Declared(e, h, m)
      BY DeclarationsGathered DEF Holds
    <3>2. PICK m \in NamesIn(Original[h]) : Declared(e, h, m)
      BY <3>1
    <3>3. m = n
      BY <2>3, <3>2, DeclaredIs DEF Holds
    <3> QED BY <3>2, <3>3
  <2>4. AllDeclarations[a] = AllDeclarations[b]
    <3>1. PICK e \in ToSet(AllDeclarations) : e = AllDeclarations[a] /\ n \in NamesIn(e)
      BY <2>2 DEF ToSet
    <3>2. PICK f \in ToSet(AllDeclarations) : f = AllDeclarations[b] /\ n \in NamesIn(f)
      BY <2>2 DEF ToSet
    <3>3. PICK g \in Lines : n \in NamesIn(Original[g]) /\ Declared(e, g, n)
      BY <2>3, <3>1
    <3>4. PICK h \in Lines : n \in NamesIn(Original[h]) /\ Declared(f, h, n)
      BY <2>3, <3>2
    <3>5. /\ Original[g].op = "decl" /\ Original[h].op = "decl" /\ Original[g].blk = Original[h].blk
      BY <3>3, <3>4 DEF Declared, Separates, Declares
    <3>6. g = h
      BY <3>3, <3>4, <3>5, SameBlock DEF Holds
    <3> QED BY <3>1, <3>2, <3>3, <3>4, <3>6 DEF Declared
  <2>5. a = b
    BY <2>2, <2>4, DeclarationsGathered DEF Holds, IsInjective
  <2>6. Len(Own(i)) \in Nat
    BY OwnLines
  <2> QED BY <1>0, <2>1, <2>5, <2>6 DEF a, b
<1>3. IsHoisted(i, c) => n \notin NamesOf(fncDecls)
  BY HoistedDeclares
<1>4. IsHoisted(j, d) => n \notin NamesOf(fncDecls)
  BY HoistedDeclares
<1>5. IsSeparate(i, c) => n \in NamesOf(fncDecls)
  BY SeparateDeclares
<1>6. IsSeparate(j, d) => n \in NamesOf(fncDecls)
  BY SeparateDeclares
<1> QED BY <1>1, <1>2, <1>3, <1>4, <1>5, <1>6

\* So two declarations of a block clash only for these reasons.
LEMMA Clashes ==
    ASSUME Holds, stage = "seperate_decl_init", Compiles(Original, function.globals),
           NEW i \in Lines, NEW c \in DOMAIN Final(i), Final(i)[c].op = "decl",
           NEW j \in Lines, NEW d \in DOMAIN Final(j), Final(j)[d].op = "decl",
           i # j \/ c # d, Final(i)[c].blk = Final(j)[d].blk,
           NEW n, n \in NamesIn(Final(i)[c]), n \in NamesIn(Final(j)[d])
    PROVE  Clashing
<1>1. CASE IsKept(i, c)
  BY <1>1, KeptClashes
<1>2. CASE IsKept(j, d)
  BY <1>2, KeptClashes
<1>3. CASE ~IsKept(i, c) /\ ~IsKept(j, d)
  BY <1>3, OthersClash, DeclarationKinds
<1> QED BY <1>1, <1>2, <1>3

-----------------------------------------------------------------------------
(* The result. *)

Result == FlattenSeq([i \in Lines |-> Final(i)])

\* Line p of the result is what stands at col[p] of what there is of line row[p].
Ends(row, col) ==
    /\ Result \in Seq(LineType) /\ DOMAIN Result = 1..Len(Result) /\ Len(Result) \in Nat
    /\ \A p \in DOMAIN Result : /\ row[p] \in Lines /\ col[p] \in DOMAIN Final(row[p])
                                /\ Result[p] = Final(row[p])[col[p]]
    /\ \A p, q \in DOMAIN Result : p # q => row[p] # row[q] \/ col[p] # col[q]
    /\ \A p, q \in DOMAIN Result :
          row[p] < row[q] \/ (row[p] = row[q] /\ col[p] < col[q]) => p < q
    /\ \A i \in Lines : \A c \in DOMAIN Final(i) : \E p \in DOMAIN Result : row[p] = i /\ col[p] = c

\* The lines of the result stand in their order.
LEMMA ResultLines ==
    ASSUME Holds, stage = "seperate_decl_init"
    PROVE  \E row, col : Ends(row, col)
<1> DEFINE ss == [i \in Lines |-> Final(i)]
<1>1. Lines = 1..Len(Original) /\ Len(Original) \in Nat
  BY TheText DEF Holds
<1>2. \A i \in Lines : Final(i) \in Seq(LineType) /\ DOMAIN Final(i) = 1..Len(Final(i))
  BY FinalLines
<1>3. ss \in Seq(Seq(LineType)) /\ Len(ss) = Len(Original) /\ \A i \in Lines : ss[i] = Final(i)
  <2>1. ss \in [1..Len(Original) -> Seq(LineType)]
    BY <1>1, <1>2
  <2>2. \A i \in Lines : ss[i] = Final(i)
    OBVIOUS
  <2> HIDE DEF ss
  <2>3. ss \in Seq(Seq(LineType))
    BY <1>1, <2>1, SeqDef
  <2>4. DOMAIN ss = 1..Len(ss) /\ Len(ss) \in Nat /\ DOMAIN ss = 1..Len(Original)
    BY <2>1, <2>3, LenProperties
  <2>5. Len(ss) = Len(Original)
    BY <1>1, <2>3, <2>1, LenProperties
  <2> QED BY <2>2, <2>3, <2>5
<1>4. Result = FlattenSeq(ss)
  BY DEF Result
<1> HIDE DEF ss
<1>5. PICK row, col : Placed(ss, Result, Len(Original), row, col)
  BY <1>3, <1>4, FlattenOrder
<1>6. Result \in Seq(LineType)
  BY <1>3, <1>4, FlattenHolds
<1>7. DOMAIN Result = 1..Len(Result) /\ Len(Result) \in Nat
  BY <1>6, LenProperties
<1>8. \A p \in DOMAIN Result : /\ row[p] \in Lines /\ col[p] \in DOMAIN Final(row[p])
                               /\ Result[p] = Final(row[p])[col[p]]
  BY <1>1, <1>3, <1>5 DEF Placed
<1>9. \A p, q \in DOMAIN Result : p < q => row[p] < row[q] \/ (row[p] = row[q] /\ col[p] < col[q])
  BY <1>5 DEF Placed
<1>10. \A i \in Lines : \A c \in DOMAIN Final(i) : \E p \in DOMAIN Result : row[p] = i /\ col[p] = c
  BY <1>1, <1>3, <1>5 DEF Placed
<1>11. \A p \in DOMAIN Result : row[p] \in Nat /\ col[p] \in Nat
  <2>1. ASSUME NEW p \in DOMAIN Result PROVE row[p] \in Nat /\ col[p] \in Nat
    <3>1. row[p] \in Lines /\ col[p] \in DOMAIN Final(row[p])
      BY <1>8
    <3>2. DOMAIN Final(row[p]) = 1..Len(Final(row[p]))
      BY <1>2, <3>1
    <3> QED BY <1>1, <3>1, <3>2
  <2> QED BY <2>1
<1>12. ASSUME NEW p \in DOMAIN Result, NEW q \in DOMAIN Result
       PROVE  /\ p # q => row[p] # row[q] \/ col[p] # col[q]
              /\ row[p] < row[q] \/ (row[p] = row[q] /\ col[p] < col[q]) => p < q
  <2>1. p < q \/ p = q \/ q < p
    BY <1>7
  <2>2. row[p] \in Nat /\ col[p] \in Nat /\ row[q] \in Nat /\ col[q] \in Nat
    BY <1>11
  <2>3. p < q => row[p] < row[q] \/ (row[p] = row[q] /\ col[p] < col[q])
    BY <1>9
  <2>4. q < p => row[q] < row[p] \/ (row[q] = row[p] /\ col[q] < col[p])
    BY <1>9
  <2> QED BY <2>1, <2>2, <2>3, <2>4
<1>13. Ends(row, col)
  BY <1>6, <1>7, <1>8, <1>10, <1>12 DEF Ends
<1> QED BY <1>13

\* What a name resolves to.
LEMMA Resolves ==
    ASSUME NEW t, NEW i \in Nat \ {0}, NEW n
    PROVE  LET d == Resolve(t, i, n)
           IN  /\ d \in 0..(i - 1)
               /\ d # 0 => t[d].op = "decl" /\ n \in NamesIn(t[d]) /\ IsPrefix(t[d].blk, t[i].blk)
               /\ \A j \in 1..(i - 1) :
                     t[j].op = "decl" /\ n \in NamesIn(t[j]) /\ IsPrefix(t[j].blk, t[i].blk) => j <= d
<1> DEFINE In(j) == t[j].op = "decl" /\ n \in NamesIn(t[j]) /\ IsPrefix(t[j].blk, t[i].blk)
           S == {0} \cup {j \in 1..(i - 1) : In(j)}
<1>1. Resolve(t, i, n) = Max(S)
  BY DEF Resolve
<1> HIDE DEF In
<1>2. S \in SUBSET (0..(i - 1)) /\ S # {} /\ i - 1 \in Nat
  OBVIOUS
<1>3. \A j \in S : j = 0 \/ (j \in 1..(i - 1) /\ In(j))
  OBVIOUS
<1>4. \A j \in 1..(i - 1) : In(j) => j \in S
  OBVIOUS
<1> HIDE DEF S
<1>5. Max(S) \in S /\ \A x \in S : Max(S) >= x
  BY <1>2, Extremes
<1>6. Resolve(t, i, n) \in 0..(i - 1) /\ (Resolve(t, i, n) # 0 => In(Resolve(t, i, n)))
  BY <1>1, <1>2, <1>3, <1>5
<1>7. ASSUME NEW j \in 1..(i - 1), In(j) PROVE j <= Resolve(t, i, n)
  <2>1. j \in S
    BY <1>4, <1>7
  <2>2. Max(S) >= j /\ Max(S) \in 0..(i - 1)
    BY <1>2, <1>5, <2>1
  <2> QED BY <1>1, <2>2
<1> QED BY <1>6, <1>7 DEF In

-----------------------------------------------------------------------------
(* Of harmless functions the result compiles. *)

\* The constants of the result are those of the body.
LEMMA ConstKept ==
    ASSUME Holds, stage = "seperate_decl_init", Usual, Harmless,
           NEW j \in Lines, NEW e \in DOMAIN Final(j),
           Final(j)[e].op = "decl", Has(Final(j)[e], "readonly")
    PROVE  /\ IsKept(j, e) /\ j # 1 /\ Declares(Original[j]) /\ Has(Original[j], "readonly")
           /\ Original[j].op = "decl" /\ Original[j].blk = <<>>
           /\ NamesIn(Final(j)[e]) = NamesIn(Original[j])
           /\ NamesIn(Original[j]) \subseteq NamesOf(fncDecls)
<1>1. ~IsHoisted(j, e)
  <2>1. SUFFICES ASSUME IsHoisted(j, e) PROVE FALSE
    OBVIOUS
  <2>2. e - 1 \in DOMAIN varDecls /\ "readonly" \in varDecls[e - 1].flags
    BY <2>1, HoistedDeclares DEF Has
  <2>3. PICK h \in Lines : Moved(h) /\ OfLine(varDecls[e - 1], h)
    BY <2>2 DEF Holds, MovedInv
  <2>4. Moves(Original[h]) /\ Has(Original[h], "readonly")
    BY <2>2, <2>3 DEF Moved, OfLine, Has
  <2>5. Declares(Original[h]) /\ Original[h].blk # <<>>
    BY <2>4 DEF Moves
  <2>6. Initialised(Original[h])
    BY <2>4, <2>5 DEF Usual
  <2> QED BY <2>4, <2>6 DEF Harmless
<1>2. ~IsSeparate(j, e)
  BY SeparateDeclares DEF Has
<1>3. IsKept(j, e)
  BY <1>1, <1>2, DeclarationKinds
<1>4. Original[j].op = "decl" /\ Has(Original[j], "readonly")
  BY <1>3, KeptDeclares DEF Has
<1>5. j # 1
  BY <1>4, TheText DEF Holds, Has
<1>6. Declares(Original[j])
  BY <1>4, <1>5, TheNames DEF Holds
<1>7. Original[j].blk = <<>>
  BY <1>3, <1>4, <1>6 DEF Usual, IsKept
<1> QED BY <1>3, <1>4, <1>5, <1>6, <1>7, KeptDeclares, BodyDeclares

\* Without renamings within renamed blocks a renaming reaches only its block.
LEMMA ReachesInParent ==
    ASSUME Usual, NEW k \in DOMAIN varDecls, NEW old, NEW blk, Renames(k, old, blk)
    PROVE  /\ Renaming(k) /\ Enclosing(k) = {} /\ varDecls[k].old = old
           /\ InParent(varDecls[k], blk)
<1>1. Renaming(k) /\ varDecls[k].old = old
  BY DEF Renames
<1>2. Enclosing(k) = {}
  BY <1>1 DEF Usual
<1> QED BY <1>1, <1>2 DEF Renames, Reaches

\* What is assigned to a constant of the body stands for an inner variable, which
\* moved out of the block or still hides the constant.
LEMMA KeptAssigns ==
    ASSUME Holds, stage = "seperate_decl_init", Usual, Compiles(Original, function.globals),
           NEW i \in Lines, IsKept(i, 1), Original[i].op = "set",
           NEW j \in Lines, j < i, Has(Original[j], "readonly"), Original[j].op = "decl",
           Original[j].blk = <<>>, NEW n, n = Final(i)[1].vars[1].name,
           n \in NamesIn(Original[j]), n \in NamesOf(fncDecls)
    PROVE  \E h \in Lines : /\ j < h /\ h < i /\ 1 \in DOMAIN Final(h) /\ Final(h)[1].op = "decl"
                            /\ n \in NamesIn(Final(h)[1])
                            /\ IsPrefix(Final(h)[1].blk, Final(i)[1].blk)
<1>1. /\ function \in Functions /\ MovedInv /\ Lines = DOMAIN Original
      /\ Lines = 1..Len(Original) /\ Len(Original) \in Nat
  BY TheText DEF Holds, Lines, Original
<1>2. \A k \in DOMAIN varDecls : varDecls[k].name # n
  BY <1>1, ApartEach DEF MovedInv
<1>3. PICK line : line = Final(i)[1] /\ Version(line, i, Len(varDecls))
  BY DEF IsKept
<1>4. 1 \in DOMAIN line.vars /\ 1 \in DOMAIN Original[i].vars /\ line.blk = Original[i].blk
  <2>1. DOMAIN Original[i].vars = 1..1
    BY <1>1, TheText, TheNames
  <2> QED BY <1>3, <2>1 DEF Version
<1>5. n = Original[i].vars[1].name
  BY <1>2, <1>3, <1>4, VersionFrom
<1>6. ASSUME NEW k \in DOMAIN varDecls, InParent(varDecls[k], Original[i].blk), varDecls[k].old = n
      PROVE  FALSE
  <2>1. Original[i].vars[1].ctx = "plain"
    BY DEF Usual
  <2>2. k <= Len(varDecls)
    BY <1>1, LenProperties DEF MovedInv
  <2>3. Renaming(k) /\ Enclosing(k) = {}
    BY <1>2, <1>6 DEF Renaming, Usual
  <2>4. Renames(k, Original[i].vars[1].name, line.blk)
    BY <1>4, <1>5, <1>6, <2>3 DEF Renames, Reaches
  <2>5. line.vars[1].name # Original[i].vars[1].name
    BY <1>3, <1>4, <2>1, <2>2, <2>3, <2>4, VersionEach
  <2> QED BY <1>3, <1>5, <2>5
<1> DEFINE h == Resolve(Original, i, n)
<1>7. /\ h \in 0..(i - 1)
      /\ h # 0 => Original[h].op = "decl" /\ n \in NamesIn(Original[h])
                  /\ IsPrefix(Original[h].blk, Original[i].blk)
      /\ j <= h
  <2>1. i \in Nat \ {0} /\ j \in 1..(i - 1)
    BY <1>1
  <2>2. IsPrefix(Original[j].blk, Original[i].blk)
    BY <1>1, PrefixBody, TheNames
  <2> QED BY <2>1, <2>2, Resolves
<1>8. ~Has(Original[h], "readonly") /\ h \in Lines
  <2>1. h > 0 /\ h \in Lines
    BY <1>1, <1>7
  <2>2. h > 0 => ~Has(Original[h], "readonly")
    BY <1>1, <1>5 DEF Compiles
  <2> QED BY <2>1, <2>2
<1> HIDE DEF h
<1>9. j < h /\ h < i /\ h # 0 /\ h # 1
  <2>1. h # j
    BY <1>8
  <2> QED BY <1>1, <1>7, <2>1
<1>10. /\ Original[h].op = "decl" /\ n \in NamesIn(Original[h])
       /\ IsPrefix(Original[h].blk, Original[i].blk) /\ Declares(Original[h])
  BY <1>1, <1>7, <1>8, <1>9, TheNames
<1>11. Original[h].blk # <<>>
  BY <1>1, <1>8, <1>9, <1>10, SameBlock
<1>12. ~Moves(Original[h])
  <2>1. SUFFICES ASSUME Moves(Original[h]) PROVE FALSE
    OBVIOUS
  <2>2. Moved(h)
    BY <2>1 DEF Moved
  <2>3. PICK k \in DOMAIN varDecls : OfLine(varDecls[k], h) /\ varDecls[k].old = n
    BY <1>1, <1>8, <1>10, <2>2 DEF MovedInv
  <2>4. InParent(varDecls[k], Original[i].blk)
    BY <1>10, <2>3 DEF OfLine, InParent
  <2> QED BY <1>6, <2>3, <2>4
<1>13. ~Separates(Original[h])
  BY <1>11 DEF Separates
<1>14. 1 \in DOMAIN Final(h) /\ IsKept(h, 1)
  BY <1>8, <1>12, <1>13, KeptPresent
<1>15. Final(h)[1].op = "decl" /\ Final(h)[1].blk = Original[h].blk
  BY <1>8, <1>10, <1>14, KeptDeclares
<1>16. n \in NamesIn(Final(h)[1])
  <2>1. PICK other : other = Final(h)[1] /\ Version(other, h, Len(varDecls))
    BY <1>14 DEF IsKept
  <2>2. PICK q \in DOMAIN other.vars : Original[h].vars[q].name = n
    BY <1>10, <2>1 DEF Version, NamesIn
  <2>3. other.vars[q].name = n
    <3>1. SUFFICES ASSUME other.vars[q].name # n PROVE FALSE
      OBVIOUS
    <3>2. PICK k \in DOMAIN varDecls : InParent(varDecls[k], Original[h].blk) /\ varDecls[k].old = n
      BY <1>8, <2>1, <2>2, <3>1, VersionFrom, ReachesInParent
    <3>3. varDecls[k].blk \in Seq(Nat) /\ Original[h].blk \in Seq(Nat) /\ Original[i].blk \in Seq(Nat)
      BY <1>1, <1>8, MovedVariable, TheNames
    <3>4. InParent(varDecls[k], Original[i].blk)
      BY <1>10, <3>2, <3>3, PrefixChain DEF InParent
    <3> QED BY <1>6, <3>2, <3>4
  <2> QED BY <2>1, <2>3 DEF NamesIn
<1>17. IsPrefix(Final(h)[1].blk, Final(i)[1].blk)
  BY <1>3, <1>4, <1>10, <1>15
<1> QED BY <1>8, <1>9, <1>14, <1>15, <1>16, <1>17

\* Nothing is assigned to a constant.
LEMMA NoConstantAssigned ==
    ASSUME Holds, stage = "seperate_decl_init", Usual, Harmless,
           Compiles(Original, function.globals),
           NEW row, NEW col, Ends(row, col), NEW p \in DOMAIN Result, Result[p].op = "set",
           NEW n, n = Result[p].vars[1].name, NEW d, d = Resolve(Result, p, n), d > 0,
           Has(Result[d], "readonly")
    PROVE  FALSE
<1>1. /\ DOMAIN Result = 1..Len(Result) /\ Len(Result) \in Nat
      /\ \A q \in DOMAIN Result : /\ row[q] \in Lines /\ col[q] \in DOMAIN Final(row[q])
                                  /\ Result[q] = Final(row[q])[col[q]]
  BY DEF Ends
<1>2. /\ d \in 1..(p - 1) /\ d \in DOMAIN Result
      /\ Result[d].op = "decl" /\ n \in NamesIn(Result[d]) /\ IsPrefix(Result[d].blk, Result[p].blk)
      /\ \A x \in 1..(p - 1) : Result[x].op = "decl" /\ n \in NamesIn(Result[x])
                               /\ IsPrefix(Result[x].blk, Result[p].blk) => x <= d
  <2>1. p \in Nat \ {0}
    BY <1>1
  <2>2. /\ d \in 0..(p - 1)
        /\ d # 0 => Result[d].op = "decl" /\ n \in NamesIn(Result[d])
                    /\ IsPrefix(Result[d].blk, Result[p].blk)
        /\ \A x \in 1..(p - 1) : Result[x].op = "decl" /\ n \in NamesIn(Result[x])
                                 /\ IsPrefix(Result[x].blk, Result[p].blk) => x <= d
    BY <2>1, Resolves
  <2>3. d # 0 /\ d \in 1..(p - 1) /\ d \in DOMAIN Result
    BY <1>1, <2>2
  <2> QED BY <2>2, <2>3
<1>i. PICK i \in Lines : row[p] = i
  BY <1>1
<1>3. PICK c \in DOMAIN Final(i) : row[p] = i /\ col[p] = c /\ Result[p] = Final(i)[c]
  BY <1>1, <1>i
<1>j. PICK j \in Lines : row[d] = j
  BY <1>1, <1>2
<1>4. PICK e \in DOMAIN Final(j) : row[d] = j /\ col[d] = e /\ Result[d] = Final(j)[e]
  BY <1>1, <1>2, <1>j
<1>5. /\ IsKept(j, e) /\ j # 1 /\ Declares(Original[j]) /\ Has(Original[j], "readonly")
      /\ Original[j].op = "decl" /\ Original[j].blk = <<>>
      /\ n \in NamesIn(Original[j]) /\ n \in NamesOf(fncDecls)
  <2>1. Final(j)[e].op = "decl" /\ Has(Final(j)[e], "readonly") /\ n \in NamesIn(Final(j)[e])
    BY <1>2, <1>4
  <2> QED BY <1>4, <2>1, ConstKept
<1>6. Final(i)[c].op = "set" /\ n = Final(i)[c].vars[1].name
  BY <1>3
<1>7. CASE IsLeft(i, c)
  <2>1. PICK k \in DOMAIN varDecls : n = varDecls[k].name
    BY <1>6, <1>7 DEF IsLeft, Assigns
  <2>2. n \notin NamesOf(fncDecls)
    BY <2>1, ApartEach DEF Holds, MovedInv
  <2> QED BY <1>5, <2>2
<1>8. CASE IsInitial(i, c)
  <2>1. AssignsSeparate(Final(i)[c])
    BY <1>8 DEF IsInitial
  <2>2. PICK h \in Lines : Separates(Original[h]) /\ n \in NamesIn(Original[h])
    BY <1>6, <2>1 DEF AssignsSeparate
  <2>3. /\ Original[h].op = "decl" /\ Original[h].blk = <<>>
        /\ ~Has(Original[h], "readonly")
    BY <2>2, TheText DEF Holds, Separates, Declares, Has
  <2>4. h = j
    BY <1>5, <2>2, <2>3, SameBlock DEF Holds
  <2> QED BY <1>5, <2>3, <2>4
<1>9. CASE IsKept(i, c)
  <2>1. c = 1 /\ e = 1 /\ Original[i].op = "set" /\ IsKept(i, 1)
    BY <1>5, <1>6, <1>9, KeptDeclares DEF IsKept
  <2>2. Lines = 1..Len(Original) /\ Len(Original) \in Nat
    BY TheText DEF Holds
  <2>3. j < i
    <3>1. i # j
      BY <1>5, <2>1
    <3>2. i < j => p < d
      BY <1>2, <1>3, <1>4 DEF Ends
    <3>3. ~(p < d)
      BY <1>1, <1>2
    <3> QED BY <2>2, <3>1, <3>2, <3>3
  <2>4. PICK h \in Lines : /\ j < h /\ h < i /\ 1 \in DOMAIN Final(h) /\ Final(h)[1].op = "decl"
                           /\ n \in NamesIn(Final(h)[1])
                           /\ IsPrefix(Final(h)[1].blk, Final(i)[1].blk)
    BY <1>5, <1>6, <2>1, <2>3, KeptAssigns
  <2>5. PICK x \in DOMAIN Result : row[x] = h /\ col[x] = 1
    BY <2>4 DEF Ends
  <2>6. Result[x] = Final(h)[1]
    BY <1>1, <2>5
  <2>7. d < x /\ x < p
    BY <1>2, <1>3, <1>4, <2>4, <2>5 DEF Ends
  <2>8. x \in 1..(p - 1) /\ ~(x <= d)
    BY <1>1, <1>2, <2>7
  <2>9. x <= d
    BY <1>2, <1>3, <2>1, <2>4, <2>6, <2>8
  <2> QED BY <2>8, <2>9
<1>10. ~IsHoisted(i, c) /\ ~IsSeparate(i, c) /\ ~IsGarbage(i, c)
  BY <1>6, HoistedDeclares, SeparateDeclares DEF IsGarbage
<1> QED BY <1>3, <1>7, <1>8, <1>9, <1>10, FinalKinds

\* A name that is declared in the result before position c of line i.
DeclaredBefore(i, c, n) ==
    \E j \in Lines : \E d \in DOMAIN Final(j) :
        /\ j < i \/ (j = i /\ d < c)
        /\ Final(j)[d].op = "decl" /\ n \in NamesIn(Final(j)[d])
        /\ IsPrefix(Final(j)[d].blk, Final(i)[c].blk)

\* It is what resolves there.
LEMMA ResolvesBefore ==
    ASSUME Holds, stage = "seperate_decl_init", NEW row, NEW col, Ends(row, col),
           NEW p \in DOMAIN Result, NEW i \in Lines, NEW c \in DOMAIN Final(i),
           row[p] = i, col[p] = c, NEW n
    PROVE  Resolve(Result, p, n) > 0 <=> DeclaredBefore(i, c, n)
<1>1. /\ DOMAIN Result = 1..Len(Result) /\ Len(Result) \in Nat /\ p \in Nat \ {0}
      /\ Result[p] = Final(i)[c]
  BY DEF Ends
<1>2. PICK r : r = Resolve(Result, p, n)
  OBVIOUS
<1>3. /\ r \in 0..(p - 1)
      /\ r # 0 => Result[r].op = "decl" /\ n \in NamesIn(Result[r])
                  /\ IsPrefix(Result[r].blk, Result[p].blk)
      /\ \A x \in 1..(p - 1) : Result[x].op = "decl" /\ n \in NamesIn(Result[x])
                               /\ IsPrefix(Result[x].blk, Result[p].blk) => x <= r
  BY <1>1, <1>2, Resolves
<1>4. ASSUME r > 0 PROVE DeclaredBefore(i, c, n)
  <2>1. r \in DOMAIN Result /\ r < p
    BY <1>1, <1>3, <1>4
  <2>2. PICK j \in Lines : row[r] = j
    BY <2>1 DEF Ends
  <2>3. PICK d \in DOMAIN Final(j) : col[r] = d /\ Result[r] = Final(j)[d]
    BY <2>1, <2>2 DEF Ends
  <2>4. j < i \/ (j = i /\ d < c)
    <3>1. j # i \/ d # c
      BY <1>3, <2>1, <2>2, <2>3 DEF Ends
    <3>2. ~(i < j) /\ ~(i = j /\ c < d)
      <4>1. ~(p < r)
        BY <1>1, <2>1
      <4> QED BY <2>1, <2>2, <2>3, <4>1 DEF Ends
    <3>3. i \in Nat /\ j \in Nat
      BY TheText DEF Holds
    <3>4. c \in Nat /\ d \in Nat
      <4>1. c \in 1..Len(Final(i)) /\ d \in 1..Len(Final(j))
        BY FinalLines
      <4> QED BY <4>1
    <3> QED BY <3>1, <3>2, <3>3, <3>4
  <2> QED BY <1>1, <1>3, <1>4, <2>3, <2>4 DEF DeclaredBefore
<1>5. ASSUME DeclaredBefore(i, c, n) PROVE r > 0
  <2>1. PICK j \in Lines : \E d \in DOMAIN Final(j) :
            /\ j < i \/ (j = i /\ d < c)
            /\ Final(j)[d].op = "decl" /\ n \in NamesIn(Final(j)[d])
            /\ IsPrefix(Final(j)[d].blk, Final(i)[c].blk)
    BY <1>5 DEF DeclaredBefore
  <2>2. PICK d \in DOMAIN Final(j) :
            /\ j < i \/ (j = i /\ d < c)
            /\ Final(j)[d].op = "decl" /\ n \in NamesIn(Final(j)[d])
            /\ IsPrefix(Final(j)[d].blk, Final(i)[c].blk)
    BY <2>1
  <2>3. PICK x \in DOMAIN Result : row[x] = j /\ col[x] = d
    BY DEF Ends
  <2>4. Result[x] = Final(j)[d] /\ x < p
    BY <2>2, <2>3 DEF Ends
  <2>5. x \in 1..(p - 1)
    BY <1>1, <2>4
  <2>6. x <= r
    BY <1>1, <1>3, <2>2, <2>4, <2>5
  <2> QED BY <1>3, <2>5, <2>6
<1> QED BY <1>2, <1>4, <1>5, <1>3

\* Every line of the result is in the body.
LEMMA BlockBegins ==
    ASSUME Holds, stage = "seperate_decl_init", NEW i \in Lines, NEW c \in DOMAIN Final(i)
    PROVE  IsPrefix(<<>>, Final(i)[c].blk)
<1>1. Final(i) \in Seq(LineType) /\ c \in 1..Len(Final(i))
  BY FinalLines
<1>2. Final(i)[c] \in LineType
  BY <1>1, ElementOfSeq
<1>3. Final(i)[c].blk \in Seq(Nat)
  BY <1>2 DEF LineType
<1> QED BY <1>3, PrefixBody

\* Behind the head its parameters are declared.
LEMMA HeadBefore ==
    ASSUME Holds, stage = "seperate_decl_init", NEW i \in Lines, i # 1,
           NEW c \in DOMAIN Final(i), NEW n \in NamesIn(Original[1])
    PROVE  DeclaredBefore(i, c, n)
<1>1. /\ 1 \in Lines /\ Original[1].op = "decl" /\ Original[1].blk = <<>> /\ 1 < i
      /\ ~Moves(Original[1]) /\ ~Separates(Original[1])
  BY TheText, OwnLines DEF Holds
<1>2. 1 \in DOMAIN Final(1) /\ IsKept(1, 1)
  BY <1>1, KeptPresent
<1>3. Final(1)[1].op = "decl" /\ Final(1)[1].blk = <<>> /\ n \in NamesIn(Final(1)[1])
  BY <1>1, <1>2, KeptDeclares
<1>4. IsPrefix(Final(1)[1].blk, Final(i)[c].blk)
  BY <1>3, BlockBegins
<1> QED BY <1>1, <1>2, <1>3, <1>4 DEF DeclaredBefore

\* So are the variables that were moved.
LEMMA HoistedBefore ==
    ASSUME Holds, stage = "seperate_decl_init", Harmless, NEW i \in Lines, i # 1,
           NEW c \in DOMAIN Final(i), NEW n \in NamesOf(varDecls)
    PROVE  DeclaredBefore(i, c, n)
<1>1. PICK k \in DOMAIN varDecls : varDecls[k].name = n
  BY DEF NamesOf
<1>2. PICK d : d = k + 1
  OBVIOUS
<1>3. 1 \in Lines /\ d \in DOMAIN Final(1) /\ IsHoisted(1, d) /\ d - 1 = k /\ 1 < i
  <2>1. 1 \in Lines /\ k \in Nat /\ d \in DOMAIN Final(1) /\ IsHoisted(1, d)
    BY <1>2, HoistedPresent
  <2> QED BY <1>2, <2>1, TheText DEF Holds
<1>4. "type" \notin varDecls[k].flags
  <2>1. PICK h \in Lines : Moved(h) /\ OfLine(varDecls[k], h)
    BY DEF Holds, MovedInv
  <2> QED BY <2>1 DEF Moved, OfLine, Harmless, Has
<1>5. Final(1)[d].op = "decl" /\ Final(1)[d].blk = <<>> /\ NamesIn(Final(1)[d]) = {n}
  BY <1>1, <1>3, <1>4, HoistedDeclares
<1>6. IsPrefix(Final(1)[d].blk, Final(i)[c].blk)
  BY <1>5, BlockBegins
<1> QED BY <1>3, <1>5, <1>6 DEF DeclaredBefore

\* Behind the declarations that were separated.
Behind(i, c) == Site < i \/ (i = Site /\ c > Len(Own(i)) + Len(AllDeclarations))

\* There the variables of the body are declared.
LEMMA BodyBefore ==
    ASSUME Holds, stage = "seperate_decl_init", Harmless, NEW i \in Lines,
           NEW c \in DOMAIN Final(i), Behind(i, c), NEW d \in Body, NEW n \in NamesIn(Original[d])
    PROVE  DeclaredBefore(i, c, n)
<1>1. /\ d \in Lines /\ Site \in Lines /\ Original[d].op = "decl" /\ Original[d].blk = <<>>
      /\ ~Moves(Original[d]) /\ d <= Site
  <2>1. d \in Lines /\ Original[d].op = "decl" /\ Original[d].blk = <<>>
    BY DEF Body, Declares
  <2>2. Site \in Body /\ d <= Site
    BY LastLine DEF Holds
  <2> QED BY <2>1, <2>2 DEF Body, Moves
<1>2. i \in Nat /\ d \in Nat /\ Site \in Nat
  BY <1>1, TheText DEF Holds
<1>3. CASE Separates(Original[d])
  <2>1. PICK e \in DOMAIN Final(Site) :
            /\ Declared(Final(Site)[e], d, n) /\ e \in Nat
            /\ e <= Len(Own(Site)) + Len(AllDeclarations)
    BY <1>1, <1>3, SeparatePresent
  <2>2. ~Has(Original[d], "type")
    BY <1>1, <1>3 DEF Harmless
  <2>3. PICK line : line = Final(Site)[e]
    OBVIOUS
  <2>4. line.op = "decl" /\ line.blk = <<>> /\ NamesIn(line) = {n}
    BY <1>1, <2>1, <2>2, <2>3, DeclaredIs DEF Holds
  <2>5. Site < i \/ (Site = i /\ e < c)
    <3>1. c \in 1..Len(Final(i))
      BY FinalLines
    <3>2. Len(Own(Site)) \in Nat /\ Len(AllDeclarations) \in Nat
      BY <1>1, OwnLines, DeclarationsGathered, LenProperties DEF Holds
    <3> QED BY <2>1, <3>1, <3>2 DEF Behind
  <2>6. IsPrefix(Final(Site)[e].blk, Final(i)[c].blk)
    BY <2>3, <2>4, BlockBegins
  <2> QED BY <1>1, <2>1, <2>3, <2>4, <2>5, <2>6 DEF DeclaredBefore
<1>4. CASE ~Separates(Original[d])
  <2>1. 1 \in DOMAIN Own(d) /\ 1 \in DOMAIN Final(d) /\ IsKept(d, 1)
    BY <1>1, <1>4, KeptPresent
  <2>2. Final(d)[1].op = "decl" /\ Final(d)[1].blk = <<>> /\ n \in NamesIn(Final(d)[1])
    BY <1>1, <2>1, KeptDeclares
  <2>3. d < i \/ (d = i /\ 1 < c)
    <3>1. c \in 1..Len(Final(i))
      BY FinalLines
    <3>2. Len(Own(d)) \in Nat /\ Len(Own(d)) >= 1 /\ Len(AllDeclarations) \in Nat
      <4>1. DOMAIN Own(d) = 1..Len(Own(d)) /\ Len(Own(d)) \in Nat /\ Len(AllDeclarations) \in Nat
        BY <1>1, OwnLines, DeclarationsGathered, LenProperties DEF Holds
      <4> QED BY <2>1, <4>1
    <3>3. CASE d = i
      <4>1. i = Site
        BY <1>1, <1>2, <3>3 DEF Behind
      <4>2. Len(Own(i)) \in Nat /\ Len(Own(i)) >= 1
        BY <3>2, <3>3
      <4>3. c > Len(Own(i)) + Len(AllDeclarations)
        BY <1>2, <4>1 DEF Behind
      <4> QED BY <3>1, <3>2, <3>3, <4>2, <4>3
    <3>4. CASE d # i
      BY <1>1, <1>2, <3>4 DEF Behind
    <3> QED BY <3>3, <3>4
  <2>4. IsPrefix(Final(d)[1].blk, Final(i)[c].blk)
    BY <2>2, BlockBegins
  <2> QED BY <1>1, <2>1, <2>2, <2>3, <2>4 DEF DeclaredBefore
<1> QED BY <1>3, <1>4

\* What a line mentions.
LEMMA MentionedIs ==
    ASSUME NEW line
    PROVE  /\ line.op \notin {"set", "use"} => Mentioned(line) = ReadIn(line)
           /\ ReadIn(line) \subseteq Mentioned(line)
           /\ \A n \in Mentioned(line) :
                 \/ n \in ReadIn(line)
                 \/ /\ line.op \in {"set", "use"}
                    /\ \E q \in DOMAIN line.vars : line.vars[q].name = n /\ line.vars[q].ctx # "member"
BY DEF Mentioned, ToSet

\* All declarations of the body come before the other lines.
LEMMA BodyFirst ==
    ASSUME Holds, stage = "seperate_decl_init", Usual, NEW i \in Lines, i # 1, NEW d \in Lines, d # 1
    PROVE  /\ d \in Body /\ i \notin Body => d < i
           /\ i \in Body /\ d < i => d \in Body
           /\ i \notin Body /\ Body # {} /\ Site \in Body => Site < i
<1>1. /\ Lines = 1..Len(Original) /\ Len(Original) \in Nat /\ i \in Nat /\ d \in Nat
      /\ i > 1 /\ d > 1
  BY TheText DEF Holds
<1>2. \A g \in Body : \A j \in 2..(g - 1) : j \in Body
  <2>1. SUFFICES ASSUME NEW g \in Body, NEW j \in 2..(g - 1) PROVE j \in Body
    OBVIOUS
  <2>2. Declares(Original[j]) /\ Original[j].blk = <<>>
    BY DEF Body, Usual
  <2>3. g \in Lines
    BY DEF Body
  <2>4. j \in Lines
    BY <1>1, <2>3
  <2> QED BY <2>2, <2>4 DEF Body
<1>3. \A g \in Body : g \in Lines
  BY DEF Body
<1>4. \A g \in Body : i \notin Body => g < i
  <2>1. SUFFICES ASSUME NEW g \in Body, i \notin Body, ~(g < i) PROVE FALSE
    OBVIOUS
  <2>2. g \in Nat /\ g # i
    BY <1>1, <1>3, <2>1
  <2>3. i \in 2..(g - 1)
    BY <1>1, <2>1, <2>2
  <2> QED BY <1>2, <2>1, <2>3
<1>5. i \in Body /\ d < i => d \in Body
  <2>1. d < i => d \in 2..(i - 1)
    BY <1>1
  <2> QED BY <1>2, <2>1
<1> QED BY <1>4, <1>5

\* A line behind the body's declarations, of a name that was moved or is free.
LEMMA OldBefore ==
    ASSUME Holds, stage = "seperate_decl_init", Usual, Harmless, NEW i \in Lines, i # 1,
           i \notin Body, NEW c \in DOMAIN Final(i), NEW k \in DOMAIN varDecls,
           NEW n, n = varDecls[k].old
    PROVE  DeclaredBefore(i, c, n)
<1>1. n \in NamesOf(fncDecls) \cup NamesOf(varDecls)
  BY ApartEach DEF Holds, MovedInv
<1>2. CASE n \in NamesOf(varDecls)
  BY <1>2, HoistedBefore
<1>3. CASE n \in NamesOf(fncDecls)
  <2>1. PICK d \in Body : n \in NamesIn(Original[d])
    BY <1>3, LastLine DEF Holds
  <2>2. Site \in Body
    BY <2>1, LastLine DEF Holds
  <2>3. Behind(i, c)
    BY <2>2, BodyFirst DEF Behind
  <2> QED BY <2>1, <2>3, BodyBefore
<1> QED BY <1>1, <1>2, <1>3

\* What such a line was written with is still declared.
LEMMA WrittenBefore ==
    ASSUME Holds, stage = "seperate_decl_init", Usual, Harmless,
           Compiles(Original, function.globals), NEW i \in Lines, i # 1,
           i \notin Body, NEW c \in DOMAIN Final(i), Final(i)[c].blk = Original[i].blk,
           NEW n \in Mentioned(Original[i])
    PROVE  DeclaredBefore(i, c, n) \/ n \in function.globals
<1>1. PICK d : d = Resolve(Original, i, n)
  OBVIOUS
<1>2. Lines = 1..Len(Original) /\ Len(Original) \in Nat /\ Lines = DOMAIN Original
  BY TheText DEF Holds, Lines, Original
<1>3. /\ d \in 0..(i - 1)
      /\ d # 0 => Original[d].op = "decl" /\ n \in NamesIn(Original[d])
                  /\ IsPrefix(Original[d].blk, Original[i].blk)
  <2>1. i \in Nat \ {0}
    BY <1>2
  <2> QED BY <1>1, <2>1, Resolves
<1>4. CASE d = 0
  <2>1. ~(Resolve(Original, i, n) > 0)
    BY <1>1, <1>4
  <2>2. Resolve(Original, i, n) > 0 \/ n \in function.globals
    BY <1>2 DEF Compiles
  <2> QED BY <2>1, <2>2
<1>5. CASE d = 1
  BY <1>3, <1>5, HeadBefore
<1>6. CASE d # 0 /\ d # 1
  <2>1. d \in Lines /\ d < i
    BY <1>2, <1>3, <1>6
  <2>2. Declares(Original[d]) /\ n \in NamesIn(Original[d]) /\ Original[d].op = "decl"
    BY <1>3, <1>6, <2>1, TheNames DEF Holds
  <2>3. CASE d \in Body
    <3>1. Site \in Body
      BY <2>2, <2>3, LastLine DEF Holds
    <3>2. Behind(i, c)
      BY <3>1, BodyFirst DEF Behind
    <3> QED BY <2>2, <2>3, <3>2, BodyBefore
  <2>4. CASE Moves(Original[d])
    <3>1. PICK k \in DOMAIN varDecls : varDecls[k].old = n
      BY <2>1, <2>2, <2>4 DEF Holds, MovedInv, Moved
    <3> QED BY <3>1, OldBefore
  <2>5. CASE d \notin Body /\ ~Moves(Original[d])
    <3>1. ~Separates(Original[d])
      BY <2>1, <2>5 DEF Separates, Body
    <3>2. 1 \in DOMAIN Final(d) /\ IsKept(d, 1)
      BY <2>1, <2>5, <3>1, KeptPresent
    <3>3. PICK line : line = Final(d)[1] /\ Version(line, d, Len(varDecls))
      BY <3>2 DEF IsKept
    <3>4. PICK q \in DOMAIN line.vars : Original[d].vars[q].name = n
      <4>1. DOMAIN line.vars = DOMAIN Original[d].vars
        BY <3>3 DEF Version
      <4> QED BY <2>2, <4>1 DEF NamesIn
    <3>5. CASE line.vars[q].name = n
      <4>1. Final(d)[1].op = "decl" /\ n \in NamesIn(Final(d)[1])
        BY <2>1, <2>2, <3>2, <3>3, <3>4, <3>5, KeptDeclares DEF NamesIn
      <4>2. IsPrefix(Final(d)[1].blk, Final(i)[c].blk)
        BY <1>3, <1>6, <2>1, <3>2, KeptDeclares
      <4> QED BY <2>1, <3>2, <4>1, <4>2 DEF DeclaredBefore
    <3>6. CASE line.vars[q].name # n
      <4>1. PICK k \in DOMAIN varDecls : varDecls[k].old = n
        BY <2>1, <3>3, <3>4, <3>6, VersionFrom DEF Renames
      <4> QED BY <4>1, OldBefore
    <3> QED BY <3>5, <3>6
  <2> QED BY <2>3, <2>4, <2>5
<1> QED BY <1>4, <1>5, <1>6

\* What a line that was kept mentions was written there or has moved.
LEMMA KeptMentions ==
    ASSUME Holds, NEW i \in Lines, NEW c, IsKept(i, c), NEW n \in Mentioned(Final(i)[c])
    PROVE  n \in Mentioned(Original[i]) \/ n \in NamesOf(varDecls)
<1>1. PICK line : line = Final(i)[c] /\ Version(line, i, Len(varDecls))
  BY DEF IsKept
<1>2. DOMAIN line.vars = DOMAIN Original[i].vars /\ line.op = Original[i].op
  BY <1>1 DEF Version
<1>3. CASE n \in ReadIn(line)
  <2>1. PICK q \in DOMAIN line.vars : line.vars[q].init = n /\ n \notin Value \cup {NoInit}
    BY <1>3 DEF ReadIn
  <2>2. CASE n = Original[i].vars[q].init
    <3>1. n \in ReadIn(Original[i])
      BY <1>2, <2>1, <2>2 DEF ReadIn
    <3> QED BY <3>1, MentionedIs
  <2>3. CASE n # Original[i].vars[q].init
    <3>1. PICK k \in DOMAIN varDecls : n = varDecls[k].name
      BY <1>1, <2>1, <2>3, VersionFrom
    <3> QED BY <3>1 DEF NamesOf
  <2> QED BY <2>2, <2>3
<1>4. CASE n \notin ReadIn(line)
  <2>1. PICK q \in DOMAIN line.vars : line.vars[q].name = n /\ line.vars[q].ctx # "member"
    BY <1>1, <1>4, MentionedIs
  <2>2. line.op \in {"set", "use"}
    BY <1>1, <1>4, MentionedIs
  <2>3. CASE n = Original[i].vars[q].name
    <3>1. Original[i].vars[q].ctx # "member"
      BY <1>1, <2>1, VersionFrom
    <3>2. Original[i].vars[q] \in {w \in ToSet(Original[i].vars) :
                                      Original[i].op \in {"set", "use"} /\ w.ctx # "member"}
      BY <1>2, <2>1, <2>2, <3>1 DEF ToSet
    <3> QED BY <2>3, <3>2 DEF Mentioned
  <2>4. CASE n # Original[i].vars[q].name
    <3>1. PICK k \in DOMAIN varDecls : n = varDecls[k].name
      BY <1>1, <2>1, <2>4, VersionFrom
    <3> QED BY <3>1 DEF NamesOf
  <2> QED BY <2>3, <2>4
<1> QED BY <1>3, <1>4

\* What a declaration of the body reads.
LEMMA BodyReads ==
    ASSUME Holds, stage = "seperate_decl_init", Usual, Compiles(Original, function.globals),
           NEW i \in Body, NEW n \in ReadIn(Original[i])
    PROVE  \/ n \in function.globals \/ n \in NamesIn(Original[1])
           \/ \E d \in Body : d < i /\ n \in NamesIn(Original[d])
<1>1. PICK d : d = Resolve(Original, i, n)
  OBVIOUS
<1>2. Lines = 1..Len(Original) /\ Len(Original) \in Nat /\ Lines = DOMAIN Original /\ i \in Lines
  BY TheText DEF Holds, Lines, Original, Body
<1>3. /\ d \in 0..(i - 1)
      /\ d # 0 => Original[d].op = "decl" /\ n \in NamesIn(Original[d])
  <2>1. i \in Nat \ {0}
    BY <1>2
  <2> QED BY <1>1, <2>1, Resolves
<1>4. CASE d = 0
  <2>1. ~(Resolve(Original, i, n) > 0) /\ n \in Mentioned(Original[i])
    BY <1>1, <1>4, MentionedIs
  <2>2. Resolve(Original, i, n) > 0 \/ n \in function.globals
    BY <1>2, <2>1 DEF Compiles
  <2> QED BY <2>1, <2>2
<1>5. CASE d # 0 /\ d # 1
  <2>1. d \in Lines /\ d < i /\ i # 1
    BY <1>2, <1>3, <1>5
  <2>2. d \in Body
    BY <1>2, <1>5, <2>1, BodyFirst
  <2> QED BY <1>3, <1>5, <2>1, <2>2
<1> QED BY <1>3, <1>4, <1>5

\* Of a harmless function every name is declared.
LEMMA NamesBefore ==
    ASSUME Holds, stage = "seperate_decl_init", Usual, Harmless,
           Compiles(Original, function.globals), NEW i \in Lines, NEW c \in DOMAIN Final(i),
           NEW n \in Mentioned(Final(i)[c])
    PROVE  DeclaredBefore(i, c, n) \/ n \in function.globals
<1>1. /\ 1 \in Lines /\ Original[1].op = "decl" /\ Original[1].blk = <<>> /\ 1 \notin Body
      /\ Lines = DOMAIN Original /\ ~Moves(Original[1])
  BY TheText, TheNames DEF Holds, Body, Lines, Original, Moves
<1>2. CASE IsKept(i, c) /\ i = 1
  <2>1. n \in ReadIn(Original[1])
    BY <1>1, <1>2, KeptDeclares, MentionedIs
  <2>2. n \in Mentioned(Original[1])
    BY <2>1, MentionedIs
  <2>3. Resolve(Original, 1, n) \in 0..(1 - 1)
    BY Resolves
  <2>4. Resolve(Original, 1, n) > 0 \/ n \in function.globals
    BY <1>1, <2>2 DEF Compiles
  <2> QED BY <2>3, <2>4
<1>3. CASE IsKept(i, c) /\ i \in Body
  <2>1. Original[i].op = "decl" /\ Original[i].blk = <<>> /\ Declares(Original[i]) /\ i # 1 /\ c = 1
    BY <1>1, <1>3 DEF Body, Declares, IsKept
  <2>2. n \in ReadIn(Original[i])
    BY <1>3, <2>1, KeptDeclares, MentionedIs
  <2>3. ~Separates(Original[i])
    BY <1>3 DEF IsKept, Harmless
  <2>4. CASE n \in NamesIn(Original[1])
    BY <2>1, <2>4, HeadBefore
  <2>5. ASSUME NEW d \in Body, d < i, n \in NamesIn(Original[d])
        PROVE  DeclaredBefore(i, c, n) \/ n \in function.globals
    <3>1. d \in Lines /\ Original[d].op = "decl" /\ Original[d].blk = <<>> /\ ~Moves(Original[d])
      BY DEF Body, Declares, Moves
    <3>2. CASE Separates(Original[d])
      <4>1. d \in 1..(i - 1)
        BY <2>5, <3>1, TheText DEF Holds
      <4>2. n \in ReadLate(i)
        BY <2>1, <2>2, <2>3, <2>5, <3>2, <4>1 DEF ReadLate
      <4> QED BY <4>2 DEF Harmless
    <3>3. CASE ~Separates(Original[d])
      <4>1. 1 \in DOMAIN Final(d) /\ IsKept(d, 1)
        BY <3>1, <3>3, KeptPresent
      <4>2. Final(d)[1].op = "decl" /\ Final(d)[1].blk = <<>> /\ n \in NamesIn(Final(d)[1])
        BY <2>5, <3>1, <4>1, KeptDeclares
      <4>3. IsPrefix(Final(d)[1].blk, Final(i)[c].blk)
        BY <4>2, BlockBegins
      <4> QED BY <2>5, <3>1, <4>1, <4>2, <4>3 DEF DeclaredBefore
    <3> QED BY <3>2, <3>3
  <2> QED BY <1>3, <2>2, <2>4, <2>5, BodyReads
<1>4. CASE IsKept(i, c) /\ i # 1 /\ i \notin Body
  <2>1. Final(i)[c].blk = Original[i].blk
    BY <1>4, KeptDeclares
  <2>2. n \in Mentioned(Original[i]) \/ n \in NamesOf(varDecls)
    BY <1>4, KeptMentions
  <2> QED BY <1>4, <2>1, <2>2, WrittenBefore, HoistedBefore
<1>5. CASE IsLeft(i, c)
  <2>1. PICK line : line = Final(i)[c] /\ Assigns(line, i, varDecls)
    BY <1>5 DEF IsLeft
  <2>2. i # 1 /\ i \notin Body
    BY <1>1, <1>5 DEF IsLeft, Moves, Body
  <2>3. CASE n \in ReadIn(line)
    <3>1. n \in Mentioned(Original[i]) /\ line.blk = Original[i].blk
      BY <2>1, <2>3, MentionedIs DEF Assigns
    <3> QED BY <2>1, <2>2, <3>1, WrittenBefore
  <2>4. CASE n \notin ReadIn(line)
    <3>1. PICK q \in DOMAIN line.vars : line.vars[q].name = n
      BY <2>1, <2>4, MentionedIs
    <3>2. q = 1
      <4>1. Final(i) \in Seq(LineType) /\ c \in 1..Len(Final(i))
        BY FinalLines
      <4>2. line \in LineType
        BY <2>1, <4>1, ElementOfSeq
      <4>3. line.vars \in Seq(VarType)
        BY <4>2 DEF LineType
      <4>4. DOMAIN line.vars = 1..1
        BY <2>1, <4>3, LenProperties DEF Assigns
      <4> QED BY <3>1, <4>4
    <3>3. n \in NamesOf(varDecls)
      BY <2>1, <3>1, <3>2 DEF Assigns, NamesOf
    <3> QED BY <2>2, <3>3, HoistedBefore
  <2> QED BY <2>3, <2>4
<1>6. CASE IsInitial(i, c)
  <2>1. PICK line : line = Final(i)[c] /\ AssignsSeparate(line)
    BY <1>6 DEF IsInitial
  <2>2. PICK h \in Lines : /\ Separates(Original[h]) /\ line.vars[1].name \in NamesIn(Original[h])
                           /\ ReadIn(line) \subseteq ReadIn(Original[h])
    BY <2>1 DEF AssignsSeparate
  <2>3. h \in Body /\ Behind(i, c) /\ i = Site /\ Site \in Body
    BY <1>6, <2>2, LastLine DEF Holds, IsInitial, Behind
  <2>4. i # 1
    BY <1>1, <2>3
  <2>5. CASE n \in ReadIn(line)
    <3>1. n \in ReadIn(Original[h])
      BY <2>2, <2>5
    <3> QED BY <2>3, <2>4, <3>1, BodyReads, HeadBefore, BodyBefore
  <2>6. CASE n \notin ReadIn(line)
    <3>1. PICK q \in DOMAIN line.vars : line.vars[q].name = n
      BY <2>1, <2>6, MentionedIs
    <3>2. q = 1
      <4>1. Final(i) \in Seq(LineType) /\ c \in 1..Len(Final(i))
        BY FinalLines
      <4>2. line \in LineType
        BY <2>1, <4>1, ElementOfSeq
      <4>3. line.vars \in Seq(VarType)
        BY <4>2 DEF LineType
      <4>4. DOMAIN line.vars = 1..1
        BY <2>1, <4>3, LenProperties DEF AssignsSeparate
      <4> QED BY <3>1, <4>4
    <3> QED BY <2>2, <2>3, <3>1, <3>2, BodyBefore
  <2> QED BY <2>5, <2>6
<1>7. CASE IsHoisted(i, c)
  <2>1. Final(i)[c].op \notin {"set", "use"} /\ ReadIn(Final(i)[c]) = {}
    BY <1>7, HoistedDeclares
  <2> QED BY <2>1, MentionedIs
<1>8. CASE IsSeparate(i, c)
  <2>1. PICK h \in Lines : Final(i)[c].op = IF Has(Original[h], "type") THEN "garbage" ELSE "decl"
    BY <1>8, SeparateDeclares
  <2>2. Final(i)[c].op \notin {"set", "use"} /\ ReadIn(Final(i)[c]) = {}
    BY <1>8, <2>1, SeparateDeclares
  <2> QED BY <2>2, MentionedIs
<1>9. ~IsGarbage(i, c)
  BY DEF IsGarbage, Harmless
<1> QED BY <1>2, <1>3, <1>4, <1>5, <1>6, <1>7, <1>8, <1>9, FinalKinds

\* The result of a harmless function compiles.
LEMMA HarmlessCompiles ==
    ASSUME Holds, stage = "seperate_decl_init", Usual, Harmless,
           Compiles(Original, function.globals)
    PROVE  Compiles(Result, function.globals)
<1>1. PICK row, col : Ends(row, col)
  BY ResultLines
<1>2. \A p \in DOMAIN Result : /\ row[p] \in Lines /\ col[p] \in DOMAIN Final(row[p])
                               /\ Result[p] = Final(row[p])[col[p]]
  BY <1>1 DEF Ends
<1>3. ASSUME NEW p \in DOMAIN Result PROVE Result[p].op # "garbage"
  <2>i. PICK i \in Lines : row[p] = i
    BY <1>2
  <2>1. PICK c \in DOMAIN Final(i) : Result[p] = Final(i)[c]
    BY <1>2, <2>i
  <2>2. IsKept(i, c) => Final(i)[c].op # "garbage"
    <3>1. Original[i].op # "garbage"
      BY DEF Compiles, Lines, Original
    <3> QED BY <3>1, KeptDeclares
  <2>3. ~IsGarbage(i, c)
    BY DEF IsGarbage, Harmless
  <2>4. ASSUME IsHoisted(i, c) PROVE Final(i)[c].op # "garbage"
    <3>1. PICK k \in DOMAIN varDecls : k = c - 1
      BY <2>4, HoistedDeclares
    <3>2. PICK h \in Lines : Moved(h) /\ OfLine(varDecls[k], h)
      BY DEF Holds, MovedInv
    <3>3. "type" \notin varDecls[k].flags
      BY <3>2 DEF Moved, OfLine, Harmless, Has
    <3> QED BY <2>4, <3>1, <3>3, HoistedDeclares
  <2>5. ASSUME IsSeparate(i, c) PROVE Final(i)[c].op # "garbage"
    <3>1. PICK h \in Lines : /\ Separates(Original[h])
                             /\ Final(i)[c].op = IF Has(Original[h], "type") THEN "garbage" ELSE "decl"
      BY <2>5, SeparateDeclares
    <3> QED BY <3>1 DEF Harmless
  <2>6. IsLeft(i, c) \/ IsInitial(i, c) => Final(i)[c].op # "garbage"
    BY DEF IsLeft, IsInitial, Assigns, AssignsSeparate
  <2> QED BY <2>1, <2>2, <2>3, <2>4, <2>5, <2>6, FinalKinds
<1>4. ASSUME NEW p \in DOMAIN Result, Result[p].op = "decl",
             NEW q \in DOMAIN Result[p].vars, NEW r \in DOMAIN Result[p].vars,
             Result[p].vars[q].name = Result[p].vars[r].name
      PROVE  q = r
  <2>i. PICK i \in Lines : row[p] = i
    BY <1>2
  <2>1. PICK c \in DOMAIN Final(i) : Result[p] = Final(i)[c]
    BY <1>2, <2>i
  <2> QED BY <1>4, <2>1, DistinctNames
<1>5. ASSUME NEW p \in DOMAIN Result, NEW q \in DOMAIN Result, p < q,
             Result[p].op = "decl", Result[q].op = "decl", Result[p].blk = Result[q].blk,
             NEW n, n \in NamesIn(Result[p]), n \in NamesIn(Result[q])
      PROVE  FALSE
  <2>i. PICK i \in Lines : row[p] = i
    BY <1>2
  <2>1. PICK c \in DOMAIN Final(i) : row[p] = i /\ col[p] = c /\ Result[p] = Final(i)[c]
    BY <1>2, <2>i
  <2>j. PICK j \in Lines : row[q] = j
    BY <1>2
  <2>2. PICK d \in DOMAIN Final(j) : row[q] = j /\ col[q] = d /\ Result[q] = Final(j)[d]
    BY <1>2, <2>j
  <2>3. i # j \/ c # d
    <3>1. p # q
      BY <1>1, <1>5 DEF Ends
    <3> QED BY <1>1, <2>1, <2>2, <3>1 DEF Ends
  <2>4. Clashing
    BY <1>5, <2>1, <2>2, <2>3, Clashes
  <2> QED BY <2>4 DEF Clashing, Harmless
<1>6. ASSUME NEW p \in DOMAIN Result, Result[p].op = "set",
             Resolve(Result, p, Result[p].vars[1].name) > 0,
             Has(Result[Resolve(Result, p, Result[p].vars[1].name)], "readonly")
      PROVE  FALSE
  <2>1. PICK n : n = Result[p].vars[1].name
    OBVIOUS
  <2>2. PICK d : d = Resolve(Result, p, n)
    OBVIOUS
  <2>3. d > 0 /\ Has(Result[d], "readonly")
    BY <1>6, <2>1, <2>2
  <2> QED BY <1>1, <1>6, <2>1, <2>2, <2>3, NoConstantAssigned
<1>7. \A p \in DOMAIN Result : Result[p].op = "decl" =>
          \A k, l \in DOMAIN Result[p].vars : Result[p].vars[k].name = Result[p].vars[l].name => k = l
  BY <1>4
<1>8. \A p, q \in DOMAIN Result : p < q /\ Result[p].op = "decl" /\ Result[q].op = "decl"
                                  /\ Result[p].blk = Result[q].blk
                                      => NamesIn(Result[p]) \cap NamesIn(Result[q]) = {}
  BY <1>5
<1>9. \A p \in DOMAIN Result : Result[p].op = "set" =>
          LET d == Resolve(Result, p, Result[p].vars[1].name) IN d > 0 => ~Has(Result[d], "readonly")
  BY <1>6
<1>10. ASSUME NEW p \in DOMAIN Result, NEW n \in Mentioned(Result[p])
       PROVE  Resolve(Result, p, n) > 0 \/ n \in function.globals
  <2>1. PICK i \in Lines : row[p] = i
    BY <1>2
  <2>2. PICK c \in DOMAIN Final(i) : col[p] = c /\ Result[p] = Final(i)[c]
    BY <1>2, <2>1
  <2>3. DeclaredBefore(i, c, n) \/ n \in function.globals
    BY <1>10, <2>2, NamesBefore
  <2> QED BY <1>1, <2>1, <2>2, <2>3, ResolvesBefore
<1> QED BY <1>3, <1>7, <1>8, <1>9, <1>10 DEF Compiles

-----------------------------------------------------------------------------
(* Only of harmless functions the result compiles. *)

\* If the result compiles, no block declares a name twice.
LEMMA DeclaredTwice ==
    ASSUME Holds, stage = "seperate_decl_init", Compiles(Result, function.globals),
           NEW i \in Lines, NEW c \in DOMAIN Final(i), Final(i)[c].op = "decl",
           NEW j \in Lines, NEW d \in DOMAIN Final(j), Final(j)[d].op = "decl",
           i # j \/ c # d, Final(i)[c].blk = Final(j)[d].blk,
           NEW n, n \in NamesIn(Final(i)[c]), n \in NamesIn(Final(j)[d])
    PROVE  FALSE
<1>1. PICK row, col : Ends(row, col)
  BY ResultLines
<1>2. PICK p \in DOMAIN Result : row[p] = i /\ col[p] = c
  BY <1>1 DEF Ends
<1>3. PICK q \in DOMAIN Result : row[q] = j /\ col[q] = d
  BY <1>1 DEF Ends
<1>4. Result[p] = Final(i)[c] /\ Result[q] = Final(j)[d]
  BY <1>1, <1>2, <1>3 DEF Ends
<1>5. p < q \/ q < p
  <2>1. p # q
    BY <1>2, <1>3
  <2>2. p \in Nat /\ q \in Nat
    BY <1>1 DEF Ends
  <2> QED BY <2>1, <2>2
<1>6. NamesIn(Result[p]) \cap NamesIn(Result[q]) # {} /\ NamesIn(Result[q]) \cap NamesIn(Result[p]) # {}
  BY <1>4
<1> QED BY <1>4, <1>5, <1>6 DEF Compiles

\* If the result compiles, all of it parses.
LEMMA GarbageFree ==
    ASSUME Holds, stage = "seperate_decl_init", Compiles(Result, function.globals),
           NEW i \in Lines, NEW c \in DOMAIN Final(i)
    PROVE  Final(i)[c].op # "garbage"
<1>1. PICK row, col : Ends(row, col)
  BY ResultLines
<1>2. PICK p \in DOMAIN Result : row[p] = i /\ col[p] = c
  BY <1>1 DEF Ends
<1>3. Result[p] = Final(i)[c]
  BY <1>1, <1>2 DEF Ends
<1> QED BY <1>3 DEF Compiles

\* If the result compiles, no declaration that was moved or separated has parts
\* of its type behind the name.
LEMMA TypesFree ==
    ASSUME Holds, stage = "seperate_decl_init", Compiles(Result, function.globals),
           NEW i \in Lines, Moves(Original[i]) \/ Separates(Original[i])
    PROVE  ~Has(Original[i], "type")
<1>1. SUFFICES ASSUME Has(Original[i], "type") PROVE FALSE
  OBVIOUS
<1>2. PICK n : n \in NamesIn(Original[i])
  <2>1. Original[i].vars # <<>>
    BY <1>1, TheText DEF Holds, Has
  <2>2. Original[i].vars \in Seq(SourceVar) /\ Len(Original[i].vars) \in Nat
    BY TheNames DEF Holds
  <2>3. 1 \in DOMAIN Original[i].vars
    <3>1. Len(Original[i].vars) # 0
      BY <2>1, <2>2, EmptySeq
    <3> QED BY <2>2, <3>1, TheNames DEF Holds
  <2> QED BY <2>3 DEF NamesIn
<1>3. CASE Moves(Original[i])
  <2>1. PICK k \in DOMAIN varDecls : OfLine(varDecls[k], i)
    BY <1>2, <1>3 DEF Holds, MovedInv, Moved
  <2>2. "type" \in varDecls[k].flags
    BY <1>1, <2>1 DEF OfLine, Kept, Has
  <2>3. PICK d : d = k + 1
    OBVIOUS
  <2>4. 1 \in Lines /\ k \in Nat /\ d \in DOMAIN Final(1) /\ IsHoisted(1, d)
    BY <2>3, HoistedPresent
  <2>5. d - 1 = k
    BY <2>3, <2>4
  <2>6. Final(1)[d].op = "garbage"
    BY <2>2, <2>4, <2>5, HoistedDeclares
  <2> QED BY <2>4, <2>6, GarbageFree
<1>4. CASE Separates(Original[i])
  <2>1. Site \in Lines
    BY <1>2, <1>4, SeparatePresent
  <2>2. PICK c \in DOMAIN Final(Site) : Declared(Final(Site)[c], i, n)
    BY <1>2, <1>4, SeparatePresent
  <2>3. PICK e : e = Final(Site)[c]
    OBVIOUS
  <2>4. e.op = "garbage"
    BY <1>1, <2>2, <2>3, DeclaredIs DEF Holds
  <2> QED BY <2>1, <2>3, <2>4, GarbageFree
<1> QED BY <1>3, <1>4

\* If the result compiles, no variable was moved that is named like a parameter.
LEMMA ParametersFree ==
    ASSUME Holds, stage = "seperate_decl_init", Compiles(Original, function.globals),
           Compiles(Result, function.globals),
           NEW i \in Lines, Moves(Original[i]), NEW n, n \in NamesIn(Original[i]),
           n \in NamesIn(Original[1])
    PROVE  FALSE
<1>1. Original[1].op = "decl" /\ Original[1].blk = <<>> /\ 1 \in Lines
  BY TheText DEF Holds
<1>2. ~Moves(Original[1]) /\ ~Separates(Original[1])
  BY OwnLines
<1>3. 1 \in DOMAIN Final(1) /\ IsKept(1, 1)
  BY <1>1, <1>2, KeptPresent
<1>4. Final(1)[1].op = "decl" /\ Final(1)[1].blk = <<>> /\ n \in NamesIn(Final(1)[1])
  BY <1>1, <1>3, KeptDeclares
<1>5. Moved(i)
  BY DEF Moved
<1>6. PICK k \in DOMAIN varDecls : varDecls[k].old = n
  BY <1>5 DEF Holds, MovedInv
<1>7. n \in NamesOf(fncDecls) \cup NamesOf(varDecls)
  BY <1>6, ApartEach DEF Holds, MovedInv
<1>8. n \notin NamesOf(fncDecls)
  <2>1. SUFFICES ASSUME n \in NamesOf(fncDecls) PROVE FALSE
    OBVIOUS
  <2>2. PICK h \in Body : n \in NamesIn(Original[h])
    BY <2>1, LastLine DEF Holds
  <2>3. h \in Lines /\ Original[h].op = "decl" /\ Original[h].blk = <<>> /\ h # 1
    BY <2>2, TheNames DEF Holds, Body, Declares
  <2> QED BY <1>1, <2>2, <2>3, SameBlock DEF Holds
<1>9. PICK l \in DOMAIN varDecls : varDecls[l].name = n
  BY <1>7, <1>8 DEF NamesOf
<1>10. l \in Nat /\ l + 1 \in DOMAIN Final(1) /\ IsHoisted(1, l + 1)
  BY HoistedPresent
<1>11. /\ l + 1 - 1 = l /\ l + 1 # 1
  <2>1. l \in 1..Len(varDecls)
    BY <1>1, OwnLines
  <2> QED BY <2>1
<1>12. /\ Final(1)[l + 1].op = "decl" /\ Final(1)[l + 1].blk = <<>>
       /\ n \in NamesIn(Final(1)[l + 1])
  <2>1. PICK d : d = l + 1 /\ d - 1 = l /\ d \in DOMAIN Final(1) /\ IsHoisted(1, d)
    BY <1>10, <1>11
  <2>2. /\ Final(1)[d].op \in {"garbage", "decl"} /\ Final(1)[d].blk = <<>>
        /\ NamesIn(Final(1)[d]) = {n}
    BY <1>1, <1>9, <2>1, HoistedDeclares
  <2>3. Final(1)[d].op # "garbage"
    BY <1>1, <2>1, GarbageFree
  <2> QED BY <2>1, <2>2, <2>3
<1> QED BY <1>1, <1>3, <1>4, <1>10, <1>11, <1>12, DeclaredTwice

\* If the result compiles, no declaration that was moved or separated holds a
\* comment.
LEMMA CommentsFree ==
    ASSUME Holds, stage = "seperate_decl_init", Compiles(Result, function.globals),
           NEW i \in Lines, Moves(Original[i]) \/ Separates(Original[i]), Has(Original[i], "comment")
    PROVE  FALSE
<1>1. CASE Moves(Original[i])
  <2>1. PICK c \in DOMAIN Final(i) : Final(i)[c].op = "garbage"
    BY <1>1, LeftPresent
  <2>2. PICK row, col : Ends(row, col)
    BY ResultLines
  <2>3. PICK p \in DOMAIN Result : row[p] = i /\ col[p] = c
    BY <2>2 DEF Ends
  <2>4. Result[p].op = "garbage"
    BY <2>1, <2>2, <2>3 DEF Ends
  <2> QED BY <2>4 DEF Compiles
<1>2. CASE Separates(Original[i])
  <2>1. ~Moves(Original[i]) /\ Original[i].op = "decl" /\ Original[i].blk = <<>>
    BY <1>2 DEF Moves, Separates, Declares
  <2>2. 1 \in DOMAIN Own(i) /\ 1 \in DOMAIN Final(i) /\ IsKept(i, 1)
    BY <2>1, KeptPresent
  <2>3. PICK q \in DOMAIN Original[i].vars : TRUE
    BY <1>2 DEF Separates, Initialised
  <2>4. PICK n : n = Original[i].vars[q].name
    OBVIOUS
  <2>5. n \in NamesIn(Original[i])
    BY <2>4 DEF NamesIn
  <2>6. /\ Final(i)[1].op = "decl" /\ Final(i)[1].blk = <<>> /\ n \in NamesIn(Final(i)[1])
    BY <2>1, <2>2, <2>5, KeptDeclares
  <2>7. Site \in Lines
    BY <1>2, <2>5, SeparatePresent
  <2>8. PICK d \in DOMAIN Final(Site) : Declared(Final(Site)[d], i, n) /\ d \notin DOMAIN Own(Site)
    BY <1>2, <2>5, SeparatePresent
  <2>9. PICK e : e = Final(Site)[d]
    OBVIOUS
  <2>10. e.op = "decl" /\ e.blk = <<>> /\ n \in NamesIn(e)
    <3>1. ~Has(Original[i], "type")
      BY <1>2, TypesFree
    <3> QED BY <2>8, <2>9, <3>1, DeclaredIs DEF Holds
  <2>11. i # Site \/ 1 # d
    BY <2>2, <2>8
  <2> QED BY <2>2, <2>6, <2>7, <2>9, <2>10, <2>11, DeclaredTwice
<1> QED BY <1>1, <1>2

\* If the result compiles, no constant was moved away from its initialiser.
LEMMA ConstantsFree ==
    ASSUME Holds, stage = "seperate_decl_init", Usual, Compiles(Original, function.globals),
           Compiles(Result, function.globals),
           NEW i \in Lines, Moves(Original[i]), Has(Original[i], "readonly"), Initialised(Original[i])
    PROVE  FALSE
<1>1. PICK row, col : Ends(row, col)
  BY ResultLines
<1>2. /\ DOMAIN Result = 1..Len(Result) /\ Len(Result) \in Nat
      /\ \A q \in DOMAIN Result : /\ row[q] \in Lines /\ col[q] \in DOMAIN Final(row[q])
                                  /\ Result[q] = Final(row[q])[col[q]]
  BY <1>1 DEF Ends
<1>3. PICK c \in DOMAIN Final(i) : IsLeft(i, c)
  BY LeftPresent
<1>4. PICK k \in DOMAIN varDecls : OfLine(varDecls[k], i) /\ Final(i)[c].vars[1].name = varDecls[k].name
  BY <1>3 DEF IsLeft, Assigns
<1>5. PICK n : n = varDecls[k].name
  OBVIOUS
<1>6. PICK p \in DOMAIN Result : row[p] = i /\ col[p] = c
  BY <1>1 DEF Ends
<1>7. Result[p].op = "set" /\ Result[p].vars[1].name = n /\ Result[p].blk = Original[i].blk
  <2>1. Result[p] = Final(i)[c]
    BY <1>2, <1>6
  <2> QED BY <1>3, <1>4, <1>5, <2>1 DEF IsLeft, Assigns
<1>8. k \in Nat /\ k + 1 \in DOMAIN Final(1) /\ IsHoisted(1, k + 1) /\ 1 \in Lines
  BY HoistedPresent
<1>9. k + 1 - 1 = k /\ k \in 1..Len(varDecls)
  BY <1>8, OwnLines
<1>10. PICK x \in DOMAIN Result : row[x] = 1 /\ col[x] = k + 1
  BY <1>1, <1>8 DEF Ends
<1>11. Result[x].op = "decl" /\ n \in NamesIn(Result[x]) /\ IsPrefix(Result[x].blk, Result[p].blk)
  <2>1. Result[x] = Final(1)[k + 1]
    BY <1>2, <1>10
  <2>2. Result[x].op = "decl" /\ Result[x].blk = <<>> /\ n \in NamesIn(Result[x])
    <3>1. PICK e : e = k + 1 /\ e - 1 = k /\ e \in DOMAIN Final(1) /\ IsHoisted(1, e)
      BY <1>8, <1>9
    <3>2. /\ Final(1)[e].op \in {"garbage", "decl"} /\ Final(1)[e].blk = <<>>
          /\ NamesIn(Final(1)[e]) = {n}
      BY <1>5, <1>8, <3>1, HoistedDeclares
    <3>3. Final(1)[e].op # "garbage"
      BY <1>8, <3>1, GarbageFree
    <3> QED BY <2>1, <3>1, <3>2, <3>3
  <2>3. Original[i].blk \in Seq(Nat)
    BY TheNames DEF Holds
  <2> QED BY <1>7, <2>2, <2>3, PrefixBody
<1>12. x < p
  <2>1. Lines = 1..Len(Original) /\ Len(Original) \in Nat
    BY TheText DEF Holds
  <2>2. ~Moves(Original[1])
    BY <1>8, OwnLines
  <2>3. i # 1
    BY <2>2
  <2>4. row[x] < row[p]
    BY <1>6, <1>10, <2>1, <2>3
  <2> QED BY <1>1, <2>4 DEF Ends
<1>13. PICK d : d = Resolve(Result, p, n)
  OBVIOUS
<1>14. /\ d \in 0..(p - 1) /\ x <= d
       /\ d # 0 => Result[d].op = "decl" /\ n \in NamesIn(Result[d])
                   /\ IsPrefix(Result[d].blk, Result[p].blk)
  <2>1. p \in Nat \ {0} /\ x \in 1..(p - 1)
    BY <1>2, <1>12
  <2> QED BY <1>11, <1>13, <2>1, Resolves
<1>15. d > 0 /\ d \in DOMAIN Result
  BY <1>2, <1>14
<1>16. ~Has(Result[d], "readonly")
  BY <1>7, <1>13, <1>15 DEF Compiles
<1>j. PICK j \in Lines : row[d] = j
  BY <1>2, <1>15
<1>17. PICK e \in DOMAIN Final(j) : row[d] = j /\ col[d] = e /\ Result[d] = Final(j)[e]
  BY <1>2, <1>15, <1>j
<1>18. Final(j)[e].op = "decl" /\ n \in NamesIn(Final(j)[e]) /\ IsPrefix(Final(j)[e].blk, Original[i].blk)
  BY <1>7, <1>14, <1>15, <1>17
<1>19. n \notin NamesOf(fncDecls)
  BY <1>5, ApartEach DEF Holds, MovedInv
<1>20. ~IsHoisted(j, e)
  <2>1. SUFFICES ASSUME IsHoisted(j, e) PROVE FALSE
    OBVIOUS
  <2>2. e - 1 \in DOMAIN varDecls /\ varDecls[e - 1].name = n /\ Final(j)[e].flags = varDecls[e - 1].flags
    <3>1. /\ e - 1 \in DOMAIN varDecls /\ NamesIn(Final(j)[e]) = {varDecls[e - 1].name}
          /\ Final(j)[e].flags = varDecls[e - 1].flags
      BY <2>1, HoistedDeclares
    <3> QED BY <1>18, <3>1
  <2>3. e - 1 = k
    BY <1>5, <2>2, ApartEach DEF Holds, MovedInv
  <2>4. "readonly" \in varDecls[k].flags
    BY <1>4 DEF OfLine, Has, Kept
  <2> QED BY <1>16, <1>17, <2>2, <2>3, <2>4 DEF Has
<1>21. ~IsSeparate(j, e)
  BY <1>18, <1>19, SeparateDeclares
<1>22. ~IsKept(j, e)
  <2>1. SUFFICES ASSUME IsKept(j, e) PROVE FALSE
    OBVIOUS
  <2>2. Original[j].op = "decl" /\ Final(j)[e].blk = Original[j].blk /\ e = 1
    BY <1>18, <2>1, KeptDeclares DEF IsKept
  <2>3. j # 1
    <3>1. SUFFICES ASSUME j = 1 PROVE FALSE
      OBVIOUS
    <3>2. d < x
      BY <1>1, <1>8, <1>9, <1>10, <1>15, <1>17, <2>2, <3>1 DEF Ends
    <3> QED BY <1>2, <1>14, <1>15, <3>2
  <2>4. Original[j].blk # <<>>
    <3>1. SUFFICES ASSUME Original[j].blk = <<>> PROVE FALSE
      OBVIOUS
    <3>2. n \in NamesIn(Original[j])
      BY <1>18, <2>1, <3>1, KeptDeclares
    <3> QED BY <1>19, <2>2, <2>3, <3>1, <3>2, BodyDeclares
  <2>5. Declares(Original[j]) /\ ~Moves(Original[j])
    BY <2>1, <2>2, <2>3, TheNames DEF Holds, IsKept
  <2>6. Has(Original[j], "brace")
    BY <2>4, <2>5 DEF Moves
  <2>7. PICK q \in DOMAIN Final(j)[e].vars : Final(j)[e].vars[q].name = n
    BY <1>18 DEF NamesIn
  <2>8. Origin(n) \in NamesIn(Original[j])
    BY <2>1, <2>7, KeptNames
  <2>9. Origin(n) \in NamesIn(Original[i])
    <3>1. PICK l \in DOMAIN varDecls : varDecls[l].name = n /\ Origin(n) = varDecls[l].old
      BY <1>5 DEF Origin
    <3>2. l = k
      BY <1>5, <3>1, ApartEach DEF Holds, MovedInv
    <3> QED BY <1>4, <3>1, <3>2 DEF OfLine
  <2>10. Declares(Original[i]) /\ Original[i].blk # <<>>
    BY DEF Moves
  <2>11. IsPrefix(Original[j].blk, Original[i].blk)
    BY <1>18, <2>2
  <2>12. NamesIn(Original[i]) \cap NamesIn(Original[j]) = {}
    BY <2>4, <2>5, <2>6, <2>10, <2>11 DEF Usual
  <2> QED BY <2>8, <2>9, <2>12
<1> QED BY <1>17, <1>18, <1>20, <1>21, <1>22, DeclarationKinds

\* If the result compiles, no declaration that stays reads a variable that comes
\* to be declared behind it.
LEMMA LateFree ==
    ASSUME Holds, stage = "seperate_decl_init", Usual, Compiles(Original, function.globals),
           Compiles(Result, function.globals), NEW i \in Lines
    PROVE  ReadLate(i) \subseteq function.globals
<1>1. SUFFICES ASSUME NEW n, n \in ReadLate(i), n \notin function.globals PROVE FALSE
  OBVIOUS
<1>2. /\ n \in ReadIn(Original[i]) /\ Declares(Original[i]) /\ Original[i].blk = <<>>
      /\ ~Separates(Original[i])
  BY <1>1 DEF ReadLate
<1>3. PICK h \in 1..(i - 1) : Separates(Original[h]) /\ n \in NamesIn(Original[h])
  BY <1>1 DEF ReadLate
<1>4. h \in Lines /\ i \in Nat /\ Original[i].op = "decl" /\ i # 1
  BY <1>2, TheText, TheNames DEF Holds, Declares
<1>5. 1 \in DOMAIN Own(i) /\ 1 \in DOMAIN Final(i) /\ IsKept(i, 1)
  <2>1. ~Moves(Original[i])
    BY <1>2 DEF Moves
  <2> QED BY <1>2, <2>1, KeptPresent
<1>6. n \in Mentioned(Final(i)[1]) /\ Final(i)[1].blk = <<>>
  <2>1. n \in ReadIn(Final(i)[1])
    BY <1>2, <1>5, KeptDeclares
  <2> QED BY <1>2, <1>5, <2>1, KeptDeclares, MentionedIs
<1>7. DeclaredBefore(i, 1, n)
  <2>1. PICK row, col : Ends(row, col)
    BY ResultLines
  <2>2. PICK p \in DOMAIN Result : row[p] = i /\ col[p] = 1
    BY <1>5, <2>1 DEF Ends
  <2>3. Result[p] = Final(i)[1]
    BY <2>1, <2>2 DEF Ends
  <2>4. Resolve(Result, p, n) > 0
    BY <1>1, <1>6, <2>3 DEF Compiles
  <2> QED BY <1>5, <2>1, <2>2, <2>4, ResolvesBefore
<1>8. PICK j \in Lines : \E d \in DOMAIN Final(j) :
          /\ j < i \/ (j = i /\ d < 1)
          /\ Final(j)[d].op = "decl" /\ n \in NamesIn(Final(j)[d])
          /\ IsPrefix(Final(j)[d].blk, <<>>)
  BY <1>6, <1>7 DEF DeclaredBefore
<1>9. PICK d \in DOMAIN Final(j) :
          /\ j < i \/ (j = i /\ d < 1)
          /\ Final(j)[d].op = "decl" /\ n \in NamesIn(Final(j)[d])
          /\ IsPrefix(Final(j)[d].blk, <<>>)
  BY <1>8
<1>10. Final(j) \in Seq(LineType) /\ d \in 1..Len(Final(j))
  BY FinalLines
<1>11. j < i
  BY <1>9, <1>10
<1>12. Final(j)[d].blk = <<>>
  <2>1. Final(j)[d] \in LineType
    BY <1>10, ElementOfSeq
  <2>2. Final(j)[d].blk \in Seq(Nat)
    BY <2>1 DEF LineType
  <2> QED BY <1>9, <2>2, PrefixBody
<1>13. Site \in Lines
  BY <1>3, <1>4, SeparatePresent
<1>14. PICK c \in DOMAIN Final(Site) : Declared(Final(Site)[c], h, n)
  BY <1>3, <1>4, SeparatePresent
<1>15. PICK e : e = Final(Site)[c]
  OBVIOUS
<1>16. e.op = "decl" /\ e.blk = <<>> /\ n \in NamesIn(e)
  <2>1. ~Has(Original[h], "type")
    BY <1>3, <1>4, TypesFree
  <2> QED BY <1>4, <1>14, <1>15, <2>1, DeclaredIs DEF Holds
<1>17. i <= Site
  <2>1. i \in Body
    BY <1>2 DEF Body
  <2>2. PICK q \in DOMAIN Original[i].vars : TRUE
    BY <1>2 DEF ReadIn
  <2>3. NamesIn(Original[i]) # {}
    BY <2>2 DEF NamesIn
  <2> QED BY <2>1, <2>3, LastLine DEF Holds
<1>18. j # Site
  <2>1. j \in Nat /\ Site \in Nat
    BY <1>13, TheText DEF Holds
  <2> QED BY <1>4, <1>11, <1>17, <2>1
<1> QED BY <1>9, <1>12, <1>13, <1>15, <1>16, <1>18, DeclaredTwice

\* So of the harmless functions only, among the usual ones.
LEMMA CompilesHarmless ==
    ASSUME Holds, stage = "seperate_decl_init", Usual, Compiles(Original, function.globals),
           Compiles(Result, function.globals)
    PROVE  Harmless
<1>1. ASSUME NEW i \in Lines, Moves(Original[i])
      PROVE  NamesIn(Original[i]) \cap NamesIn(Original[1]) = {}
  BY <1>1, ParametersFree
<1>2. ASSUME NEW i \in Lines, Moves(Original[i]), Has(Original[i], "readonly")
      PROVE  ~Initialised(Original[i])
  BY <1>2, ConstantsFree
<1>3. ASSUME NEW i \in Lines, Moves(Original[i]) \/ Separates(Original[i])
      PROVE  ~Has(Original[i], "comment") /\ ~Has(Original[i], "type")
  BY <1>3, CommentsFree, TypesFree
<1> QED BY <1>1, <1>2, <1>3, LateFree DEF Harmless

-----------------------------------------------------------------------------
(* The theorems. *)

\* The conditions on a function are about what was written.
LEMMA SteadyUsual ==
    ASSUME function' = function, varDecls' = varDecls
    PROVE  Usual' <=> Usual
<1>1. Original' = Original /\ Lines' = Lines
  BY Steady
<1>2. \A i, j : /\ Declares(Original[i])' = Declares(Original[i])
               /\ Initialised(Original[i])' = Initialised(Original[i])
               /\ Moves(Original[i])' = Moves(Original[i])
               /\ NamesIn(Original[i])' = NamesIn(Original[i])
               /\ ReadIn(Original[i])' = ReadIn(Original[i])
               /\ IsPrefix(Original[j].blk, Original[i].blk)' = IsPrefix(Original[j].blk, Original[i].blk)
  BY <1>1, Steady DEF Declares, Initialised, IsPrefix, Has
<1>3. \A i, flag : Has(Original[i], flag)' = Has(Original[i], flag)
  BY <1>1 DEF Has
<1>4. \A k : Renaming(k)' = Renaming(k) /\ Enclosing(k)' = Enclosing(k)
  BY DEF Renaming, Enclosing
<1> QED BY <1>1, <1>2, <1>3, <1>4 DEF Usual

\* So is what keeps it compiling.
LEMMA SteadyHarmless ==
    ASSUME function' = function
    PROVE  Harmless' <=> Harmless
<1>1. Original' = Original /\ Lines' = Lines
  BY Steady
<1>2. \A i : /\ Declares(Original[i])' = Declares(Original[i])
            /\ Initialised(Original[i])' = Initialised(Original[i])
            /\ Moves(Original[i])' = Moves(Original[i])
            /\ Separates(Original[i])' = Separates(Original[i])
            /\ NamesIn(Original[i])' = NamesIn(Original[i])
            /\ ReadIn(Original[i])' = ReadIn(Original[i])
  BY <1>1, Steady DEF Declares, Initialised, Separates, Has
<1>3. \A i, flag : Has(Original[i], flag)' = Has(Original[i], flag)
  BY <1>1 DEF Has
<1>4. \A i : ReadLate(i)' = ReadLate(i)
  BY <1>1, <1>2 DEF ReadLate
<1> QED BY <1>1, <1>2, <1>3, <1>4 DEF Harmless

\* The last step.
LEMMA SeparateHolds ==
    ASSUME Holds, seperate_decl_init
    PROVE  Holds' /\ CompilesUnless'
<1>1. /\ stage = "seperate_decl_init" /\ stage' = "done" /\ at' = 1
      /\ function' = function /\ bare' = bare /\ fncDecls' = fncDecls
      /\ varDecls' = varDecls /\ var_suffix' = var_suffix
      /\ DOMAIN text' = Lines
      /\ text' = [i \in Lines |-> Final(i)]
  BY SeparateRows
<1>2. function \in Functions /\ LoopInv /\ BodyInv /\ MovedInv
  BY DEF Holds
<1>3. LoopInv'
  BY <1>1, <1>2, Steady DEF LoopInv, Stages
<1>4. BodyInv'
  <2>1. {"recursiveVisit", "fnc_declVisit"} \cap {stage, stage'} = {}
    BY <1>1
  <2> QED BY <1>1, <1>2, <2>1, BodySteady
<1>5. MovedInv'
  <2>1. \A i \in Lines : Moved(i)' <=> Moved(i)
    BY <1>1, Steady DEF Moved
  <2>2. NamesOf(fncDecls)' = NamesOf(fncDecls) /\ NamesOf(varDecls)' = NamesOf(varDecls)
    BY <1>1 DEF NamesOf
  <2>3. Apart(varDecls, var_suffix)'
    BY <1>1, <1>2, <2>2 DEF MovedInv, Apart
  <2>4. \A k \in DOMAIN varDecls', i \in Lines : OfLine(varDecls[k], i)' <=> OfLine(varDecls[k], i)
    BY <1>1, Steady DEF OfLine
  <2> QED BY <1>1, <1>2, <2>1, <2>3, <2>4, Steady DEF MovedInv
<1>6. TextInv'
  BY <1>1 DEF TextInv
<1>7. CompilesUnless'
  <2>1. Rewritten' = Result
    BY <1>1 DEF Rewritten, Result
  <2>2. Original' = Original /\ Lines' = Lines
    BY <1>1, Steady
  <2>3. Usual' => Usual
    BY <1>1, SteadyUsual
  <2>4. Compiles(Original, function.globals)' <=> Compiles(Original, function.globals)
    BY <1>1, <2>2
  <2>5. Compiles(Rewritten, function.globals)' <=> Compiles(Result, function.globals)
    BY <1>1, <2>1
  <2>6. Usual /\ Compiles(Original, function.globals) => (Compiles(Result, function.globals) <=> Harmless)
    BY <1>1, HarmlessCompiles, CompilesHarmless
  <2>7. Harmless' <=> Harmless
    BY <1>1, SteadyHarmless
  <2>8. Usual' /\ Compiles(Original, function.globals)' =>
            (Compiles(Rewritten, function.globals)' <=> Harmless')
    BY <2>3, <2>4, <2>5, <2>6, <2>7
  <2> QED BY <2>8 DEF CompilesUnless
<1> QED BY <1>1, <1>2, <1>3, <1>4, <1>5, <1>6, <1>7 DEF Holds

\* Every step keeps the invariant.
LEMMA NextHolds ==
    ASSUME Holds, CompilesUnless, [Next]_vars
    PROVE  Holds' /\ CompilesUnless'
<1>1. CASE recursiveVisit
  BY <1>1, BracesHold
<1>2. CASE fnc_declVisit
  BY <1>2, BodyHolds
<1>3. CASE var_declVisit
  <2>1. Holds'
    BY <1>3, StaysHold, MovesHold
  <2>2. CompilesUnless'
    BY <1>3, NextLine DEF CompilesUnless
  <2> QED BY <2>1, <2>2
<1>4. CASE insert_var_decl
  BY <1>4, InsertHolds
<1>5. CASE replace_duplicate_vars
  BY <1>5, ReplaceHolds
<1>6. CASE seperate_decl_init
  BY <1>6, SeparateHolds
<1>7. CASE UNCHANGED vars
  <2>1. /\ function' = function /\ stage' = stage /\ at' = at /\ text' = text /\ bare' = bare
        /\ fncDecls' = fncDecls /\ varDecls' = varDecls /\ var_suffix' = var_suffix
    BY <1>7 DEF vars
  <2>2. Original' = Original /\ Lines' = Lines /\ Turns' = Turns /\ Rewritten' = Rewritten
    BY <2>1, Steady DEF Turns, Rewritten
  <2>3. LoopInv'
    BY <2>1, <2>2 DEF Holds, LoopInv
  <2>4. BodyInv'
    BY <2>1, <2>2 DEF Holds, BodyInv, NamesOf
  <2>5. \A i : Moved(i)' <=> Moved(i)
    BY <2>1, <2>2 DEF Moved
  <2>6. MovedInv'
    <3>1. NamesOf(fncDecls)' = NamesOf(fncDecls) /\ NamesOf(varDecls)' = NamesOf(varDecls)
      BY <2>1 DEF NamesOf
    <3>2. Apart(varDecls, var_suffix)'
      BY <2>1, <3>1 DEF Holds, MovedInv, Apart
    <3>3. \A k \in DOMAIN varDecls', i \in Lines : OfLine(varDecls[k], i)' <=> OfLine(varDecls[k], i)
      BY <2>1, Steady DEF OfLine
    <3> QED BY <2>1, <2>5, <3>2, <3>3, Steady DEF Holds, MovedInv
  <2>7. ASSUME NEW i \in Lines, Left(i) PROVE Left(i)'
    <3>1. ReadIn(Original[i])' = ReadIn(Original[i]) /\ NamesIn(Original[i])' = NamesIn(Original[i])
      BY <2>1, Steady
    <3>2. \A k : OfLine(varDecls[k], i)' = OfLine(varDecls[k], i)
      BY <2>1, <2>2, <3>1 DEF OfLine
    <3>3. \A k, old, blk : Renames(k, old, blk)' = Renames(k, old, blk)
      BY <2>1 DEF Renames, Renaming, Reaches, Enclosing, InParent
    <3>4. \A k : Enclosing(k)' = Enclosing(k)
      BY <2>1 DEF Enclosing, Renaming
    <3>5. \A n, old, blk : Renewals(n, old, blk)' = Renewals(n, old, blk)
      BY <2>1, <3>3 DEF Renewals
    <3>6. Version(text[i][1], i, Turns)' = Version(text[i][1], i, Turns)
      BY <2>1, <2>2, <3>3, <3>4, <3>5 DEF Version
    <3>7. \A j : Assigns(text[i][j], i, varDecls)' = Assigns(text[i][j], i, varDecls)
      BY <2>1, <2>2, <3>1, <3>2 DEF Assigns
    <3> QED BY <2>1, <2>2, <2>5, <2>7, <3>6, <3>7 DEF Left
  <2>8. TextInv'
    BY <2>1, <2>2, <2>7 DEF Holds, TextInv
  <2>9. CompilesUnless'
    <3>1. (Usual' <=> Usual) /\ (Harmless' <=> Harmless)
      BY <2>1, SteadyUsual, SteadyHarmless
    <3> QED BY <2>1, <2>2, <3>1 DEF CompilesUnless
  <2> QED BY <2>1, <2>3, <2>4, <2>6, <2>8, <2>9 DEF Holds
<1> QED BY <1>1, <1>2, <1>3, <1>4, <1>5, <1>6, <1>7 DEF Next

\* The inductive invariant of Pass 1, from recursiveVisit to seperate_decl_init.
THEOREM HoistInvariant == Spec => []HoistInv
<1> DEFINE IInv == Holds /\ CompilesUnless
<1>1. Init => IInv
  BY InitHolds
<1>2. IInv /\ [Next]_vars => IInv'
  BY NextHolds
<1>3. IInv => HoistInv
  BY DEF Holds, HoistInv
<1> HIDE DEF IInv
<1> QED BY <1>1, <1>2, <1>3, PTL DEF Spec

\* insert_var_decl, seperate_decl_init: of the usual functions that compile, it
\* is exactly the harmless ones that still do after Pass 1.
THEOREM CompilesCorrect == Spec => []CompilesUnless
<1>1. HoistInv => CompilesUnless
  BY DEF HoistInv
<1> QED BY <1>1, HoistInvariant, PTL

\* The invariant bounds where the loops are, and what the lists hold.
LEMMA HoistTypes ==
    ASSUME Holds
    PROVE  Pass1TypeOK
<1>1. /\ stage \in Stages /\ DOMAIN text = Lines /\ bare \subseteq function.bare
      /\ at = 1 \/ at \in 1..Len(function.text) \/ at \in 1..Len(varDecls)
  BY DEF Holds, LoopInv, Stages
<1>2. Len(function.text) \in Nat /\ Len(varDecls) \in Nat
  BY TheText, LenProperties DEF Holds, Original, MovedInv
<1>3. at \in 1..Max({1, Len(function.text), Len(varDecls)})
  <2> DEFINE S == {1, Len(function.text), Len(varDecls)}
             n == 1 + Len(function.text) + Len(varDecls)
  <2>1. n \in Nat /\ S \in SUBSET (0..n) /\ S # {}
    BY <1>2
  <2>2. 1 \in S /\ Len(function.text) \in S /\ Len(varDecls) \in S
    OBVIOUS
  <2> HIDE DEF S, n
  <2>3. Max(S) \in S /\ \A x \in S : Max(S) >= x
    BY <2>1, Extremes
  <2>4. Max(S) \in Nat /\ Max(S) >= 1 /\ Max(S) >= Len(function.text) /\ Max(S) >= Len(varDecls)
    <3>1. Max(S) \in 0..n
      BY <2>1, <2>3
    <3>2. Max(S) \in Nat
      BY <2>1, <3>1
    <3> QED BY <2>2, <2>3, <3>2
  <2>5. at \in 1..Max(S)
    BY <1>1, <1>2, <2>4
  <2> QED BY <2>5 DEF S
<1>4. NamesOf(fncDecls) \subseteq Names
  <2>1. fncDecls \in Seq([name : Names, line : Body])
    BY DEF Holds, BodyInv, Body
  <2>2. \A k \in DOMAIN fncDecls : fncDecls[k] \in [name : Names, line : Body]
    BY <2>1, LenProperties, ElementOfSeq
  <2> QED BY <2>2 DEF NamesOf
<1>5. ASSUME NEW k \in DOMAIN varDecls PROVE varDecls[k].name \in Name \X (0..(var_suffix - 1))
  <2>1. /\ var_suffix \in Nat \ {0}
        /\ \/ varDecls[k].name = varDecls[k].old
           \/ \E s \in 1..(var_suffix - 1) : varDecls[k].name = <<varDecls[k].old[1], s>>
    BY ApartEach DEF Holds, MovedInv
  <2>2. varDecls[k].old \in Name \X {0}
    BY MovedVariable DEF Holds
  <2>3. 0 \in 0..(var_suffix - 1) /\ 1..(var_suffix - 1) \subseteq 0..(var_suffix - 1)
    BY <2>1
  <2> QED BY <2>1, <2>2, <2>3
<1> QED BY <1>1, <1>3, <1>4, <1>5 DEF Pass1TypeOK

\* Every step of VisitFunctionDecl keeps the types.
THEOREM Pass1TypeCorrect == Spec => []Pass1TypeOK
<1> DEFINE IInv == Holds /\ CompilesUnless
<1>1. Init => IInv
  BY InitHolds
<1>2. IInv /\ [Next]_vars => IInv'
  BY NextHolds
<1>3. IInv => Pass1TypeOK
  BY HoistTypes
<1> HIDE DEF IInv
<1> QED BY <1>1, <1>2, <1>3, PTL DEF Spec
===============================================================================
