-------------------------------- MODULE EHCProofs ------------------------------
(****************************************************************************)
(* Proofs about the analysis of error handling blocks, for every function,  *)
(* whatever is_pair finds and the names of its labels look like.            *)
(****************************************************************************)
EXTENDS EHCProps, FilterProofs

-----------------------------------------------------------------------------
(* The order of the handlers. *)

\* The handlers have the numbers of their places.
LEMMA StagePlaces ==
    /\ DOMAIN Stages = 1..12
    /\ \A p, q \in 1..12 : Stages[p] = Stages[q] => p = q
    /\ \A p \in 1..12 : Index(Stages[p]) = p
<1>1. DOMAIN Stages = 1..12
  BY DEF Stages
<1>2. \A p, q \in 1..12 : Stages[p] = Stages[q] => p = q
  BY DEF Stages
<1>3. ASSUME NEW p \in 1..12 PROVE Index(Stages[p]) = p
  <2>1. Index(Stages[p]) \in DOMAIN Stages /\ Stages[Index(Stages[p])] = Stages[p]
    BY <1>1 DEF Index
  <2> QED BY <1>1, <1>2, <2>1
<1> QED BY <1>1, <1>2, <1>3

\* The numbers themselves.
LEMMA StageNumbers ==
    /\ Index("recursiveVisit_if") = 1 /\ Index("find_ehc_stmts") = 2
    /\ Index("delete_blacklist") = 3 /\ Index("handle_maybe") = 4
    /\ Index("handle_loops") = 5 /\ Index("handle_critical") = 6
    /\ Index("handle_return") = 7 /\ Index("find_new") = 8
    /\ Index("find_pairs") = 9 /\ Index("find_outer") = 10
    /\ Index("assign_id") = 11 /\ Index("done") = 12
<1>1. /\ Stages[1] = "recursiveVisit_if" /\ Stages[2] = "find_ehc_stmts"
      /\ Stages[3] = "delete_blacklist" /\ Stages[4] = "handle_maybe"
      /\ Stages[5] = "handle_loops" /\ Stages[6] = "handle_critical"
      /\ Stages[7] = "handle_return" /\ Stages[8] = "find_new"
      /\ Stages[9] = "find_pairs" /\ Stages[10] = "find_outer"
      /\ Stages[11] = "assign_id" /\ Stages[12] = "done"
  BY DEF Stages
<1>2. \A p \in 1..12 : Index(Stages[p]) = p
  BY StagePlaces
<1> QED BY <1>1, <1>2

\* Their names.
LEMMA StageNames ==
    ToSet(Stages) = {"recursiveVisit_if", "find_ehc_stmts", "delete_blacklist", "handle_maybe",
                     "handle_loops", "handle_critical", "handle_return", "find_new",
                     "find_pairs", "find_outer", "assign_id", "done"}
<1>1. ToSet(Stages) = {Stages[p] : p \in 1..12}
  BY StagePlaces DEF ToSet
<1>2. 1..12 = {1, 2, 3, 4, 5, 6, 7, 8, 9, 10, 11, 12}
  OBVIOUS
<1> QED BY <1>1, <1>2 DEF Stages

\* A loop goes on or the next handler starts.
LEMMA AdvanceStages ==
    ASSUME stage \in ToSet(Stages), stage # "done", NEW n \in Nat, at \in 1..n \cup {1},
           Advance(n)
    PROVE  /\ stage' \in ToSet(Stages)
           /\ \/ at < n /\ stage' = stage /\ at' = at + 1
              \/ at >= n /\ Index(stage') = Index(stage) + 1 /\ at' = 1
<1>1. Index(stage) \in 1..12 /\ Stages[Index(stage)] = stage
  BY StagePlaces DEF ToSet
<1>2. Index(stage) # 12
  BY <1>1 DEF Stages
<1>3. Index(stage) + 1 \in 1..12
  BY <1>1, <1>2
<1>4. NextStage \in ToSet(Stages) /\ Index(NextStage) = Index(stage) + 1
  BY <1>3, StagePlaces DEF NextStage, ToSet
<1> QED BY <1>4 DEF Advance

\* Stages with the same number are the same.
LEMMA StageInjective ==
    ASSUME NEW s \in ToSet(Stages), NEW t \in ToSet(Stages)
    PROVE  Index(s) \in 1..12 /\ (Index(s) = Index(t) => s = t)
BY StagePlaces DEF ToSet

\* A turn of a handler's loop: it is through with one more EHC.
LEMMA AdvanceThrough ==
    ASSUME stage \in ToSet(Stages), stage # "done", NEW n \in Nat, at \in 1..n \cup {1},
           Advance(n), NEW i \in 1..n, NEW s \in ToSet(Stages)
    PROVE  Through(s, i)' <=> Through(s, i) \/ (s = stage /\ i = at)
<1>1. Index(s) \in Nat /\ Index(stage) \in Nat /\ (Index(s) = Index(stage) => s = stage)
  BY StageInjective
<1>2. i \in Nat /\ at \in Nat /\ i <= n /\ 1 <= i /\ 1 <= at
  OBVIOUS
<1>3. CASE at < n /\ stage' = stage /\ at' = at + 1
  BY <1>1, <1>2, <1>3 DEF Through, Past
<1>4. CASE at >= n /\ Index(stage') = Index(stage) + 1 /\ at' = 1
  <2>1. Through(s, i)' <=> Index(stage) + 1 > Index(s)
    BY <1>1, <1>2, <1>4 DEF Through, Past
  <2>2. at = n
    BY <1>2, <1>4
  <2> QED BY <1>1, <1>2, <2>1, <2>2 DEF Through, Past
<1> QED BY <1>3, <1>4, AdvanceStages

-----------------------------------------------------------------------------
(* Lists of statements. *)

\* Counting some statements tells whether there is any, and there are at least as
\* many of more.
LEMMA HowManyCounts ==
    ASSUME NEW stmts \in Seq(Text), NEW some
    PROVE  /\ HowMany(stmts, some) \in Nat
           /\ HowMany(stmts, some) > 0 <=> \E p \in DOMAIN stmts : stmts[p] \in some
           /\ \A more : some \subseteq more => HowMany(stmts, some) <= HowMany(stmts, more)
<1> DEFINE kept == Keep(stmts, some)
<1>1. kept \in Seq(Text) /\ ToSet(kept) = ToSet(stmts) \cap some
  BY KeepElements
<1>2. Len(kept) \in Nat /\ DOMAIN kept = 1..Len(kept)
  BY <1>1, LenProperties
<1>3. ASSUME NEW more, some \subseteq more PROVE HowMany(stmts, some) <= HowMany(stmts, more)
  BY <1>3, KeepLength DEF HowMany
<1>4. HowMany(stmts, some) = Len(kept)
  BY DEF HowMany
<1> HIDE DEF kept
<1>5. Len(kept) > 0 <=> ToSet(kept) # {}
  <2>1. Len(kept) > 0 => 1 \in DOMAIN kept
    BY <1>2
  <2>2. Len(kept) > 0 <=> DOMAIN kept # {}
    BY <1>2, <2>1
  <2> QED BY <2>2 DEF ToSet
<1>6. ToSet(stmts) \cap some # {} <=> \E p \in DOMAIN stmts : stmts[p] \in some
  BY DEF ToSet
<1> QED BY <1>1, <1>2, <1>3, <1>4, <1>5, <1>6

\* A filter removes statements of the list and adds none.
LEMMA WithoutSome ==
    ASSUME NEW ehc \in EHCType, NEW gone
    PROVE  /\ Without(ehc, gone) \in EHCType
           /\ Without(ehc, gone) = [ehc EXCEPT !.stmts = Without(ehc, gone).stmts]
           /\ Without(ehc, gone).stmts = Keep(ehc.stmts, Text \ gone)
           /\ ToSet(Without(ehc, gone).stmts) \subseteq ToSet(ehc.stmts)
<1>1. ehc.stmts \in Seq(Text)
  BY DEF EHCType
<1>2. /\ Keep(ehc.stmts, Text \ gone) \in Seq(Text)
      /\ ToSet(Keep(ehc.stmts, Text \ gone)) = ToSet(ehc.stmts) \cap (Text \ gone)
  BY <1>1, KeepElements
<1>3. Without(ehc, gone).stmts = Keep(ehc.stmts, Text \ gone)
  BY DEF Without, EHCType
<1>4. Without(ehc, gone) \in EHCType
  BY <1>2 DEF Without, EHCType
<1>5. Without(ehc, gone) = [ehc EXCEPT !.stmts = Without(ehc, gone).stmts]
  BY <1>3 DEF Without
<1> QED BY <1>2, <1>3, <1>4, <1>5

-----------------------------------------------------------------------------
(* A turn of a handler's loop. *)

\* The handler s puts new in the place of the EHC it is at.
Turn(s, new) ==
    /\ stage = s
    /\ EHCs' = IF EHCs = <<>> THEN EHCs ELSE [EHCs EXCEPT ![at] = new]
    /\ Advance(Len(EHCs))
    /\ function' = function

LoopStages == ToSet(Stages) \ {"recursiveVisit_if", "done"}

\* Where the loop is.
LEMMA LoopAt ==
    ASSUME EHCTypeOK, stage \in LoopStages
    PROVE  /\ Len(EHCs) \in Nat /\ DOMAIN EHCs = 1..Len(EHCs)
           /\ at \in 1..Len(EHCs) \cup {1}
           /\ EHCs # <<>> => at \in DOMAIN EHCs /\ EHCs[at] \in EHCType
           /\ EHCs = <<>> => DOMAIN EHCs = {}
<1>1. EHCs \in Seq(EHCType) /\ at \in 1..Len(EHCs) \cup {1}
  BY DEF EHCTypeOK, List, LoopStages
<1>2. Len(EHCs) \in Nat /\ DOMAIN EHCs = 1..Len(EHCs)
  BY <1>1, LenProperties
<1>3. EHCs # <<>> => Len(EHCs) > 0
  BY <1>1, <1>2, EmptySeq
<1>4. EHCs # <<>> => at \in DOMAIN EHCs
  BY <1>1, <1>2, <1>3
<1>5. \A i \in DOMAIN EHCs : EHCs[i] \in EHCType
  BY <1>1, <1>2, ElementOfSeq
<1> QED BY <1>1, <1>2, <1>4, <1>5

\* What a turn changes.
TurnMade(s, new) ==
    /\ EHCs' \in Seq(EHCType) /\ Len(EHCs') = Len(EHCs) /\ DOMAIN EHCs' = DOMAIN EHCs
    /\ \A i \in DOMAIN EHCs : EHCs'[i] = IF i = at THEN new ELSE EHCs[i]
    /\ function' = function /\ function' \in Programs
    /\ stage' \in ToSet(Stages) /\ stage' # "recursiveVisit_if"
    /\ Index(stage') \in Index(stage)..(Index(stage) + 1)
    /\ at' \in 1..Len(EHCs') \cup {1}
    /\ stage' = stage => at' # 1
    /\ \A i \in DOMAIN EHCs : \A t \in ToSet(Stages) :
          Through(t, i)' <=> Through(t, i) \/ (t = s /\ i = at)

\* A turn of a loop does no more and no less.
LEMMA TurnMakes ==
    ASSUME EHCTypeOK, NEW s \in LoopStages, NEW new, EHCs # <<>> => new \in EHCType,
           Turn(s, new)
    PROVE  TurnMade(s, new)
<1>1. stage \in LoopStages /\ stage = s /\ stage \in ToSet(Stages) /\ stage # "done"
  BY DEF Turn, LoopStages
<1>2. /\ Len(EHCs) \in Nat /\ DOMAIN EHCs = 1..Len(EHCs)
      /\ at \in 1..Len(EHCs) \cup {1}
      /\ EHCs # <<>> => at \in DOMAIN EHCs
      /\ EHCs = <<>> => DOMAIN EHCs = {}
  BY <1>1, LoopAt
<1>3. EHCs \in Seq(EHCType) /\ function \in Programs
  BY DEF EHCTypeOK
<1>4. /\ EHCs' \in Seq(EHCType) /\ Len(EHCs') = Len(EHCs)
      /\ \A i \in DOMAIN EHCs : EHCs'[i] = IF i = at THEN new ELSE EHCs[i]
  <2>1. CASE EHCs = <<>>
    BY <1>2, <1>3, <2>1 DEF Turn
  <2>2. CASE EHCs # <<>>
    <3>1. EHCs' = [EHCs EXCEPT ![at] = new] /\ at \in 1..Len(EHCs) /\ new \in EHCType
      BY <1>2, <2>2 DEF Turn
    <3>2. /\ EHCs' \in Seq(EHCType) /\ Len(EHCs') = Len(EHCs)
          /\ \A i \in 1..Len(EHCs) : EHCs'[i] = IF i = at THEN new ELSE EHCs[i]
      BY <1>3, <3>1, ExceptSeq
    <3> QED BY <1>2, <3>2
  <2> QED BY <2>1, <2>2
<1>5. DOMAIN EHCs' = DOMAIN EHCs
  BY <1>2, <1>4, LenProperties
<1>6. Advance(Len(EHCs)) /\ function' = function
  BY DEF Turn
<1>7. /\ stage' \in ToSet(Stages)
      /\ \/ at < Len(EHCs) /\ stage' = stage /\ at' = at + 1
         \/ at >= Len(EHCs) /\ Index(stage') = Index(stage) + 1 /\ at' = 1
  BY <1>1, <1>2, <1>6, AdvanceStages
<1>8. Index(stage) \in 1..12 /\ Index(stage) # 1
  BY <1>1, StageInjective, StageNumbers, StageNames DEF LoopStages
<1>9. stage' # "recursiveVisit_if" /\ Index(stage') \in Index(stage)..(Index(stage) + 1)
  BY <1>7, <1>8, StageNumbers
<1>10. at' \in 1..Len(EHCs') \cup {1} /\ (stage' = stage => at' # 1)
  BY <1>2, <1>4, <1>7, <1>8
<1>11. \A i \in DOMAIN EHCs : \A t \in ToSet(Stages) :
          Through(t, i)' <=> Through(t, i) \/ (t = s /\ i = at)
  BY <1>1, <1>2, <1>6, AdvanceThrough
<1> QED BY <1>3, <1>4, <1>5, <1>6, <1>7, <1>9, <1>10, <1>11 DEF TurnMade

\* Types are kept.
LEMMA TypeKept ==
    ASSUME NEW s, NEW new, TurnMade(s, new),
           total_fncs' \in Nat, verified_fncs' \in 0..total_fncs', entries' \in Seq(Text)
    PROVE  EHCTypeOK'
BY DEF TurnMade, EHCTypeOK, List

\* Verdicts and counters are kept, but by handle_maybe: before it nothing is
\* decided, and after its last turn the invariant says no more of them.
LEMMA VerdictsKept ==
    ASSUME EInv, NEW s \in LoopStages, s # "handle_maybe", NEW new, stage = s, TurnMade(s, new),
           \A i \in DOMAIN EHCs : EHCs'[i].type = EHCs[i].type,
           total_fncs' = total_fncs, verified_fncs' = verified_fncs
    PROVE  (\A i \in DOMAIN EHCs' : Verdicts(i)') /\ Counters'
<1>1. DOMAIN EHCs' = DOMAIN EHCs /\ \A i \in DOMAIN EHCs : Verdicts(i)
  BY DEF EInv, TurnMade
<1>2. \A i \in DOMAIN EHCs : Through("handle_maybe", i)' <=> Through("handle_maybe", i)
  BY StageNames DEF TurnMade
<1>3. \A i \in DOMAIN EHCs : /\ Decided(i)' <=> Decided(i)
                             /\ Doubtful(EHCs'[i]) <=> Doubtful(EHCs[i])
  BY DEF Decided, Doubtful
<1>4. /\ Index(s) \in 1..12 /\ Index(s) # 4 /\ Index(stage') \in Index(s)..(Index(s) + 1)
      /\ stage' \in ToSet(Stages) /\ (Index(stage') = Index(s) => stage' = s)
  BY StageInjective, StageNumbers, StageNames DEF LoopStages, TurnMade
<1>5. CASE Index(s) < 4
  <2>1. \A i \in DOMAIN EHCs : ~Through("handle_maybe", i)
    BY <1>4, <1>5, StageNumbers DEF Through, Past
  <2>2. \A i \in DOMAIN EHCs : ~Decided(i)
    BY <1>1, <2>1 DEF Verdicts
  <2>3. \A i \in DOMAIN EHCs : Verdicts(i)'
    BY <1>2, <1>3, <2>1, <2>2 DEF Verdicts
  <2>4. ~Past("handle_maybe")
    BY <1>4, <1>5, StageNumbers DEF Past
  <2>5. (\A some : ~Judged(some)) /\ (\A some : ~Judged(some)')
    BY <1>1, <1>3, <2>2 DEF Judged
  <2>6. Counters'
    BY <2>4, <2>5 DEF EInv, Counters
  <2> QED BY <1>1, <2>3, <2>6
<1>6. CASE Index(s) > 4
  <2>1. Past("handle_maybe")'
    BY <1>4, <1>6, StageNumbers DEF Past
  <2>2. ~Uncut'
    <3>1. stage' = "handle_loops" => stage' = stage
      BY <1>4, <1>6, StageNumbers
    <3> QED BY <2>1, <3>1 DEF Uncut, TurnMade
  <2>3. \A i \in DOMAIN EHCs : Verdicts(i)'
    BY <1>1, <1>2, <1>3, <2>2 DEF Verdicts
  <2>4. Counters'
    BY <2>1 DEF Counters
  <2> QED BY <1>1, <2>3, <2>4
<1> QED BY <1>4, <1>5, <1>6

\* Nothing is numbered before assign_pairmask_id.
LEMMA BeforeNumbering ==
    ASSUME EInv, NEW s \in LoopStages, Index(s) < 11, NEW new, stage = s, TurnMade(s, new),
           entries' = entries
    PROVE  ToSet(entries') = Numbered' /\ NothingNumberedTwice'
<1>1. s # "assign_id" /\ stage' # "done" /\ stage # "done"
  <2>1. Index(s) \in 1..10
    BY StageInjective DEF LoopStages
  <2>2. Index(stage') # 12
    BY <2>1 DEF TurnMade
  <2> QED BY <2>1, <2>2, StageNumbers
<1>2. \A i \in DOMAIN EHCs : ~Through("assign_id", i)
  BY <1>1, StageNumbers, StageInjective DEF Through, Past, LoopStages
<1>3. \A i \in DOMAIN EHCs : ~Through("assign_id", i)'
  BY <1>1, <1>2, StageNames DEF TurnMade
<1>4. Numbered = {}
  BY <1>1, <1>2 DEF Numbered
<1>5. Numbered' = {}
  BY <1>1, <1>3 DEF Numbered, TurnMade
<1>6. DOMAIN entries = {}
  BY <1>4 DEF EInv, ToSet
<1> QED BY <1>5, <1>6 DEF NothingNumberedTwice, Twice, ToSet

\* There are no new statements before find_ehc_new_stmts.
LEMMA BeforeNews ==
    ASSUME EInv, NEW s \in LoopStages, Index(s) < 8, NEW new, stage = s, TurnMade(s, new),
           EHCs # <<>> => new.new = EHCs[at].new
    PROVE  \A i \in DOMAIN EHCs' : News(i)' /\ Left(i)'
<1>1. s # "find_new"
  BY StageNumbers
<1>2. \A i \in DOMAIN EHCs : ~Through("find_new", i)
  BY <1>1, StageNumbers, StageInjective DEF Through, Past, LoopStages
<1>3. \A i \in DOMAIN EHCs : ~Through("find_new", i)'
  BY <1>1, <1>2, StageNames DEF TurnMade
<1>4. \A i \in DOMAIN EHCs : EHCs[i].new = <<>>
  BY <1>2 DEF EInv, News
<1>5. DOMAIN EHCs' = DOMAIN EHCs /\ (EHCs = <<>> => DOMAIN EHCs = {})
  BY LoopAt DEF EInv, TurnMade
<1>6. \A i \in DOMAIN EHCs : EHCs'[i].new = <<>>
  BY <1>4, <1>5 DEF TurnMade
<1> QED BY <1>3, <1>5, <1>6 DEF News, Left

\* What is collected stays in the function.
LEMMA CollectedKept ==
    ASSUME EInv, NEW s \in LoopStages, NEW new, stage = s, TurnMade(s, new),
           EHCs # <<>> =>
              /\ new.blk = EHCs[at].blk
              /\ new.type \in {"GOTO", "GOTO_MAYBE"} => new.type = EHCs[at].type
              /\ ToSet(new.stmts) \subseteq Statements(function)
    PROVE  \A i \in DOMAIN EHCs' : Collected(i)'
<1>1. DOMAIN EHCs' = DOMAIN EHCs /\ function' = function
  BY DEF TurnMade
<1>2. EHCs = <<>> => DOMAIN EHCs = {}
  BY LoopAt DEF EInv
<1>3. ASSUME NEW i \in DOMAIN EHCs PROVE Collected(i)'
  <2>1. Collected(i)
    BY DEF EInv
  <2>2. Statements(function)' = Statements(function)
    BY <1>1 DEF Statements
  <2>3. CASE i # at
    <3>1. EHCs'[i] = EHCs[i]
      BY <2>3 DEF TurnMade
    <3> QED BY <2>1, <2>2, <3>1 DEF Collected
  <2>4. CASE i = at
    <3>1. EHCs'[i] = new /\ EHCs # <<>>
      BY <1>2, <2>4 DEF TurnMade
    <3> QED BY <2>1, <2>2, <2>4, <3>1 DEF Collected
  <2> QED BY <2>3, <2>4
<1> QED BY <1>1, <1>3

\* An EHC that keeps its type and its statements lost nothing.
LEMMA NothingFiltered ==
    ASSUME EInv,
           \A i \in DOMAIN EHCs : EHCs'[i].stmts = EHCs[i].stmts /\ EHCs'[i].type = EHCs[i].type
    PROVE  \A i \in DOMAIN EHCs : Filtered(i)
<1>1. EHCs \in Seq(EHCType)
  BY DEF EInv, EHCTypeOK
<1>2. \A i \in DOMAIN EHCs : EHCs[i] \in EHCType
  BY <1>1, LenProperties, ElementOfSeq
<1>3. \A i \in DOMAIN EHCs : Keep(EHCs[i].stmts, ToSet(EHCs[i].stmts)) = EHCs[i].stmts
  BY <1>2, KeepAll DEF EHCType
<1> QED BY <1>3 DEF Filtered

-----------------------------------------------------------------------------
(* The filters. *)

\* A filter keeps the invariant.
LEMMA FilterStep ==
    ASSUME EInv, NEW s \in LoopStages, Index(s) < 8, s # "handle_maybe",
           NEW gone, NEW new, stage = s, Turn(s, new),
           EHCs # <<>> => new = Without(EHCs[at], gone),
           UNCHANGED <<total_fncs, verified_fncs, entries>>
    PROVE  EInv' /\ \A i \in DOMAIN EHCs : Filtered(i)
<1>1. EHCTypeOK
  BY DEF EInv
<1>2. /\ EHCs # <<>> => at \in DOMAIN EHCs /\ EHCs[at] \in EHCType
      /\ EHCs = <<>> => DOMAIN EHCs = {}
  BY <1>1, LoopAt
<1>3. EHCs # <<>> =>
         /\ new \in EHCType
         /\ new = [EHCs[at] EXCEPT !.stmts = new.stmts]
         /\ ToSet(new.stmts) \subseteq ToSet(EHCs[at].stmts)
  <2>1. PICK ehc : ehc = EHCs[at]
    OBVIOUS
  <2>2. ASSUME ehc \in EHCType
        PROVE  /\ Without(ehc, gone) \in EHCType
               /\ Without(ehc, gone) = [ehc EXCEPT !.stmts = Without(ehc, gone).stmts]
               /\ ToSet(Without(ehc, gone).stmts) \subseteq ToSet(ehc.stmts)
    BY <2>2, WithoutSome
  <2> QED BY <1>2, <2>1, <2>2
<1>4. EHCs # <<>> =>
         /\ new.blk = EHCs[at].blk /\ new.type = EHCs[at].type /\ new.new = EHCs[at].new
  BY <1>2, <1>3 DEF EHCType
<1>5. TurnMade(s, new)
  BY <1>1, <1>3, TurnMakes
<1>6. EHCTypeOK'
  BY <1>1, <1>5, TypeKept DEF EHCTypeOK
<1>7. \A i \in DOMAIN EHCs' : Collected(i)'
  <2>1. EHCs # <<>> => ToSet(EHCs[at].stmts) \subseteq Statements(function)
    BY <1>2 DEF EInv, Collected
  <2> QED BY <1>3, <1>4, <1>5, <2>1, CollectedKept
<1>8. \A i \in DOMAIN EHCs' : News(i)' /\ Left(i)'
  BY <1>4, <1>5, BeforeNews
<1>9. \A i \in DOMAIN EHCs : EHCs'[i].type = EHCs[i].type
  BY <1>2, <1>4, <1>5 DEF TurnMade
<1>10. (\A i \in DOMAIN EHCs' : Verdicts(i)') /\ Counters'
  BY <1>5, <1>9, VerdictsKept
<1>11. ToSet(entries') = Numbered' /\ NothingNumberedTwice'
  <2>1. Index(s) < 11
    BY StageInjective DEF LoopStages
  <2> QED BY <1>5, <2>1, BeforeNumbering
<1>12. ASSUME NEW i \in DOMAIN EHCs PROVE Filtered(i)
  <2>1. EHCs[i] \in EHCType /\ EHCs[i].stmts \in Seq(Text)
    <3>1. EHCs \in Seq(EHCType)
      BY <1>1 DEF EHCTypeOK
    <3>2. EHCs[i] \in EHCType
      BY <3>1, LenProperties, ElementOfSeq
    <3> QED BY <3>2 DEF EHCType
  <2>2. EHCs'[i].type = EHCs[i].type
    BY <1>9
  <2>3. EHCs'[i].stmts = Keep(EHCs[i].stmts, ToSet(EHCs'[i].stmts))
    <3>1. CASE i # at
      <4>1. EHCs'[i] = EHCs[i]
        BY <1>5, <3>1 DEF TurnMade
      <4> QED BY <2>1, <4>1, KeepAll
    <3>2. CASE i = at
      <4>1. EHCs'[i] = new /\ EHCs # <<>>
        BY <1>2, <1>5, <3>2 DEF TurnMade
      <4>2. EHCs'[i].stmts = Keep(EHCs[i].stmts, Text \ gone)
        BY <2>1, <3>2, <4>1, WithoutSome
      <4> QED BY <2>1, <4>2, KeepOnlyRemoves
    <3> QED BY <3>1, <3>2
  <2> QED BY <2>2, <2>3 DEF Filtered
<1> QED BY <1>6, <1>7, <1>8, <1>10, <1>11, <1>12 DEF EInv

\* The four filters.
LEMMA FiltersStep ==
    ASSUME EInv,
           \/ delete_blacklist_functions \/ handle_loops
           \/ handle_critical_sections \/ handle_return
    PROVE  EInv' /\ \A i \in DOMAIN EHCs : Filtered(i)
<1>1. LoopStages = {"find_ehc_stmts", "delete_blacklist", "handle_maybe",
                    "handle_loops", "handle_critical", "handle_return", "find_new",
                    "find_pairs", "find_outer", "assign_id"}
  BY StageNames DEF LoopStages
<1>2. CASE delete_blacklist_functions
  <2>1. PICK new : new = Without(EHCs[at], OfKind({"noise", "stop"}))
    OBVIOUS
  <2>2. Turn("delete_blacklist", new)
    BY <1>2, <2>1 DEF delete_blacklist_functions, Handler, Turn
  <2>3. stage = "delete_blacklist" /\ UNCHANGED <<total_fncs, verified_fncs, entries>>
    BY <1>2 DEF delete_blacklist_functions, Handler
  <2> QED BY <1>1, <2>1, <2>2, <2>3, StageNumbers, FilterStep
<1>3. CASE handle_loops
  <2>1. PICK new : new = Without(EHCs[at], OfKind({"loop"}))
    OBVIOUS
  <2>2. Turn("handle_loops", new)
    BY <1>3, <2>1 DEF handle_loops, Handler, Turn
  <2>3. stage = "handle_loops" /\ UNCHANGED <<total_fncs, verified_fncs, entries>>
    BY <1>3 DEF handle_loops, Handler
  <2> QED BY <1>1, <2>1, <2>2, <2>3, StageNumbers, FilterStep
<1>4. CASE handle_critical_sections
  <2>1. PICK new : new = Without(EHCs[at], OfKind({"lock"}))
    OBVIOUS
  <2>2. Turn("handle_critical", new)
    BY <1>4, <2>1 DEF handle_critical_sections, Handler, Turn
  <2>3. stage = "handle_critical" /\ UNCHANGED <<total_fncs, verified_fncs, entries>>
    BY <1>4 DEF handle_critical_sections, Handler
  <2> QED BY <1>1, <2>1, <2>2, <2>3, StageNumbers, FilterStep
<1>5. CASE handle_return
  <2>1. PICK new : new = Without(EHCs[at], Returning(EHCs[at]))
    OBVIOUS
  <2>2. Turn("handle_return", new)
    BY <1>5, <2>1 DEF handle_return, Handler, Turn
  <2>3. stage = "handle_return" /\ UNCHANGED <<total_fncs, verified_fncs, entries>>
    BY <1>5 DEF handle_return, Handler
  <2> QED BY <1>1, <2>1, <2>2, <2>3, StageNumbers, FilterStep
<1> QED BY <1>2, <1>3, <1>4, <1>5

-----------------------------------------------------------------------------
(* The blocks that look like EHCs. *)

\* What a block or the rest of a function from a label on holds stands in it.
LEMMA StatementsOf ==
    ASSUME NEW f
    PROVE  /\ \A i \in DOMAIN f.ifs : ToSet(f.ifs[i].then.body) \subseteq Statements(f)
           /\ \A i \in DOMAIN f.ifs :
                 f.ifs[i].els # NoBlock => ToSet(f.ifs[i].els.body) \subseteq Statements(f)
           /\ \A l \in Label : {f.tail[l][p].text : p \in DOMAIN f.tail[l]} \subseteq Statements(f)
<1> DEFINE thens == {ToSet(f.ifs[i].then.body) : i \in DOMAIN f.ifs}
           elses == {ToSet(f.ifs[i].els.body) : i \in {j \in DOMAIN f.ifs : f.ifs[j].els # NoBlock}}
           tails == {{f.tail[l][p].text : p \in DOMAIN f.tail[l]} : l \in Label}
           rest == ToSet(f.rest)
           all == Statements(f)
<1>1. all = rest \cup (UNION thens) \cup (UNION elses) \cup (UNION tails)
  BY DEF Statements
<1>2. \A i \in DOMAIN f.ifs : ToSet(f.ifs[i].then.body) \in thens
  OBVIOUS
<1>3. \A i \in DOMAIN f.ifs : f.ifs[i].els # NoBlock => ToSet(f.ifs[i].els.body) \in elses
  OBVIOUS
<1>4. \A l \in Label : {f.tail[l][p].text : p \in DOMAIN f.tail[l]} \in tails
  OBVIOUS
<1> HIDE DEF thens, elses, tails, rest, all
<1>5. UNION thens \subseteq all /\ UNION elses \subseteq all /\ UNION tails \subseteq all
  BY <1>1
<1>6. \A X : \A x \in X : UNION X \subseteq all => x \subseteq all
  OBVIOUS
<1> QED BY <1>2, <1>3, <1>4, <1>5, <1>6 DEF all

\* A block that is not judged yet.
Raw(f) ==
    {e \in EHCType :
        /\ e.type \notin {"VERIFIED", "DENIED"}
        /\ e.type \in {"GOTO", "GOTO_MAYBE"} => e.blk.jump # NoLabel
        /\ ToSet(e.blk.body) \cup ToSet(e.stmts) \subseteq Statements(f)
        /\ e.new = <<>>}

\* A new EHC is such a block.
LEMMA NewRaw ==
    ASSUME NEW f, NEW blk \in BlockType, ToSet(blk.body) \subseteq Statements(f),
           NEW type \in {"COND", "RETURN", "MAYBE", "GOTO", "GOTO_MAYBE"},
           type \in {"GOTO", "GOTO_MAYBE"} => blk.jump # NoLabel
    PROVE  NewEHC(type, blk) \in Seq(Raw(f))
<1> DEFINE e == [type |-> type, blk |-> blk, stmts |-> <<>>, new |-> <<>>]
<1>1. e.stmts \in Seq(Text) /\ e.new \in Seq([stmt : Text, is_outer : BOOLEAN])
  OBVIOUS
<1>2. e \in EHCType
  BY <1>1 DEF EHCType, Types
<1>3. ToSet(e.stmts) = {}
  BY DEF ToSet
<1>4. e \in Raw(f)
  BY <1>2, <1>3 DEF Raw
<1>5. NewEHC(type, blk) = <<e>>
  BY DEF NewEHC
<1> QED BY <1>4, <1>5

\* So are the ones a block makes by its returns and its gotos.
LEMMA BlockRaw ==
    ASSUME NEW f, NEW blk \in BlockType, ToSet(blk.body) \subseteq Statements(f), NEW err
    PROVE  ByReturn(blk) \in Seq(Raw(f)) /\ ByGoto(blk, err) \in Seq(Raw(f))
<1>1. <<>> \in Seq(Raw(f))
  OBVIOUS
<1>2. NewEHC("RETURN", blk) \in Seq(Raw(f)) /\ NewEHC("MAYBE", blk) \in Seq(Raw(f))
  BY NewRaw
<1>3. ByReturn(blk) \in Seq(Raw(f))
  BY <1>1, <1>2 DEF ByReturn
<1>4. ByGoto(blk, err) \in Seq(Raw(f))
  <2>1. CASE blk.jump = NoLabel
    BY <1>1, <2>1 DEF ByGoto
  <2>2. CASE blk.jump # NoLabel
    <3>1. NewEHC("GOTO", blk) \in Seq(Raw(f)) /\ NewEHC("GOTO_MAYBE", blk) \in Seq(Raw(f))
      BY <2>2, NewRaw
    <3> QED BY <2>2, <3>1 DEF ByGoto
  <2> QED BY <2>1, <2>2
<1> QED BY <1>3, <1>4

IfType == [neg : BOOLEAN, then : BlockType, els : BlockType \cup {NoBlock}]

\* And the ones of an if.
LEMMA IfRaw ==
    ASSUME NEW f, NEW s \in IfType, NEW stale \in BOOLEAN,
           ToSet(s.then.body) \subseteq Statements(f),
           s.els # NoBlock => ToSet(s.els.body) \subseteq Statements(f)
    PROVE  ThenHeads(s) \in Seq(Raw(f)) /\ ElseHeads(s, stale) \in Seq(Raw(f))
<1>1. s.then \in BlockType /\ (s.els # NoBlock => s.els \in BlockType)
  BY DEF IfType
<1>2. ThenHeads(s) \in Seq(Raw(f))
  <2>1. CASE s.neg
    <3>1. s.then.jump # NoLabel => NewEHC("GOTO", s.then) \in Seq(Raw(f))
      BY <1>1, NewRaw
    <3>2. NewEHC("COND", s.then) \in Seq(Raw(f))
      BY <1>1, NewRaw
    <3> QED BY <2>1, <3>1, <3>2 DEF ThenHeads
  <2>2. CASE ~s.neg
    <3> DEFINE err == s.then.jump \in ErrLabel
    <3> HIDE DEF err
    <3>1. ByReturn(s.then) \in Seq(Raw(f)) /\ ByGoto(s.then, err) \in Seq(Raw(f))
      BY <1>1, BlockRaw
    <3>2. ThenHeads(s) = ByReturn(s.then) \o ByGoto(s.then, err)
      BY <2>2 DEF ThenHeads, err
    <3> QED BY <3>1, <3>2, ConcatProperties
  <2> QED BY <2>1, <2>2
<1>3. ElseHeads(s, stale) \in Seq(Raw(f))
  <2>1. CASE s.els = NoBlock
    BY <2>1 DEF ElseHeads
  <2>2. CASE s.els # NoBlock
    <3> DEFINE err == IF s.then.jump = NoLabel THEN stale ELSE s.then.jump \in ErrLabel
    <3> HIDE DEF err
    <3>1. ByReturn(s.els) \in Seq(Raw(f)) /\ ByGoto(s.els, err) \in Seq(Raw(f))
      BY <1>1, <2>2, BlockRaw
    <3>2. ElseHeads(s, stale) = ByReturn(s.els) \o ByGoto(s.els, err)
      BY <2>2 DEF ElseHeads, err
    <3> QED BY <3>1, <3>2, ConcatProperties
  <2> QED BY <2>1, <2>2
<1> QED BY <1>2, <1>3

\* Before the statements are collected.
Gathering ==
    /\ EHCTypeOK
    /\ stage \in {"recursiveVisit_if", "find_ehc_stmts"}
    /\ EHCs \in Seq(Raw(function))
    /\ total_fncs = 0 /\ verified_fncs = 0 /\ entries = <<>>

\* No handler has judged, compared or numbered anything.
LEMMA GatheringHolds == Gathering => EInv
<1> SUFFICES ASSUME Gathering PROVE EInv
  OBVIOUS
<1>1. \A s \in {"handle_maybe", "find_new", "find_pairs", "find_outer", "assign_id"} :
         ~Past(s) /\ \A i : ~Through(s, i)
  BY StageNumbers DEF Gathering, Through, Past
<1>2. \A i \in DOMAIN EHCs : EHCs[i] \in Raw(function)
  BY LenProperties, ElementOfSeq DEF Gathering
<1>3. ASSUME NEW i \in DOMAIN EHCs PROVE Collected(i) /\ News(i) /\ Left(i) /\ Verdicts(i)
  <2>1. Collected(i)
    BY <1>2 DEF Raw, Collected
  <2>2. EHCs[i].new = <<>>
    BY <1>2 DEF Raw
  <2>3. News(i) /\ Left(i)
    BY <1>1, <2>2 DEF News, Left
  <2>4. Verdicts(i)
    BY <1>1, <1>2 DEF Raw, Verdicts, Decided
  <2> QED BY <2>1, <2>3, <2>4
<1>4. Counters
  BY <1>1 DEF Gathering, Counters, Judged
<1>5. Numbered = {}
  BY <1>1 DEF Numbered, Gathering
<1>6. ToSet(entries) = {} /\ NothingNumberedTwice
  BY DEF Gathering, ToSet, NothingNumberedTwice, Twice
<1> QED BY <1>3, <1>4, <1>5, <1>6 DEF Gathering, EInv

\* At the first handler it is all there is to say.
LEMMA FirstGathers ==
    ASSUME EInv, stage = "recursiveVisit_if"
    PROVE  Gathering
<1>1. \A s \in {"handle_maybe", "find_new", "find_pairs", "find_outer", "assign_id"} :
         ~Past(s) /\ \A i : ~Through(s, i)
  BY StageNumbers DEF Through, Past
<1>2. EHCTypeOK /\ EHCs \in Seq(EHCType)
  BY DEF EInv, EHCTypeOK
<1>3. DOMAIN EHCs = 1..Len(EHCs) /\ Len(EHCs) \in Nat /\ \A i \in DOMAIN EHCs : EHCs[i] \in EHCType
  BY <1>2, LenProperties, ElementOfSeq
<1>4. ASSUME NEW i \in DOMAIN EHCs PROVE EHCs[i] \in Raw(function)
  <2>1. Collected(i) /\ News(i) /\ Verdicts(i)
    BY DEF EInv
  <2>2. EHCs[i].new = <<>>
    BY <1>1, <2>1 DEF News
  <2>3. EHCs[i].type \notin {"VERIFIED", "DENIED"}
    BY <1>1, <2>1 DEF Verdicts, Decided
  <2> QED BY <1>3, <2>1, <2>2, <2>3 DEF Raw, Collected
<1>5. EHCs \in Seq(Raw(function))
  BY <1>2, <1>3, <1>4, SeqDef
<1>6. total_fncs = 0 /\ verified_fncs = 0
  BY <1>1, <1>2 DEF EInv, Counters, Judged, EHCTypeOK
<1>7. ToSet(entries) = {}
  BY <1>1 DEF EInv, Numbered
<1>8. entries = <<>>
  <2>1. entries \in Seq(Text)
    BY <1>2 DEF EHCTypeOK
  <2>2. Len(entries) \in Nat /\ DOMAIN entries = 1..Len(entries)
    BY <2>1, LenProperties
  <2>3. DOMAIN entries = {}
    BY <1>7 DEF ToSet
  <2>4. Len(entries) = 0
    <3>1. Len(entries) > 0 => 1 \in DOMAIN entries
      BY <2>2
    <3> QED BY <2>2, <2>3, <3>1
  <2> QED BY <2>1, <2>4, EmptySeq
<1> QED BY <1>2, <1>5, <1>6, <1>8 DEF Gathering

\* recursiveVisit_if gathers them.
LEMMA VisitStep ==
    ASSUME EInv, recursiveVisit_if
    PROVE  EInv'
<1>1. Gathering /\ stage = "recursiveVisit_if"
  BY FirstGathers DEF recursiveVisit_if
<1>2. function \in Programs /\ function \in FunctionType
  BY <1>1, ProgramsAssumption DEF Gathering, EHCTypeOK
<1>3. function.ifs \in Seq(IfType) /\ at \in 1..Len(function.ifs) \cup {1}
  BY <1>1, <1>2 DEF FunctionType, IfType, Gathering, EHCTypeOK, List
<1>4. Len(function.ifs) \in Nat /\ DOMAIN function.ifs = 1..Len(function.ifs)
  BY <1>3, LenProperties
<1>5. /\ function' = function
      /\ UNCHANGED <<total_fncs, verified_fncs, entries>>
      /\ Advance(Len(function.ifs))
  BY DEF recursiveVisit_if
<1>6. EHCs' \in Seq(Raw(function))
  <2>1. CASE function.ifs = <<>>
    BY <1>1, <2>1 DEF recursiveVisit_if, Gathering
  <2>2. CASE function.ifs # <<>>
    <3>1. at \in DOMAIN function.ifs
      BY <1>3, <1>4, <2>2, EmptySeq
    <3>2. PICK s : s = function.ifs[at]
      OBVIOUS
    <3>3. s \in IfType
      BY <1>3, <1>4, <3>1, <3>2, ElementOfSeq
    <3>4. ToSet(s.then.body) \subseteq Statements(function)
      BY <3>1, <3>2, StatementsOf
    <3>5. s.els # NoBlock => ToSet(s.els.body) \subseteq Statements(function)
      BY <3>1, <3>2, StatementsOf
    <3>6. PICK stale \in BOOLEAN : EHCs' = EHCs \o ThenHeads(s) \o ElseHeads(s, stale)
      BY <2>2, <3>2 DEF recursiveVisit_if
    <3>7. PICK f : f = function
      OBVIOUS
    <3>8. ThenHeads(s) \in Seq(Raw(f)) /\ ElseHeads(s, stale) \in Seq(Raw(f))
      BY <3>3, <3>4, <3>5, <3>7, IfRaw
    <3>9. EHCs \in Seq(Raw(f))
      BY <1>1, <3>7 DEF Gathering
    <3>10. EHCs \o ThenHeads(s) \in Seq(Raw(f))
      BY <3>8, <3>9, ConcatProperties
    <3> QED BY <3>6, <3>7, <3>8, <3>10, ConcatProperties
  <2> QED BY <2>1, <2>2
<1>7. /\ stage' \in ToSet(Stages)
      /\ \/ at < Len(function.ifs) /\ stage' = stage /\ at' = at + 1
         \/ at >= Len(function.ifs) /\ Index(stage') = Index(stage) + 1 /\ at' = 1
  <2>1. stage \in ToSet(Stages) /\ stage # "done"
    BY <1>1 DEF Gathering, EHCTypeOK
  <2> QED BY <1>3, <1>4, <1>5, <2>1, AdvanceStages
<1>8. stage' \in {"recursiveVisit_if", "find_ehc_stmts"}
  BY <1>1, <1>7, StageInjective, StageNumbers, StageNames
<1>9. EHCs' \in Seq(EHCType)
  <2>1. Raw(function) \subseteq EHCType
    BY DEF Raw
  <2> QED BY <1>6, <2>1
<1>10. at' \in 1..Len(List') \cup {1}
  <2>1. stage' = "recursiveVisit_if" => List' = function.ifs
    BY <1>5 DEF List
  <2>2. stage' # "recursiveVisit_if" => at' = 1
    BY <1>1, <1>7
  <2> QED BY <1>3, <1>4, <1>7, <2>1, <2>2
<1>11. EHCTypeOK'
  BY <1>1, <1>2, <1>5, <1>7, <1>9, <1>10 DEF EHCTypeOK, Gathering
<1>12. Raw(function)' = Raw(function)
  BY <1>5 DEF Raw, Statements
<1>13. Gathering'
  BY <1>1, <1>5, <1>6, <1>8, <1>11, <1>12 DEF Gathering
<1>14. (Gathering => EInv)'
  BY GatheringHolds, PTL
<1> QED BY <1>13, <1>14

-----------------------------------------------------------------------------
(* Collecting the statements. *)

\* Resolving a goto reads statements behind its label.
LEMMA ResolveReads ==
    ASSUME NEW tail \in Seq([text : Text, labelled : BOOLEAN])
    PROVE  /\ Resolve(tail) \in Seq(Text)
           /\ ToSet(Resolve(tail)) \subseteq {tail[p].text : p \in DOMAIN tail}
<1> DEFINE Stops == {p \in DOMAIN tail :
                        Kind[tail[p].text] \in {"ret", "errret"} /\ ~tail[p].labelled}
           last == IF Stops = {} THEN Len(tail) ELSE Min(Stops)
<1>1. Len(tail) \in Nat /\ DOMAIN tail = 1..Len(tail)
  BY LenProperties
<1>2. last \in 0..Len(tail)
  <2>1. CASE Stops = {}
    BY <1>1, <2>1
  <2>2. CASE Stops # {}
    <3>1. Stops \in SUBSET Nat /\ Stops \subseteq 1..Len(tail)
      BY <1>1
    <3>4. last = Min(Stops)
      BY <2>2
    <3> HIDE DEF Stops, last
    <3>2. \E m \in Stops : \A n \in Stops : m <= n
      BY <2>2, <3>1, LeastElement
    <3>3. Min(Stops) \in Stops
      BY <3>2 DEF Min
    <3>5. Min(Stops) \in 1..Len(tail)
      BY <3>1, <3>3
    <3> QED BY <1>1, <3>4, <3>5
  <2> QED BY <2>1, <2>2
<1>3. Resolve(tail) = [p \in 1..last |-> tail[p].text]
  BY DEF Resolve
<1> HIDE DEF last
<1>4. last \in Nat /\ \A p \in 1..last : p \in DOMAIN tail /\ tail[p].text \in Text
  <2>1. \A p \in 1..Len(tail) : tail[p] \in [text : Text, labelled : BOOLEAN]
    BY ElementOfSeq
  <2> QED BY <1>1, <1>2, <2>1
<1>5. Resolve(tail) \in Seq(Text)
  BY <1>3, <1>4, SeqDef
<1>6. ToSet(Resolve(tail)) \subseteq {tail[p].text : p \in DOMAIN tail}
  BY <1>3, <1>4 DEF ToSet
<1> QED BY <1>5, <1>6

\* Nothing is judged before handle_maybe.
LEMMA NothingJudged ==
    ASSUME EInv, NEW s \in LoopStages, Index(s) < 4, stage = s
    PROVE  \A i \in DOMAIN EHCs : ~Decided(i)
<1>1. \A i : ~Through("handle_maybe", i)
  BY StageNumbers, StageInjective DEF Through, Past, LoopStages
<1> QED BY <1>1 DEF EInv, Verdicts

\* find_ehc_stmts collects statements of the function.
LEMMA CollectStep ==
    ASSUME EInv, find_ehc_stmts
    PROVE  EInv'
<1> DEFINE s == "find_ehc_stmts"
<1>1. EHCTypeOK /\ s \in LoopStages /\ stage = s /\ Index(s) = 2 /\ s # "handle_maybe"
  BY StageNames, StageNumbers DEF EInv, LoopStages, find_ehc_stmts, Handler
<1>2. function \in FunctionType
  BY <1>1, ProgramsAssumption DEF EHCTypeOK
<1>3. /\ EHCs # <<>> => at \in DOMAIN EHCs /\ EHCs[at] \in EHCType
      /\ EHCs = <<>> => DOMAIN EHCs = {}
  BY <1>1, LoopAt
<1>4. PICK ehc : ehc = EHCs[at]
  OBVIOUS
<1>5. PICK all : all = IF ehc.type \in {"GOTO", "GOTO_MAYBE"}
                       THEN ehc.blk.body \o Resolve(function.tail[ehc.blk.jump])
                       ELSE ehc.blk.body
  OBVIOUS
<1>6. PICK new : new = [ehc EXCEPT !.stmts = all]
  OBVIOUS
<1>7. Turn(s, new) /\ UNCHANGED <<total_fncs, verified_fncs, entries>>
  BY <1>4, <1>5, <1>6 DEF find_ehc_stmts, Handler, Turn
<1>8. ASSUME EHCs # <<>>
      PROVE  all \in Seq(Text) /\ ToSet(all) \subseteq Statements(function)
  <2>1. Collected(at) /\ ehc \in EHCType
    BY <1>3, <1>4, <1>8 DEF EInv
  <2>2. ehc.blk.body \in Seq(Text) /\ ehc.blk.jump \in Label \cup {NoLabel}
    BY <2>1 DEF EHCType, BlockType
  <2>3. ToSet(ehc.blk.body) \subseteq Statements(function)
    BY <1>4, <2>1 DEF Collected
  <2>4. CASE ehc.type \in {"GOTO", "GOTO_MAYBE"}
    <3>1. ehc.blk.jump \in Label
      BY <1>4, <2>1, <2>2, <2>4 DEF Collected
    <3> DEFINE tail == function.tail[ehc.blk.jump]
    <3>2. tail \in Seq([text : Text, labelled : BOOLEAN])
      BY <1>2, <3>1 DEF FunctionType
    <3>3. {tail[p].text : p \in DOMAIN tail} \subseteq Statements(function)
      BY <3>1, StatementsOf
    <3> HIDE DEF tail
    <3>4. /\ Resolve(tail) \in Seq(Text)
          /\ ToSet(Resolve(tail)) \subseteq {tail[p].text : p \in DOMAIN tail}
      BY <3>2, ResolveReads
    <3>5. all = ehc.blk.body \o Resolve(tail)
      BY <1>5, <2>4 DEF tail
    <3>6. /\ all \in Seq(Text)
          /\ \A e \in ToSet(all) : e \in ToSet(ehc.blk.body) \/ e \in ToSet(Resolve(tail))
      <4>1. PICK a, b : a = ehc.blk.body /\ b = Resolve(tail)
        OBVIOUS
      <4>2. a \in Seq(Text) /\ b \in Seq(Text) /\ all = a \o b
        BY <2>2, <3>4, <3>5, <4>1
      <4>3. Len(a) \in Nat /\ DOMAIN a = 1..Len(a) /\ Len(b) \in Nat /\ DOMAIN b = 1..Len(b)
        BY <4>2, LenProperties
      <4>4. /\ all \in Seq(Text) /\ Len(all) = Len(a) + Len(b)
            /\ \A p \in 1..Len(a) + Len(b) : all[p] = IF p <= Len(a) THEN a[p] ELSE b[p - Len(a)]
        BY <4>2, ConcatProperties
      <4>5. DOMAIN all = 1..Len(a) + Len(b)
        BY <4>4, LenProperties
      <4>6. \A p \in DOMAIN all : (p \in DOMAIN a /\ all[p] = a[p])
                                  \/ (p - Len(a) \in DOMAIN b /\ all[p] = b[p - Len(a)])
        BY <4>3, <4>4, <4>5
      <4> QED BY <4>1, <4>4, <4>6 DEF ToSet
    <3> QED BY <2>3, <3>3, <3>4, <3>6
  <2>5. CASE ehc.type \notin {"GOTO", "GOTO_MAYBE"}
    BY <1>5, <2>2, <2>3, <2>5
  <2> QED BY <2>4, <2>5
<1>9. EHCs # <<>> =>
         /\ new \in EHCType /\ new.stmts = all
         /\ new.blk = ehc.blk /\ new.type = ehc.type /\ new.new = ehc.new
  BY <1>3, <1>4, <1>6, <1>8 DEF EHCType
<1> HIDE DEF s
<1>10. TurnMade(s, new)
  BY <1>1, <1>7, <1>9, TurnMakes
<1>11. EHCTypeOK'
  BY <1>1, <1>7, <1>10, TypeKept DEF EHCTypeOK
<1>12. \A i \in DOMAIN EHCs' : Collected(i)'
  BY <1>1, <1>4, <1>8, <1>9, <1>10, CollectedKept
<1>13. \A i \in DOMAIN EHCs' : News(i)' /\ Left(i)'
  BY <1>1, <1>4, <1>9, <1>10, BeforeNews
<1>14. \A i \in DOMAIN EHCs : EHCs'[i].type = EHCs[i].type
  BY <1>3, <1>4, <1>9, <1>10 DEF TurnMade
<1>15. (\A i \in DOMAIN EHCs' : Verdicts(i)') /\ Counters'
  BY <1>1, <1>7, <1>10, <1>14, VerdictsKept DEF s
<1>16. ToSet(entries') = Numbered' /\ NothingNumberedTwice'
  BY <1>1, <1>7, <1>10, BeforeNumbering
<1> QED BY <1>11, <1>12, <1>13, <1>15, <1>16 DEF EInv

-----------------------------------------------------------------------------
(* Judging the doubtful blocks. *)

\* What a turn of handle_maybe that judges makes of the EHC and the counters.
Judges(new, ehc) ==
    /\ new = [ehc EXCEPT !.type = IF HowMany(ehc.stmts, LabelStmts) > 0 THEN "DENIED"
                                  ELSE IF verified_fncs' >= 1 \/ total_fncs' = 0 THEN "VERIFIED"
                                  ELSE "DENIED"]
    /\ total_fncs' = total_fncs + HowMany(ehc.stmts, Direct)
    /\ verified_fncs' = verified_fncs + HowMany(ehc.stmts, Known)

\* A turn of handle_maybe judges a doubtful block and leaves the others alone.
LEMMA MaybeTurns ==
    ASSUME handle_maybe
    PROVE  \E new :
              /\ Turn("handle_maybe", new)
              /\ entries' = entries
              /\ IF EHCs # <<>> /\ Doubtful(EHCs[at]) THEN Judges(new, EHCs[at])
                 ELSE (EHCs # <<>> => new = EHCs[at]) /\ UNCHANGED <<total_fncs, verified_fncs>>
<1> DEFINE ehc      == EHCs[at]
           doubtful == EHCs # <<>> /\ Doubtful(ehc)
           total    == total_fncs + HowMany(ehc.stmts, Direct)
           verified == verified_fncs + HowMany(ehc.stmts, Known)
           type     == IF HowMany(ehc.stmts, LabelStmts) > 0 THEN "DENIED"
                       ELSE IF verified >= 1 \/ total = 0 THEN "VERIFIED"
                       ELSE "DENIED"
           becomes  == IF ~Doubtful(ehc) THEN ehc ELSE [ehc EXCEPT !.type = type]
<1>1. /\ stage = "handle_maybe" /\ Advance(Len(EHCs)) /\ UNCHANGED <<function, entries>>
      /\ EHCs' = IF EHCs = <<>> THEN EHCs ELSE [EHCs EXCEPT ![at] = becomes]
      /\ total_fncs' = IF doubtful THEN total ELSE total_fncs
      /\ verified_fncs' = IF doubtful THEN verified ELSE verified_fncs
  BY DEF handle_maybe, Handler, Counted
<1>2. PICK new : new = becomes
  OBVIOUS
<1> HIDE DEF becomes
<1>3. Turn("handle_maybe", new)
  BY <1>1, <1>2 DEF Turn
<1>4. CASE doubtful
  <2>1. total_fncs' = total /\ verified_fncs' = verified
    BY <1>1, <1>4
  <2>2. new = [ehc EXCEPT !.type = type]
    BY <1>2, <1>4 DEF becomes
  <2>3. Judges(new, ehc)
    BY <2>1, <2>2 DEF Judges
  <2> QED BY <1>1, <1>3, <1>4, <2>3
<1>5. CASE ~doubtful
  BY <1>1, <1>2, <1>3, <1>5 DEF becomes
<1> QED BY <1>4, <1>5

\* The counters of the EHCs before this one and the calls of this one tell
\* whether some block up to it has such a call.
LEMMA CountsUpTo ==
    ASSUME EInv, stage = "handle_maybe", EHCs # <<>>, NEW some,
           some = Known \/ some = Direct
    PROVE  Judged(some) <=> \E j \in DOMAIN EHCs : j < at /\ Decided(j) /\ Has(j, some)
<1>1. \A j : Through("handle_maybe", j) <=> j < at
  BY StageNumbers DEF Through, Past
<1> QED BY <1>1 DEF Judged

\* What is known after a turn of handle_maybe of the EHCs before and after it.
LEMMA MaybeElsewhere ==
    ASSUME EInv, stage = "handle_maybe", NEW new, TurnMade("handle_maybe", new)
    PROVE  /\ \A i \in DOMAIN EHCs : Through("handle_maybe", i)' <=> i <= at
           /\ \A i \in DOMAIN EHCs : i >= at => ~Decided(i)
           /\ \A i \in DOMAIN EHCs : i < at => ~Doubtful(EHCs[i])
           /\ \A i \in DOMAIN EHCs : i # at => EHCs'[i] = EHCs[i] /\ (Decided(i)' <=> Decided(i))
           /\ \A i \in DOMAIN EHCs : \A some : i # at => (Has(i, some)' <=> Has(i, some))
           /\ \A i \in DOMAIN EHCs : Decided(i) => Verdict(i)
           /\ DOMAIN EHCs' = DOMAIN EHCs
<1>0. Uncut
  BY StageNumbers DEF Uncut, Past
<1>1. \A i : Through("handle_maybe", i) <=> i < at
  BY StageNumbers DEF Through, Past
<1>2. DOMAIN EHCs = 1..Len(EHCs) /\ Len(EHCs) \in Nat /\ at \in Nat
  BY LoopAt, StageNames DEF EInv, LoopStages
<1>3. \A i \in DOMAIN EHCs : Through("handle_maybe", i)' <=> i < at \/ i = at
  BY <1>1, StageNames DEF TurnMade
<1>4. \A i \in DOMAIN EHCs : Verdicts(i)
  BY DEF EInv
<1>5. \A i \in DOMAIN EHCs : i >= at => ~Decided(i)
  BY <1>1, <1>2, <1>4 DEF Verdicts
<1>6. \A i \in DOMAIN EHCs : i < at => ~Doubtful(EHCs[i])
  BY <1>1, <1>4 DEF Verdicts
<1>7. \A i \in DOMAIN EHCs : Decided(i) => Verdict(i)
  BY <1>4, <1>0 DEF Verdicts
<1>8. \A i \in DOMAIN EHCs : i # at => EHCs'[i] = EHCs[i]
  BY DEF TurnMade
<1>9. \A i \in DOMAIN EHCs : i # at => (Decided(i)' <=> Decided(i))
  BY <1>8 DEF Decided
<1>10. \A i \in DOMAIN EHCs : \A some : i # at => (Has(i, some)' <=> Has(i, some))
  BY <1>8 DEF Has
<1>11. \A i \in DOMAIN EHCs : Through("handle_maybe", i)' <=> i <= at
  BY <1>2, <1>3
<1> QED BY <1>5, <1>6, <1>7, <1>8, <1>9, <1>10, <1>11 DEF TurnMade

\* A turn that judges nothing.
LEMMA MaybeLeaves ==
    ASSUME EInv, stage = "handle_maybe", NEW new, TurnMade("handle_maybe", new),
           EHCs # <<>> => new = EHCs[at] /\ ~Doubtful(new),
           total_fncs' = total_fncs, verified_fncs' = verified_fncs
    PROVE  (\A i \in DOMAIN EHCs' : Verdicts(i)') /\ Counters'
<1>1. DOMAIN EHCs = 1..Len(EHCs) /\ Len(EHCs) \in Nat /\ at \in Nat
      /\ (EHCs = <<>> => DOMAIN EHCs = {})
  BY LoopAt, StageNames DEF EInv, LoopStages
<1>2. DOMAIN EHCs' = DOMAIN EHCs /\ \A i \in DOMAIN EHCs : EHCs'[i] = EHCs[i]
  BY <1>1 DEF TurnMade
<1>3. \A i \in DOMAIN EHCs : Decided(i)' <=> Decided(i)
  BY <1>2 DEF Decided
<1>4. \A i \in DOMAIN EHCs : \A some : Has(i, some)' <=> Has(i, some)
  BY <1>2 DEF Has
<1>5. \A i \in DOMAIN EHCs : Through("handle_maybe", i)' <=> i <= at
  BY MaybeElsewhere
<1>6. /\ \A i \in DOMAIN EHCs : i >= at => ~Decided(i)
      /\ \A i \in DOMAIN EHCs : Decided(i) => Verdict(i)
      /\ \A i \in DOMAIN EHCs : i < at => ~Doubtful(EHCs[i])
  BY MaybeElsewhere
<1>7. ASSUME NEW i \in DOMAIN EHCs PROVE Verdicts(i)'
  <2>1. \A j \in 1..i : j \in DOMAIN EHCs
    BY <1>1
  <2>2. \A some : SomeUpTo(i, some)' <=> SomeUpTo(i, some)
    BY <1>3, <1>4, <2>1 DEF SomeUpTo
  <2>3. Decided(i) => Verdict(i)'
    BY <1>2, <1>4, <1>6, <2>2 DEF Verdict
  <2>4. Decided(i) => i <= at
    BY <1>1, <1>6
  <2>5. i <= at => ~Doubtful(EHCs[i])
    BY <1>1, <1>6
  <2> QED BY <1>2, <1>3, <1>5, <2>3, <2>4, <2>5 DEF Verdicts, Doubtful
<1>8. Counters'
  <2>1. \A i : Through("handle_maybe", i) <=> i < at
    BY StageNumbers DEF Through, Past
  <2>2. \A i \in DOMAIN EHCs : Decided(i) => (Through("handle_maybe", i)' <=> Through("handle_maybe", i))
    BY <1>1, <1>5, <1>6, <2>1
  <2>3. \A some : Judged(some)' <=> Judged(some)
    BY <1>2, <1>3, <1>4, <2>2 DEF Judged
  <2>4. ~Past("handle_maybe") /\ Counters
    BY StageNumbers DEF EInv, Past
  <2> QED BY <2>3, <2>4 DEF Counters
<1> QED BY <1>2, <1>7, <1>8

\* What a turn that judges finds: the counters tell of the blocks up to this one.
LEMMA MaybeCounts ==
    ASSUME EInv, stage = "handle_maybe", EHCs # <<>>, NEW new, Judges(new, EHCs[at])
    PROVE  /\ total_fncs' \in Nat /\ verified_fncs' \in 0..total_fncs'
           /\ total_fncs' > 0 <=>
                 Judged(Direct) \/ Has(at, Direct)
           /\ verified_fncs' > 0 <=> Judged(Known) \/ Has(at, Known)
           /\ new = [EHCs[at] EXCEPT !.type = new.type]
           /\ new.type \in {"VERIFIED", "DENIED"}
           /\ new.type = "VERIFIED" <=>
                 ~Has(at, LabelStmts) /\ (verified_fncs' > 0 \/ ~(total_fncs' > 0))
<1>1. EHCs[at] \in EHCType
  BY LoopAt, StageNames DEF EInv, LoopStages
<1>2. PICK ehc : ehc = EHCs[at]
  OBVIOUS
<1>3. PICK calls, known, labels :
         /\ calls = HowMany(ehc.stmts, Direct) /\ known = HowMany(ehc.stmts, Known)
         /\ labels = HowMany(ehc.stmts, LabelStmts)
  OBVIOUS
<1>4. /\ calls \in Nat /\ known \in Nat /\ labels \in Nat /\ known <= calls
      /\ calls > 0 <=> Has(at, Direct)
      /\ known > 0 <=> Has(at, Known)
      /\ labels > 0 <=> Has(at, LabelStmts)
  <2>1. ehc.stmts \in Seq(Text)
    BY <1>1, <1>2 DEF EHCType
  <2>2. Known \subseteq Direct
    BY AnalysisAssumption
  <2>3. \A some : /\ HowMany(ehc.stmts, some) \in Nat
                  /\ HowMany(ehc.stmts, some) > 0 <=> Has(at, some)
    BY <1>2, <2>1, HowManyCounts DEF Has
  <2>4. known <= calls
    BY <1>3, <2>1, <2>2, HowManyCounts
  <2> QED BY <1>3, <2>3, <2>4
<1>5. /\ total_fncs \in Nat /\ verified_fncs \in 0..total_fncs
      /\ total_fncs > 0 <=> Judged(Direct)
      /\ verified_fncs > 0 <=> Judged(Known)
  <2>1. ~Past("handle_maybe")
    BY StageNumbers DEF Past
  <2> QED BY <2>1 DEF EInv, EHCTypeOK, Counters
<1>6. /\ total_fncs' = total_fncs + calls /\ verified_fncs' = verified_fncs + known
      /\ new = [ehc EXCEPT !.type = IF labels > 0 THEN "DENIED"
                                    ELSE IF verified_fncs' >= 1 \/ total_fncs' = 0 THEN "VERIFIED"
                                    ELSE "DENIED"]
  BY <1>2, <1>3 DEF Judges
<1>7. /\ total_fncs' \in Nat /\ verified_fncs' \in 0..total_fncs'
      /\ total_fncs' > 0 <=> total_fncs > 0 \/ calls > 0
      /\ verified_fncs' > 0 <=> verified_fncs > 0 \/ known > 0
  BY <1>4, <1>5, <1>6
<1>8. /\ new.type = IF labels > 0 THEN "DENIED"
                    ELSE IF verified_fncs' >= 1 \/ total_fncs' = 0 THEN "VERIFIED"
                    ELSE "DENIED"
      /\ new = [ehc EXCEPT !.type = new.type]
  BY <1>1, <1>2, <1>6 DEF EHCType
<1>9. (verified_fncs' >= 1 <=> verified_fncs' > 0) /\ (total_fncs' = 0 <=> ~(total_fncs' > 0))
  BY <1>7
<1>10. new.type \in {"VERIFIED", "DENIED"}
  BY <1>8
<1>11. new.type = "VERIFIED" <=>
          ~Has(at, LabelStmts) /\ (verified_fncs' > 0 \/ ~(total_fncs' > 0))
  BY <1>4, <1>8, <1>9
<1> QED BY <1>2, <1>4, <1>5, <1>7, <1>8, <1>10, <1>11

\* A turn that judges: the verdict can be read off the blocks up to this one.
LEMMA MaybeJudges ==
    ASSUME EInv, stage = "handle_maybe", EHCs # <<>>,
           NEW new, TurnMade("handle_maybe", new), Judges(new, EHCs[at])
    PROVE  (\A i \in DOMAIN EHCs' : Verdicts(i)') /\ Counters'
<1>0. PICK k : k = at
  OBVIOUS
<1>1. DOMAIN EHCs = 1..Len(EHCs) /\ Len(EHCs) \in Nat /\ k \in Nat /\ k \in DOMAIN EHCs
      /\ EHCs[k] \in EHCType
  BY <1>0, LoopAt, StageNames DEF EInv, LoopStages
<1>2. /\ \A i \in DOMAIN EHCs : Through("handle_maybe", i)' <=> i <= k
      /\ \A i \in DOMAIN EHCs : i >= k => ~Decided(i)
      /\ \A i \in DOMAIN EHCs : i < k => ~Doubtful(EHCs[i])
      /\ \A i \in DOMAIN EHCs : i # k => EHCs'[i] = EHCs[i] /\ (Decided(i)' <=> Decided(i))
      /\ \A i \in DOMAIN EHCs : \A some : i # k => (Has(i, some)' <=> Has(i, some))
      /\ \A i \in DOMAIN EHCs : Decided(i) => Verdict(i)
      /\ DOMAIN EHCs' = DOMAIN EHCs
  BY <1>0, MaybeElsewhere
<1>3. /\ total_fncs' > 0 <=> Judged(Direct) \/ Has(k, Direct)
      /\ verified_fncs' > 0 <=> Judged(Known) \/ Has(k, Known)
      /\ new = [EHCs[k] EXCEPT !.type = new.type]
      /\ new.type \in {"VERIFIED", "DENIED"}
      /\ new.type = "VERIFIED" <=>
            ~Has(k, LabelStmts) /\ (verified_fncs' > 0 \/ ~(total_fncs' > 0))
  BY <1>0, MaybeCounts
<1>4. EHCs'[k] = new /\ new.stmts = EHCs[k].stmts
  <2>1. EHCs'[k] = new
    BY <1>0, <1>1 DEF TurnMade
  <2> QED BY <1>1, <1>3, <2>1 DEF EHCType
<1>5. Decided(k)' /\ ~Doubtful(EHCs'[k])
  BY <1>3, <1>4 DEF Decided, Doubtful
<1>6. \A i \in DOMAIN EHCs : \A some : Has(i, some)' <=> Has(i, some)
  <2>1. \A some : Has(k, some)' <=> Has(k, some)
    BY <1>4 DEF Has
  <2> QED BY <1>2, <2>1
<1>7. \A i \in DOMAIN EHCs : Decided(i)' <=> Decided(i) \/ i = k
  BY <1>2, <1>5
<1>8. \A i \in 1..k : i \in DOMAIN EHCs /\ (i < k \/ i = k)
  BY <1>1
<1>9. ASSUME NEW some, some = Known \/ some = Direct
      PROVE  /\ SomeUpTo(k, some)' <=> Judged(some) \/ Has(k, some)
             /\ Judged(some)' <=> Judged(some) \/ Has(k, some)
  <2>1. Judged(some) <=> \E j \in DOMAIN EHCs : j < k /\ Decided(j) /\ Has(j, some)
    BY <1>0, <1>9, CountsUpTo
  <2>2. \A j \in DOMAIN EHCs : (j <= k <=> j \in 1..k) /\ (j < k \/ j = k \/ j > k)
    BY <1>1
  <2>3. \E j \in DOMAIN EHCs : j < k /\ Decided(j) /\ Has(j, some) <=>
           j \in 1..k /\ j # k /\ Decided(j) /\ Has(j, some)
    BY <1>1, <1>2, <2>2
  <2>4. \A j \in DOMAIN EHCs : Through("handle_maybe", j)' /\ Decided(j)' /\ Has(j, some)' <=>
           (j < k /\ Decided(j) /\ Has(j, some)) \/ (j = k /\ Has(k, some))
    BY <1>1, <1>2, <1>6, <1>7, <2>2
  <2>5. Judged(some)' <=> Judged(some) \/ Has(k, some)
    BY <1>1, <1>2, <2>1, <2>4 DEF Judged
  <2>6. \A j \in 1..k : Decided(j)' /\ Has(j, some)' <=>
           (j < k /\ Decided(j) /\ Has(j, some)) \/ (j = k /\ Has(k, some))
    BY <1>1, <1>2, <1>6, <1>7, <1>8
  <2>7. \A j \in DOMAIN EHCs : j < k => j \in 1..k
    BY <1>1
  <2>8. k \in 1..k
    BY <1>1
  <2>9. SomeUpTo(k, some)' <=> Judged(some) \/ Has(k, some)
    BY <1>8, <2>1, <2>6, <2>7, <2>8 DEF SomeUpTo
  <2> QED BY <2>5, <2>9
<1>11. Verdict(k)'
  <2>1. new.type = "VERIFIED" <=>
           ~Has(k, LabelStmts)'
           /\ (SomeUpTo(k, Known)' \/ ~SomeUpTo(k, Direct)')
    BY <1>1, <1>3, <1>6, <1>9
  <2> QED BY <1>4, <2>1 DEF Verdict
<1>12. ASSUME NEW i \in DOMAIN EHCs PROVE Verdicts(i)'
  <2>1. CASE i = k
    BY <1>1, <1>2, <1>5, <1>11, <2>1 DEF Verdicts
  <2>2. CASE i # k
    <3>1. Decided(i) => i < k
      BY <1>1, <1>2
    <3>2. i < k => \A j \in 1..i : j \in DOMAIN EHCs /\ j # k
      BY <1>1
    <3>3. i < k => \A some : SomeUpTo(i, some)' <=> SomeUpTo(i, some)
      BY <1>6, <1>7, <3>2 DEF SomeUpTo
    <3>4. Decided(i) => Verdict(i)'
      BY <1>2, <1>6, <2>2, <3>1, <3>3 DEF Verdict
    <3>5. EHCs'[i] = EHCs[i] /\ (Decided(i)' <=> Decided(i)) /\ (Through("handle_maybe", i)' <=> i < k)
      BY <1>1, <1>2, <2>2
    <3> QED BY <1>2, <3>1, <3>4, <3>5 DEF Verdicts
  <2> QED BY <2>1, <2>2
<1>13. Counters'
  BY <1>3, <1>9 DEF Counters
<1> QED BY <1>2, <1>12, <1>13

\* handle_maybe keeps the invariant.
LEMMA MaybeStep ==
    ASSUME EInv, handle_maybe
    PROVE  EInv' /\ \A i \in DOMAIN EHCs : Filtered(i)
<1>1. PICK new :
         /\ Turn("handle_maybe", new)
         /\ entries' = entries
         /\ IF EHCs # <<>> /\ Doubtful(EHCs[at]) THEN Judges(new, EHCs[at])
            ELSE (EHCs # <<>> => new = EHCs[at]) /\ UNCHANGED <<total_fncs, verified_fncs>>
  BY MaybeTurns
<1> DEFINE s == "handle_maybe"
<1>2. EHCTypeOK /\ s \in LoopStages /\ stage = s /\ Index(s) = 4
  BY <1>1, StageNames, StageNumbers DEF EInv, LoopStages, Turn
<1>3. /\ EHCs # <<>> => at \in DOMAIN EHCs /\ EHCs[at] \in EHCType
      /\ EHCs = <<>> => DOMAIN EHCs = {}
  BY <1>2, LoopAt
<1>4. /\ total_fncs' \in Nat /\ verified_fncs' \in 0..total_fncs'
      /\ EHCs # <<>> => /\ new = [EHCs[at] EXCEPT !.type = new.type]
                        /\ new.type \in {"VERIFIED", "DENIED"} \/ new.type = EHCs[at].type
  <2>1. CASE EHCs # <<>> /\ Doubtful(EHCs[at])
    BY <1>1, <1>2, <2>1, MaybeCounts
  <2>2. CASE ~(EHCs # <<>> /\ Doubtful(EHCs[at]))
    BY <1>1, <1>2, <1>3, <2>2 DEF EHCTypeOK, EHCType
  <2> QED BY <2>1, <2>2
<1>5. EHCs # <<>> =>
         /\ new \in EHCType /\ new.blk = EHCs[at].blk /\ new.stmts = EHCs[at].stmts
         /\ new.new = EHCs[at].new
         /\ new.type \in {"GOTO", "GOTO_MAYBE"} => new.type = EHCs[at].type
  BY <1>3, <1>4 DEF EHCType, Types
<1> HIDE DEF s
<1>6. TurnMade(s, new)
  BY <1>1, <1>2, <1>5, TurnMakes DEF s
<1>7. EHCTypeOK'
  BY <1>1, <1>2, <1>4, <1>6, TypeKept DEF EHCTypeOK
<1>8. \A i \in DOMAIN EHCs' : Collected(i)'
  <2>1. EHCs # <<>> => ToSet(EHCs[at].stmts) \subseteq Statements(function)
    BY <1>3 DEF EInv, Collected
  <2> QED BY <1>2, <1>5, <1>6, <2>1, CollectedKept
<1>9. \A i \in DOMAIN EHCs' : News(i)' /\ Left(i)'
  BY <1>2, <1>5, <1>6, BeforeNews
<1>10. (\A i \in DOMAIN EHCs' : Verdicts(i)') /\ Counters'
  <2>1. CASE EHCs # <<>> /\ Doubtful(EHCs[at])
    BY <1>1, <1>2, <1>6, <2>1, MaybeJudges DEF s
  <2>2. CASE ~(EHCs # <<>> /\ Doubtful(EHCs[at]))
    BY <1>1, <1>2, <1>6, <2>2, MaybeLeaves DEF s
  <2> QED BY <2>1, <2>2
<1>11. ToSet(entries') = Numbered' /\ NothingNumberedTwice'
  BY <1>1, <1>2, <1>6, BeforeNumbering
<1>12. \A i \in DOMAIN EHCs : Filtered(i)
  <2>1. CASE EHCs # <<>> /\ Doubtful(EHCs[at])
    <3>1. new.type \in {"VERIFIED", "DENIED"}
      BY <1>1, <1>2, <2>1, MaybeCounts DEF s
    <3>2. EHCs \in Seq(EHCType)
      BY <1>2 DEF EHCTypeOK
    <3>3. \A i \in DOMAIN EHCs : EHCs[i] \in EHCType
      BY <3>2, LenProperties, ElementOfSeq
    <3>4. \A i \in DOMAIN EHCs : EHCs'[i].stmts = EHCs[i].stmts
      BY <1>5, <1>6, <2>1 DEF TurnMade
    <3>5. \A i \in DOMAIN EHCs : Keep(EHCs[i].stmts, ToSet(EHCs[i].stmts)) = EHCs[i].stmts
      BY <3>3, KeepAll DEF EHCType
    <3>6. \A i \in DOMAIN EHCs : EHCs'[i].type # EHCs[i].type =>
             Doubtful(EHCs[i]) /\ EHCs'[i].type \in {"VERIFIED", "DENIED"}
      BY <1>6, <2>1, <3>1 DEF TurnMade
    <3> QED BY <3>4, <3>5, <3>6 DEF Filtered, Doubtful
  <2>2. CASE ~(EHCs # <<>> /\ Doubtful(EHCs[at]))
    <3>1. \A i \in DOMAIN EHCs : EHCs'[i] = EHCs[i]
      BY <1>1, <1>3, <1>6, <2>2 DEF TurnMade
    <3> QED BY <3>1, NothingFiltered
  <2> QED BY <2>1, <2>2
<1> QED BY <1>7, <1>8, <1>9, <1>10, <1>11, <1>12 DEF EInv

-----------------------------------------------------------------------------
(* Finding the new statements and marking the outer ones. *)

Late == {"find_new", "find_pairs", "find_outer", "assign_id"}

\* What a turn that changes no more than the new statements of an EHC keeps.
LateKeeps ==
    /\ EHCTypeOK'
    /\ \A i \in DOMAIN EHCs' : Collected(i)' /\ Verdicts(i)'
    /\ Counters'
    /\ \A i \in DOMAIN EHCs : Fresh(i)' = Fresh(i)
    /\ \A i \in DOMAIN EHCs : EHCs'[i].stmts = EHCs[i].stmts /\ EHCs'[i].type = EHCs[i].type
    /\ Outers' = Outers

\* The handlers that only work on the new statements.
LEMMA LateTurns ==
    ASSUME EInv, NEW s \in Late, stage = s, NEW new, Turn(s, new),
           EHCs # <<>> => new \in EHCType /\ new = [EHCs[at] EXCEPT !.new = new.new],
           UNCHANGED <<total_fncs, verified_fncs>>, entries' \in Seq(Text)
    PROVE  TurnMade(s, new) /\ LateKeeps
<1>1. EHCTypeOK /\ s \in LoopStages /\ s # "handle_maybe"
  BY StageNames DEF EInv, LoopStages, Late
<1>2. /\ EHCs # <<>> => at \in DOMAIN EHCs /\ EHCs[at] \in EHCType
      /\ EHCs = <<>> => DOMAIN EHCs = {}
      /\ DOMAIN EHCs = 1..Len(EHCs) /\ Len(EHCs) \in Nat
  BY <1>1, LoopAt
<1>3. TurnMade(s, new)
  BY <1>1, TurnMakes
<1>4. EHCTypeOK'
  BY <1>1, <1>3, TypeKept DEF EHCTypeOK
<1>5. EHCs # <<>> =>
         new.blk = EHCs[at].blk /\ new.type = EHCs[at].type /\ new.stmts = EHCs[at].stmts
  BY <1>2 DEF EHCType
<1>6. \A i \in DOMAIN EHCs' : Collected(i)'
  <2>1. EHCs # <<>> => ToSet(EHCs[at].stmts) \subseteq Statements(function)
    BY <1>2 DEF EInv, Collected
  <2> QED BY <1>1, <1>3, <1>5, <2>1, CollectedKept
<1>7. \A i \in DOMAIN EHCs : EHCs'[i].stmts = EHCs[i].stmts /\ EHCs'[i].type = EHCs[i].type
  BY <1>2, <1>3, <1>5 DEF TurnMade
<1>9. (\A i \in DOMAIN EHCs' : Verdicts(i)') /\ Counters'
  BY <1>1, <1>3, <1>7, VerdictsKept
<1>10. ASSUME NEW i \in DOMAIN EHCs PROVE Fresh(i)' = Fresh(i)
  <2>1. \A j \in 1..(i - 1) : EHCs'[j].stmts = EHCs[j].stmts
    BY <1>2, <1>7
  <2>2. {x \in Text \ InMacro : \A j \in 1..(i - 1) : ~Contains(EHCs'[j].stmts, x)}
          = {x \in Text \ InMacro : \A j \in 1..(i - 1) : ~Contains(EHCs[j].stmts, x)}
    BY <2>1
  <2> QED BY <1>7, <2>2 DEF Fresh
<1>11. Outers' = Outers
  BY <1>3 DEF Outers, Statements, TurnMade
<1> QED BY <1>3, <1>4, <1>6, <1>7, <1>9, <1>10, <1>11 DEF LateKeeps

\* find_ehc_new_stmts finds them.
LEMMA NewStmtsStep ==
    ASSUME EInv, find_ehc_new_stmts
    PROVE  EInv' /\ \A i \in DOMAIN EHCs : Filtered(i)
<1> DEFINE s == "find_new"
<1>1. EHCTypeOK /\ s \in LoopStages /\ s \in Late /\ stage = s /\ Index(s) = 8
  BY StageNames, StageNumbers DEF EInv, LoopStages, Late, find_ehc_new_stmts, Handler
<1>2. /\ EHCs # <<>> => at \in DOMAIN EHCs /\ EHCs[at] \in EHCType
      /\ EHCs = <<>> => DOMAIN EHCs = {}
  BY <1>1, LoopAt
<1>3. PICK k : k = at
  OBVIOUS
<1>4. PICK ehc : ehc = EHCs[k]
  OBVIOUS
<1>5. PICK fresh : fresh = Fresh(k)
  OBVIOUS
<1>6. PICK new : new = IF ehc.type = "DENIED" THEN ehc
                       ELSE [ehc EXCEPT !.new = [p \in DOMAIN fresh |->
                                                   [stmt |-> fresh[p], is_outer |-> FALSE]]]
  OBVIOUS
<1>7. Turn(s, new) /\ UNCHANGED <<total_fncs, verified_fncs, entries>>
  <2>1. fresh = Keep(ehc.stmts, {x \in Text \ InMacro : FirstHere(x)})
    BY <1>3, <1>4, <1>5 DEF Fresh, FirstHere
  <2> QED BY <1>3, <1>4, <1>6, <2>1 DEF find_ehc_new_stmts, Handler, Turn
<1>8. EHCs # <<>> => fresh \in Seq(Text)
  <2>1. EHCs # <<>> => ehc.stmts \in Seq(Text)
    BY <1>2, <1>3, <1>4 DEF EHCType
  <2> QED BY <1>4, <1>5, <2>1, KeepElements DEF Fresh
<1>9. ASSUME EHCs # <<>>, ehc.type # "DENIED"
      PROVE  /\ new.new = [p \in DOMAIN fresh |-> [stmt |-> fresh[p], is_outer |-> FALSE]]
             /\ new.new \in Seq([stmt : Text, is_outer : BOOLEAN])
             /\ new \in EHCType /\ new = [ehc EXCEPT !.new = new.new]
  <2>1. DOMAIN fresh = 1..Len(fresh) /\ Len(fresh) \in Nat /\ \A p \in 1..Len(fresh) : fresh[p] \in Text
    BY <1>8, <1>9, LenProperties, ElementOfSeq
  <2> DEFINE news == [p \in DOMAIN fresh |-> [stmt |-> fresh[p], is_outer |-> FALSE]]
  <2>2. news \in [1..Len(fresh) -> [stmt : Text, is_outer : BOOLEAN]]
    BY <2>1
  <2>3. news \in Seq([stmt : Text, is_outer : BOOLEAN])
    BY <2>1, <2>2, SeqDef
  <2>4. new = [ehc EXCEPT !.new = news]
    BY <1>6, <1>9
  <2> HIDE DEF news
  <2>5. new.new = news /\ new \in EHCType
    BY <1>2, <1>3, <1>4, <1>9, <2>3, <2>4 DEF EHCType
  <2> QED BY <2>3, <2>4, <2>5 DEF news
<1>10. ASSUME EHCs # <<>>, ehc.type = "DENIED" PROVE new = ehc /\ new \in EHCType /\ new = [ehc EXCEPT !.new = new.new]
  BY <1>2, <1>3, <1>4, <1>6, <1>10 DEF EHCType
<1>11. TurnMade(s, new) /\ LateKeeps
  <2>1. EHCs # <<>> => new \in EHCType /\ new = [EHCs[at] EXCEPT !.new = new.new]
    BY <1>3, <1>4, <1>9, <1>10
  <2>2. entries' \in Seq(Text)
    BY <1>1, <1>7 DEF EHCTypeOK
  <2> QED BY <1>1, <1>7, <2>1, <2>2, LateTurns
<1> HIDE DEF s
<1>12. \A i : ~Through("find_outer", i)
  BY <1>1, StageNumbers DEF Through, Past, s
<1>13. \A i \in DOMAIN EHCs : ~Through("find_outer", i)'
  BY <1>11, <1>12, StageNames DEF TurnMade, s
<1>14. \A i \in DOMAIN EHCs : Through("find_new", i)' <=> Through("find_new", i) \/ i = k
  BY <1>3, <1>11, StageNames DEF TurnMade, s
<1>15. ~Through("find_new", k)
  <2>1. at \in Nat
    BY <1>1, LoopAt
  <2> QED BY <1>1, <1>3, <2>1, StageNumbers DEF Through, Past, s
<1>16. ASSUME NEW i \in DOMAIN EHCs PROVE News(i)' /\ Left(i)'
  <2>1. News(i) /\ Left(i)
    BY DEF EInv
  <2>2. Fresh(i)' = Fresh(i) /\ EHCs'[i].type = EHCs[i].type
    BY <1>11 DEF LateKeeps
  <2>3. CASE i # k
    <3>1. EHCs'[i] = EHCs[i]
      BY <1>3, <1>11, <2>3 DEF TurnMade
    <3>2. News(i)'
      BY <1>14, <2>1, <2>2, <2>3, <3>1 DEF News
    <3>3. Left(i)'
      BY <1>12, <1>13, <2>1, <3>1 DEF Left
    <3> QED BY <3>2, <3>3
  <2>4. CASE i = k
    <3>1. EHCs'[i] = new /\ EHCs # <<>>
      BY <1>2, <1>3, <1>11, <2>4 DEF TurnMade
    <3>2. CASE ehc.type = "DENIED"
      <4>1. new = ehc /\ ehc.new = <<>>
        BY <1>4, <1>10, <1>15, <2>1, <2>4, <3>1, <3>2 DEF News
      <4>2. EHCs'[i].new = <<>> /\ EHCs'[i].type = "DENIED"
        BY <3>1, <3>2, <4>1
      <4> QED BY <4>2 DEF News, Left
    <3>3. CASE ehc.type # "DENIED"
      <4>1. EHCs'[i].new = [p \in DOMAIN fresh |-> [stmt |-> fresh[p], is_outer |-> FALSE]]
        BY <1>9, <3>1, <3>3
      <4>2. fresh \in Seq(Text)
        BY <1>8, <3>1
      <4>3. [p \in DOMAIN EHCs'[i].new |-> EHCs'[i].new[p].stmt] = fresh
        <5>1. DOMAIN EHCs'[i].new = DOMAIN fresh /\ \A p \in DOMAIN fresh : EHCs'[i].new[p].stmt = fresh[p]
          BY <4>1
        <5>2. fresh = [p \in DOMAIN fresh |-> fresh[p]]
          BY <4>2, LenProperties
        <5> QED BY <5>1, <5>2
      <4>4. News(i)'
        BY <1>4, <1>5, <1>14, <2>2, <2>4, <3>3, <4>3 DEF News
      <4>5. \A p \in DOMAIN EHCs'[i].new : EHCs'[i].new[p].is_outer = FALSE
        BY <4>1
      <4>6. Left(i)'
        BY <1>13, <4>5 DEF Left
      <4> QED BY <4>4, <4>6
    <3> QED BY <3>2, <3>3
  <2> QED BY <2>3, <2>4
<1>17. DOMAIN EHCs' = DOMAIN EHCs
  BY <1>11 DEF TurnMade
<1>18. ToSet(entries') = Numbered' /\ NothingNumberedTwice'
  BY <1>1, <1>7, <1>11, BeforeNumbering
<1> QED BY <1>11, <1>16, <1>17, <1>18, NothingFiltered DEF EInv, LateKeeps

\* Marking new statements leaves their texts.
Marked(new, ehc) ==
    /\ new = [ehc EXCEPT !.new = new.new]
    /\ DOMAIN new.new = DOMAIN ehc.new
    /\ \A p \in DOMAIN ehc.new : new.new[p].stmt = ehc.new[p].stmt

\* A list whose new statements are marked anew is one.
LEMMA MarkingKeepsType ==
    ASSUME NEW ehc \in EHCType, NEW new, NEW mark,
           new = [ehc EXCEPT !.new = [p \in DOMAIN ehc.new |->
                                        [ehc.new[p] EXCEPT !.is_outer = mark[p]]]],
           \A p \in DOMAIN ehc.new : mark[p] \in BOOLEAN
    PROVE  /\ new \in EHCType /\ Marked(new, ehc)
           /\ \A p \in DOMAIN ehc.new : new.new[p].is_outer = mark[p]
<1> DEFINE T == [stmt : Text, is_outer : BOOLEAN]
           news == [p \in DOMAIN ehc.new |-> [ehc.new[p] EXCEPT !.is_outer = mark[p]]]
<1>1. ehc.new \in Seq(T)
  BY DEF EHCType
<1>2. DOMAIN ehc.new = 1..Len(ehc.new) /\ Len(ehc.new) \in Nat /\ \A p \in 1..Len(ehc.new) : ehc.new[p] \in T
  BY <1>1, LenProperties, ElementOfSeq
<1>3. \A p \in DOMAIN ehc.new :
         news[p] \in T /\ news[p].stmt = ehc.new[p].stmt /\ news[p].is_outer = mark[p]
  BY <1>2
<1>4. news \in Seq(T)
  <2>1. news \in [1..Len(ehc.new) -> T]
    BY <1>2, <1>3
  <2> QED BY <1>2, <2>1, SeqDef
<1>5. DOMAIN news = DOMAIN ehc.new
  OBVIOUS
<1>6. new = [ehc EXCEPT !.new = news]
  OBVIOUS
<1> HIDE DEF news
<1>7. new.new = news /\ new \in EHCType
  BY <1>4, <1>6 DEF EHCType
<1> QED BY <1>3, <1>5, <1>6, <1>7 DEF Marked

\* The news stay the same ones when they are marked.
LEMMA MarkedNews ==
    ASSUME EInv, NEW s \in Late, s # "find_new", stage = s, NEW new, TurnMade(s, new), LateKeeps,
           EHCs # <<>> => Marked(new, EHCs[at])
    PROVE  \A i \in DOMAIN EHCs : News(i)'
<1>1. EHCs = <<>> => DOMAIN EHCs = {}
  BY LoopAt, StageNames DEF EInv, LoopStages, Late
<1>2. s \in ToSet(Stages) /\ Index("find_new") < Index(s)
  BY StageNames, StageNumbers DEF Late
<1>3. \A i \in DOMAIN EHCs : Through("find_new", i) /\ Through("find_new", i)'
  BY <1>2, StageNames DEF Through, Past, TurnMade
<1>4. ASSUME NEW i \in DOMAIN EHCs PROVE News(i)'
  <2>1. News(i) /\ Fresh(i)' = Fresh(i) /\ EHCs'[i].type = EHCs[i].type
    BY DEF EInv, LateKeeps
  <2>2. DOMAIN EHCs'[i].new = DOMAIN EHCs[i].new
        /\ \A p \in DOMAIN EHCs[i].new : EHCs'[i].new[p].stmt = EHCs[i].new[p].stmt
    <3>1. CASE i = at
      BY <1>1, <3>1 DEF TurnMade, Marked
    <3>2. CASE i # at
      BY <3>2 DEF TurnMade
    <3> QED BY <3>1, <3>2
  <2>3. [p \in DOMAIN EHCs'[i].new |-> EHCs'[i].new[p].stmt]
           = [p \in DOMAIN EHCs[i].new |-> EHCs[i].new[p].stmt]
    BY <2>2
  <2>4. CASE EHCs[i].type # "DENIED"
    BY <1>3, <2>1, <2>3, <2>4 DEF News
  <2>5. CASE EHCs[i].type = "DENIED"
    <3>1. EHCs[i].new = <<>>
      BY <2>1, <2>5 DEF News
    <3>2. i = at => new.new = <<>>
      <4>1. ASSUME i = at PROVE new.new = <<>>
        <5>1. DOMAIN new.new = {} /\ EHCs # <<>>
          BY <1>1, <3>1, <4>1 DEF Marked
        <5>2. new.new \in Seq([stmt : Text, is_outer : BOOLEAN])
          <6>1. new = EHCs'[i] /\ i \in DOMAIN EHCs' /\ EHCs' \in Seq(EHCType)
            BY <4>1 DEF TurnMade
          <6>2. new \in EHCType
            BY <6>1, LenProperties, ElementOfSeq
          <6> QED BY <6>2 DEF EHCType
        <5>3. Len(new.new) \in Nat /\ DOMAIN new.new = 1..Len(new.new)
          BY <5>2, LenProperties
        <5>4. Len(new.new) > 0 => 1 \in DOMAIN new.new
          BY <5>3
        <5> QED BY <5>1, <5>2, <5>3, <5>4, EmptySeq
      <4> QED BY <4>1
    <3>3. EHCs'[i].new = <<>>
      BY <3>1, <3>2 DEF TurnMade
    <3> QED BY <2>1, <2>5, <3>3 DEF News
  <2> QED BY <2>4, <2>5
<1> QED BY <1>4

\* find_pairs marks what is_pair knows.
LEMMA PairsStep ==
    ASSUME EInv, find_pairs
    PROVE  EInv' /\ \A i \in DOMAIN EHCs : Filtered(i)
<1> DEFINE s == "find_pairs"
<1>1. EHCTypeOK /\ s \in LoopStages /\ s \in Late /\ s # "find_new" /\ stage = s /\ Index(s) = 9
  BY StageNames, StageNumbers DEF EInv, LoopStages, Late, find_pairs
<1>2. /\ EHCs # <<>> => at \in DOMAIN EHCs /\ EHCs[at] \in EHCType
      /\ EHCs = <<>> => DOMAIN EHCs = {}
  BY <1>1, LoopAt
<1>3. PICK k : k = at
  OBVIOUS
<1>4. PICK ehc : ehc = EHCs[k]
  OBVIOUS
<1>5. PICK found \in SUBSET {x \in Paired : EHCs # <<>> /\ x \in NewIn(EHCs[at])} :
         /\ stage = s /\ Advance(Len(EHCs)) /\ UNCHANGED function
         /\ EHCs' = IF EHCs = <<>> THEN EHCs
                    ELSE [EHCs EXCEPT ![at] =
                            [EHCs[at] EXCEPT !.new = [p \in DOMAIN EHCs[at].new |->
                               [EHCs[at].new[p] EXCEPT !.is_outer = EHCs[at].new[p].stmt \in found]]]]
  BY DEF find_pairs, Handler
<1>6. PICK mark : mark = [p \in DOMAIN ehc.new |-> ehc.new[p].stmt \in found]
  OBVIOUS
<1>7. PICK new : new = [ehc EXCEPT !.new = [p \in DOMAIN ehc.new |->
                          [ehc.new[p] EXCEPT !.is_outer = ehc.new[p].stmt \in found]]]
  OBVIOUS
<1>8. Turn(s, new) /\ UNCHANGED <<total_fncs, verified_fncs, entries>>
  BY <1>3, <1>4, <1>5, <1>7 DEF find_pairs, Turn
<1>9. EHCs # <<>> =>
         /\ new \in EHCType /\ Marked(new, ehc)
         /\ \A p \in DOMAIN ehc.new : new.new[p].is_outer = mark[p]
  <2>1. ASSUME NEW p \in DOMAIN ehc.new PROVE mark[p] \in BOOLEAN
    <3>1. mark[p] = (ehc.new[p].stmt \in found)
      BY <1>6
    <3> QED BY <3>1
  <2>2. new = [ehc EXCEPT !.new = [p \in DOMAIN ehc.new |->
                                     [ehc.new[p] EXCEPT !.is_outer = mark[p]]]]
    BY <1>6, <1>7
  <2>3. EHCs # <<>> => ehc \in EHCType
    BY <1>2, <1>3, <1>4
  <2> QED BY <2>1, <2>2, <2>3, MarkingKeepsType
<1>10. TurnMade(s, new) /\ LateKeeps
  <2>1. EHCs # <<>> => new \in EHCType /\ new = [EHCs[at] EXCEPT !.new = new.new]
    BY <1>3, <1>4, <1>9 DEF Marked
  <2>2. entries' \in Seq(Text)
    BY <1>1, <1>8 DEF EHCTypeOK
  <2> QED BY <1>1, <1>8, <2>1, <2>2, LateTurns
<1> HIDE DEF s
<1>11. \A i \in DOMAIN EHCs : News(i)'
  BY <1>1, <1>3, <1>4, <1>9, <1>10, MarkedNews
<1>12. \A i : ~Through("find_outer", i)
  BY <1>1, StageNumbers DEF Through, Past, s
<1>13. \A i \in DOMAIN EHCs : ~Through("find_outer", i)'
  BY <1>10, <1>12, StageNames DEF TurnMade, s
<1>14. ASSUME NEW i \in DOMAIN EHCs PROVE Left(i)'
  <2>1. Left(i)
    BY DEF EInv
  <2>2. CASE i # k
    <3>1. EHCs'[i] = EHCs[i]
      BY <1>3, <1>10, <2>2 DEF TurnMade
    <3> QED BY <1>12, <1>13, <2>1, <3>1 DEF Left
  <2>3. CASE i = k
    <3>1. EHCs'[i] = new /\ EHCs # <<>>
      BY <1>2, <1>3, <1>10, <2>3 DEF TurnMade
    <3>2. DOMAIN new.new = DOMAIN ehc.new
          /\ \A p \in DOMAIN ehc.new : new.new[p].stmt = ehc.new[p].stmt
      BY <1>9, <3>1 DEF Marked
    <3>3. \A p \in DOMAIN new.new : new.new[p].is_outer => new.new[p].stmt \in found
      BY <1>6, <1>9, <3>1, <3>2
    <3>4. found \subseteq Paired
      OBVIOUS
    <3> QED BY <1>13, <3>1, <3>3, <3>4 DEF Left
  <2> QED BY <2>2, <2>3
<1>15. DOMAIN EHCs' = DOMAIN EHCs
  BY <1>10 DEF TurnMade
<1>16. ToSet(entries') = Numbered' /\ NothingNumberedTwice'
  BY <1>1, <1>8, <1>10, BeforeNumbering
<1> QED BY <1>10, <1>11, <1>14, <1>15, <1>16, NothingFiltered DEF EInv, LateKeeps

\* find_outer_ehcs marks what is an outer undo as well.
LEMMA OutersStep ==
    ASSUME EInv, find_outer_ehcs
    PROVE  EInv' /\ \A i \in DOMAIN EHCs : Filtered(i)
<1> DEFINE s == "find_outer"
<1>1. EHCTypeOK /\ s \in LoopStages /\ s \in Late /\ s # "find_new" /\ stage = s /\ Index(s) = 10
  BY StageNames, StageNumbers DEF EInv, LoopStages, Late, find_outer_ehcs, Handler
<1>2. /\ EHCs # <<>> => at \in DOMAIN EHCs /\ EHCs[at] \in EHCType
      /\ EHCs = <<>> => DOMAIN EHCs = {}
  BY <1>1, LoopAt
<1>3. PICK k : k = at
  OBVIOUS
<1>4. PICK ehc : ehc = EHCs[k]
  OBVIOUS
<1>5. PICK mark : mark = [p \in DOMAIN ehc.new |-> LeftToOuter(ehc.new[p])]
  OBVIOUS
<1>6. PICK new : new = [ehc EXCEPT !.new = [p \in DOMAIN ehc.new |->
                          [ehc.new[p] EXCEPT !.is_outer = LeftToOuter(ehc.new[p])]]]
  OBVIOUS
<1>7. Turn(s, new) /\ UNCHANGED <<total_fncs, verified_fncs, entries>>
  BY <1>3, <1>4, <1>6 DEF find_outer_ehcs, Handler, Turn
<1>8. EHCs # <<>> => ehc \in EHCType
  BY <1>2, <1>3, <1>4
<1>9. EHCs # <<>> =>
         /\ new \in EHCType /\ Marked(new, ehc)
         /\ \A p \in DOMAIN ehc.new : new.new[p].is_outer = mark[p]
  <2>1. ASSUME EHCs # <<>> PROVE \A p \in DOMAIN ehc.new : mark[p] \in BOOLEAN
    <3>1. \A p \in DOMAIN ehc.new : ehc.new[p] \in [stmt : Text, is_outer : BOOLEAN]
      <4>1. ehc.new \in Seq([stmt : Text, is_outer : BOOLEAN])
        BY <1>8, <2>1 DEF EHCType
      <4> QED BY <4>1, LenProperties, ElementOfSeq
    <3> QED BY <1>5, <3>1 DEF LeftToOuter
  <2>2. new = [ehc EXCEPT !.new = [p \in DOMAIN ehc.new |->
                                     [ehc.new[p] EXCEPT !.is_outer = mark[p]]]]
    BY <1>5, <1>6
  <2> QED BY <1>8, <2>1, <2>2, MarkingKeepsType
<1>10. TurnMade(s, new) /\ LateKeeps
  <2>1. EHCs # <<>> => new \in EHCType /\ new = [EHCs[at] EXCEPT !.new = new.new]
    BY <1>3, <1>4, <1>9 DEF Marked
  <2>2. entries' \in Seq(Text)
    BY <1>1, <1>7 DEF EHCTypeOK
  <2> QED BY <1>1, <1>7, <2>1, <2>2, LateTurns
<1> HIDE DEF s
<1>11. \A i \in DOMAIN EHCs : News(i)'
  BY <1>1, <1>3, <1>4, <1>9, <1>10, MarkedNews
<1>12. \A i \in DOMAIN EHCs : Through("find_outer", i)' <=> Through("find_outer", i) \/ i = k
  BY <1>3, <1>10, StageNames DEF TurnMade, s
<1>13. Outers' = Outers
  BY <1>10 DEF LateKeeps
<1>14. ASSUME NEW i \in DOMAIN EHCs PROVE Left(i)'
  <2>1. Left(i)
    BY DEF EInv
  <2>2. CASE i # k
    <3>1. EHCs'[i] = EHCs[i]
      BY <1>3, <1>10, <2>2 DEF TurnMade
    <3> QED BY <1>12, <1>13, <2>1, <2>2, <3>1 DEF Left
  <2>3. CASE i = k
    <3>1. EHCs'[i] = new /\ EHCs # <<>>
      BY <1>2, <1>3, <1>10, <2>3 DEF TurnMade
    <3>2. DOMAIN new.new = DOMAIN ehc.new
          /\ \A p \in DOMAIN ehc.new : new.new[p].stmt = ehc.new[p].stmt
      BY <1>9, <3>1 DEF Marked
    <3>3. \A p \in DOMAIN ehc.new :
             new.new[p].is_outer <=> ehc.new[p].is_outer \/ ehc.new[p].stmt \in Outers
      BY <1>5, <1>9, <3>1 DEF LeftToOuter
    <3>4. \A p \in DOMAIN ehc.new : ehc.new[p].is_outer =>
             ehc.new[p].stmt \in Paired \/ ehc.new[p].stmt \in Outers
      BY <1>4, <2>1, <2>3 DEF Left
    <3>5. Through("find_outer", i)'
      BY <1>12, <2>3
    <3> QED BY <1>13, <3>1, <3>2, <3>3, <3>4, <3>5 DEF Left
  <2> QED BY <2>2, <2>3
<1>15. DOMAIN EHCs' = DOMAIN EHCs
  BY <1>10 DEF TurnMade
<1>16. ToSet(entries') = Numbered' /\ NothingNumberedTwice'
  BY <1>1, <1>7, <1>10, BeforeNumbering
<1> QED BY <1>10, <1>11, <1>14, <1>15, <1>16, NothingFiltered DEF EInv, LateKeeps

-----------------------------------------------------------------------------
(* Numbering. *)

\* What a concatenation holds, and what it holds twice.
LEMMA ConcatHolds ==
    ASSUME NEW T, NEW s \in Seq(T), NEW t \in Seq(T)
    PROVE  /\ s \o t \in Seq(T) /\ ToSet(s \o t) = ToSet(s) \cup ToSet(t)
           /\ \A v : Twice(s \o t, v) =>
                 Twice(s, v) \/ Twice(t, v) \/ (v \in ToSet(s) /\ v \in ToSet(t))
<1>1. /\ Len(s) \in Nat /\ DOMAIN s = 1..Len(s) /\ Len(t) \in Nat /\ DOMAIN t = 1..Len(t)
  BY LenProperties
<1>2. /\ s \o t \in Seq(T) /\ Len(s \o t) = Len(s) + Len(t)
      /\ \A p \in 1..Len(s) + Len(t) : (s \o t)[p] = IF p <= Len(s) THEN s[p] ELSE t[p - Len(s)]
  BY ConcatProperties
<1>3. DOMAIN (s \o t) = 1..Len(s) + Len(t)
  BY <1>2, LenProperties
<1> DEFINE all == s \o t
           In(p) == p \in DOMAIN s /\ all[p] = s[p]
           After(p) == p - Len(s) \in DOMAIN t /\ all[p] = t[p - Len(s)]
<1>4. \A p \in DOMAIN all : p \in Int /\ (In(p) \/ After(p))
  BY <1>1, <1>2, <1>3
<1>5. \A p \in DOMAIN s : p \in DOMAIN all /\ all[p] = s[p]
  BY <1>1, <1>2, <1>3
<1>6. \A p \in DOMAIN t : p + Len(s) \in DOMAIN all /\ all[p + Len(s)] = t[p]
  <2>1. ASSUME NEW p \in DOMAIN t PROVE p + Len(s) \in DOMAIN all /\ all[p + Len(s)] = t[p]
    <3>1. p + Len(s) \in 1..Len(s) + Len(t) /\ ~(p + Len(s) <= Len(s)) /\ (p + Len(s)) - Len(s) = p
      BY <1>1
    <3> QED BY <1>2, <1>3, <3>1
  <2> QED BY <2>1
<1>7. ToSet(all) = ToSet(s) \cup ToSet(t)
  <2> HIDE DEF all
  <2>1. ASSUME NEW v \in ToSet(all) PROVE v \in ToSet(s) \cup ToSet(t)
    BY <1>4, <2>1 DEF ToSet
  <2>2. ASSUME NEW v \in ToSet(s) \cup ToSet(t) PROVE v \in ToSet(all)
    BY <1>5, <1>6, <2>2 DEF ToSet
  <2> QED BY <2>1, <2>2
<1>8. ASSUME NEW v, Twice(all, v)
      PROVE  Twice(s, v) \/ Twice(t, v) \/ (v \in ToSet(s) /\ v \in ToSet(t))
  <2> HIDE DEF all
  <2>1. PICK a, b \in DOMAIN all : a # b /\ all[a] = v /\ all[b] = v
    BY <1>8 DEF Twice
  <2>2. a \in Int /\ b \in Int /\ (In(a) \/ After(a)) /\ (In(b) \/ After(b))
    BY <1>4
  <2>3. CASE In(a) /\ In(b)
    BY <2>1, <2>3 DEF Twice
  <2>4. CASE After(a) /\ After(b)
    <3>1. a - Len(s) # b - Len(s)
      BY <1>1, <2>1, <2>2
    <3> QED BY <2>1, <2>4, <3>1 DEF Twice
  <2>5. CASE (In(a) /\ After(b)) \/ (After(a) /\ In(b))
    BY <2>1, <2>5 DEF ToSet
  <2> QED BY <2>2, <2>3, <2>4, <2>5
<1> QED BY <1>2, <1>7, <1>8

\* What Keep keeps twice was there twice.
LEMMA KeptTwice ==
    ASSUME NEW T, NEW s \in Seq(T), NEW S, NEW v, Twice(Keep(s, S), v)
    PROVE  Twice(s, v)
<1>1. PICK a, b \in DOMAIN Keep(s, S) : a # b /\ Keep(s, S)[a] = v /\ Keep(s, S)[b] = v
  BY DEF Twice
<1>2. \E p, q \in DOMAIN s : p # q /\ s[p] = Keep(s, S)[a] /\ s[q] = Keep(s, S)[a]
  BY <1>1, KeepTwice
<1> QED BY <1>1, <1>2 DEF Twice

\* An EHC's inner undos are its new statements that are not left to the outer ones.
LEMMA InnerLists ==
    ASSUME NEW ehc \in EHCType
    PROVE  /\ Inner(ehc) \in Seq(Text)
           /\ ToSet(Inner(ehc)) = {ehc.new[p].stmt : p \in {q \in DOMAIN ehc.new : ~ehc.new[q].is_outer}}
           /\ \A v : Twice(Inner(ehc), v) => Twice([p \in DOMAIN ehc.new |-> ehc.new[p].stmt], v)
<1> DEFINE T == [stmt : Text, is_outer : BOOLEAN]
           S == [stmt : Text, is_outer : {FALSE}]
<1>1. PICK new : new = ehc.new
  OBVIOUS
<1>2. PICK own : own = Keep(new, S)
  OBVIOUS
<1>3. new \in Seq(T) /\ own \in Seq(T) /\ ToSet(own) = ToSet(new) \cap S
  <2>1. new \in Seq(T)
    BY <1>1 DEF EHCType
  <2> QED BY <1>2, <2>1, KeepElements
<1>4. /\ Len(own) \in Nat /\ DOMAIN own = 1..Len(own) /\ Len(new) \in Nat /\ DOMAIN new = 1..Len(new)
      /\ \A p \in DOMAIN own : own[p] \in T /\ own[p] \in S
      /\ \A p \in DOMAIN new : new[p] \in T
  <2>1. \A p \in DOMAIN own : own[p] \in ToSet(own)
    BY DEF ToSet
  <2> QED BY <1>3, <2>1, LenProperties, ElementOfSeq
<1>5. Inner(ehc) = [p \in DOMAIN own |-> own[p].stmt]
  BY <1>1, <1>2 DEF Inner
<1>6. Inner(ehc) \in Seq(Text)
  <2>1. Inner(ehc) \in [1..Len(own) -> Text]
    BY <1>4, <1>5
  <2> QED BY <1>4, <2>1, SeqDef
<1>7. \A p \in DOMAIN new : new[p] \in S <=> ~new[p].is_outer
  BY <1>4
<1>10. ASSUME NEW x \in S, NEW y \in S, x.stmt = y.stmt PROVE x = y
  <2>1. x.is_outer = FALSE /\ y.is_outer = FALSE
    OBVIOUS
  <2>2. \A z \in S : z = [stmt |-> z.stmt, is_outer |-> z.is_outer]
    OBVIOUS
  <2> QED BY <1>10, <2>1, <2>2, Zenon
<1> HIDE DEF S, T
<1>8. ToSet(Inner(ehc)) = {new[p].stmt : p \in {q \in DOMAIN new : ~new[q].is_outer}}
  <2>1. ASSUME NEW p \in DOMAIN own PROVE \E q \in DOMAIN new : new[q] \in S /\ new[q] = own[p]
    BY <1>3 DEF ToSet
  <2>2. ASSUME NEW q \in DOMAIN new, new[q] \in S PROVE \E p \in DOMAIN own : new[q] = own[p]
    BY <1>3, <2>2 DEF ToSet
  <2>3. ToSet(Inner(ehc)) = {own[p].stmt : p \in DOMAIN own}
    BY <1>5 DEF ToSet
  <2> QED BY <1>7, <2>1, <2>2, <2>3
<1>9. ASSUME NEW v, Twice(Inner(ehc), v) PROVE Twice([p \in DOMAIN new |-> new[p].stmt], v)
  <2>1. PICK a, b \in DOMAIN own : a # b /\ own[a].stmt = v /\ own[b].stmt = v
    BY <1>5, <1>9 DEF Twice
  <2>2. own[a] = own[b]
    BY <1>4, <1>10, <2>1
  <2>3. \E p, q \in DOMAIN new : p # q /\ new[p] = own[a] /\ new[q] = own[a]
    BY <1>2, <1>3, <2>1, <2>2, KeepTwice
  <2> QED BY <2>1, <2>3 DEF Twice
<1> QED BY <1>1, <1>6, <1>8, <1>9

\* Where an inner undo comes from, once the outer undos are found.
LEMMA InnerFrom ==
    ASSUME EInv, Past("find_outer"), NEW i \in DOMAIN EHCs
    PROVE  /\ Inner(EHCs[i]) \in Seq(Text) /\ ToSet(Inner(EHCs[i])) = InnerUndos(i)
           /\ \A v : Twice(Inner(EHCs[i]), v) => Twice(EHCs[i].stmts, v)
           /\ \A v \in InnerUndos(i) :
                 /\ v \in Text \ Taken /\ v \in ToSet(EHCs[i].stmts)
                 /\ \A j \in 1..(i - 1) : ~Contains(EHCs[j].stmts, v)
<1>1. EHCs[i] \in EHCType /\ EHCs[i].stmts \in Seq(Text)
  <2>1. EHCs \in Seq(EHCType)
    BY DEF EInv, EHCTypeOK
  <2>2. EHCs[i] \in EHCType
    BY <2>1, LenProperties, ElementOfSeq
  <2> QED BY <2>2 DEF EHCType
<1>2. Collected(i) /\ News(i) /\ Left(i)
  BY DEF EInv
<1>3. Through("find_outer", i) /\ Through("find_new", i)
  <2>1. Index(stage) \in Nat
    BY StageInjective DEF EInv, EHCTypeOK
  <2> QED BY <2>1, StageNumbers DEF Through, Past
<1>4. PICK ehc : ehc = EHCs[i]
  OBVIOUS
<1>5. PICK texts : texts = [p \in DOMAIN ehc.new |-> ehc.new[p].stmt]
  OBVIOUS
<1>6. /\ Inner(ehc) \in Seq(Text) /\ ToSet(Inner(ehc)) = InnerUndos(i)
      /\ \A v : Twice(Inner(ehc), v) => Twice(texts, v)
  BY <1>1, <1>4, <1>5, InnerLists DEF InnerUndos
<1>7. texts = Fresh(i) \/ texts = <<>>
  BY <1>2, <1>3, <1>4, <1>5 DEF News
<1>8. \A v : Twice(texts, v) => Twice(ehc.stmts, v)
  <2>1. \A v : ~Twice(<<>>, v)
    BY DEF Twice
  <2>2. \A v : Twice(Fresh(i), v) => Twice(ehc.stmts, v)
    BY <1>1, <1>4, KeptTwice DEF Fresh
  <2> QED BY <1>7, <2>1, <2>2
<1>9. ASSUME NEW v \in InnerUndos(i)
      PROVE  /\ v \in Text \ Taken /\ v \in ToSet(EHCs[i].stmts)
             /\ \A j \in 1..(i - 1) : ~Contains(EHCs[j].stmts, v)
  <2>1. PICK p \in DOMAIN ehc.new : ehc.new[p].stmt = v /\ ~ehc.new[p].is_outer
    BY <1>4 DEF InnerUndos
  <2>2. v \in ToSet(texts)
    BY <1>5, <2>1 DEF ToSet
  <2>3. v \in ToSet(Fresh(i))
    BY <1>7, <2>2 DEF ToSet
  <2>4. ToSet(Fresh(i)) =
           ToSet(EHCs[i].stmts)
           \cap {x \in Text \ InMacro : \A j \in 1..(i - 1) : ~Contains(EHCs[j].stmts, x)}
    BY <1>1, KeepElements DEF Fresh
  <2>5. v \notin Outers
    BY <1>2, <1>3, <1>4, <2>1 DEF Left
  <2>6. v \in Statements(function)
    BY <1>2, <2>3, <2>4 DEF Collected
  <2> QED BY <2>3, <2>4, <2>5, <2>6 DEF Outers
<1> QED BY <1>4, <1>6, <1>8, <1>9

\* The outer undos can be listed, each once.
LEMMA OutersLists ==
    /\ SetToSeq(Outers) \in Seq(Text) /\ ToSet(SetToSeq(Outers)) = Outers
    /\ \A v : ~Twice(SetToSeq(Outers), v)
<1>1. Outers \subseteq Text /\ IsFiniteSet(Outers)
  <2>1. Outers \subseteq Text
    BY AnalysisAssumption DEF Outers
  <2> QED BY <2>1, ProgramsAssumption, FS_Subset
<1> DEFINE list == SetToSeq(Outers)
<1>2. /\ list \in Seq(Outers) /\ ToSet(list) = Outers
      /\ \A a, b \in DOMAIN list : list[a] = list[b] => a = b
  BY <1>1, SetToSeqLists
<1> HIDE DEF list
<1>3. list \in Seq(Text)
  BY <1>1, <1>2
<1>4. \A v : ~Twice(list, v)
  BY <1>2 DEF Twice
<1> QED BY <1>2, <1>3, <1>4 DEF list

\* What assign_pairmask_id adds, and when it is done.
LEMMA AssignTurns ==
    ASSUME EInv, assign_pairmask_id
    PROVE  \E own, outer, new :
              /\ Turn("assign_id", new) /\ (EHCs # <<>> => new = EHCs[at])
              /\ UNCHANGED <<total_fncs, verified_fncs>>
              /\ entries' = (entries \o own) \o outer
              /\ own = IF EHCs = <<>> THEN <<>> ELSE Inner(EHCs[at])
              /\ outer = IF stage' = "done" THEN SetToSeq(Outers) ELSE <<>>
<1>1. stage = "assign_id" /\ EHCTypeOK /\ Advance(Len(EHCs))
  BY DEF EInv, assign_pairmask_id, Handler
<1>2. Len(EHCs) \in Nat /\ at \in 1..Len(EHCs) \cup {1}
  BY <1>1, LoopAt, StageNames DEF LoopStages
<1>3. stage' = "done" <=> at >= Len(EHCs)
  <2>1. \/ at < Len(EHCs) /\ stage' = stage /\ at' = at + 1
        \/ at >= Len(EHCs) /\ Index(stage') = Index(stage) + 1 /\ at' = 1
    BY <1>1, <1>2, AdvanceStages DEF EHCTypeOK
  <2>2. stage' \in ToSet(Stages)
    BY <1>1, <1>2, AdvanceStages DEF EHCTypeOK
  <2>3. Index(stage') = 12 => stage' = "done"
    BY <2>2, StageInjective, StageNumbers, StageNames
  <2> QED BY <1>1, <1>2, <2>1, <2>3, StageNumbers
<1>4. PICK own : own = IF EHCs = <<>> THEN <<>> ELSE Inner(EHCs[at])
  OBVIOUS
<1>5. PICK outer : outer = IF stage' = "done" THEN SetToSeq(Outers) ELSE <<>>
  OBVIOUS
<1>6. PICK new : new = EHCs[at]
  OBVIOUS
<1>7. Turn("assign_id", new)
  BY <1>6 DEF assign_pairmask_id, Handler, Turn
<1>8. entries' = (entries \o own) \o outer
  BY <1>3, <1>4, <1>5 DEF assign_pairmask_id
<1> QED BY <1>4, <1>5, <1>6, <1>7, <1>8 DEF assign_pairmask_id

\* assign_pairmask_id numbers every undo once.
LEMMA AssignStep ==
    ASSUME EInv, assign_pairmask_id
    PROVE  EInv' /\ \A i \in DOMAIN EHCs : Filtered(i)
<1> DEFINE s == "assign_id"
<1>1. EHCTypeOK /\ s \in LoopStages /\ s \in Late /\ s # "find_new" /\ stage = s
  BY StageNames, StageNumbers DEF EInv, LoopStages, Late, assign_pairmask_id, Handler
<1>2. /\ EHCs # <<>> => at \in DOMAIN EHCs /\ EHCs[at] \in EHCType
      /\ EHCs = <<>> => DOMAIN EHCs = {}
      /\ DOMAIN EHCs = 1..Len(EHCs) /\ Len(EHCs) \in Nat /\ at \in Nat
  BY <1>1, LoopAt
<1>3. PICK k : k = at
  OBVIOUS
<1>4. PICK own, outer, new :
         /\ Turn(s, new) /\ (EHCs # <<>> => new = EHCs[at])
         /\ UNCHANGED <<total_fncs, verified_fncs>>
         /\ entries' = (entries \o own) \o outer
         /\ own = IF EHCs = <<>> THEN <<>> ELSE Inner(EHCs[at])
         /\ outer = IF stage' = "done" THEN SetToSeq(Outers) ELSE <<>>
  BY AssignTurns
<1>5. Past("find_outer") /\ ~Through(s, k) /\ stage # "done"
  BY <1>1, <1>2, <1>3, StageNumbers DEF Through, Past
<1>6. /\ own \in Seq(Text) /\ ToSet(own) = IF EHCs = <<>> THEN {} ELSE InnerUndos(k)
      /\ EHCs # <<>> => \A v : Twice(own, v) => Twice(EHCs[k].stmts, v)
      /\ EHCs = <<>> => own = <<>>
  BY <1>2, <1>3, <1>4, <1>5, InnerFrom DEF ToSet
<1>7. /\ outer \in Seq(Text) /\ ToSet(outer) = IF stage' = "done" THEN Outers ELSE {}
      /\ \A v : ~Twice(outer, v)
  <2>1. <<>> \in Seq(Text) /\ ToSet(<<>>) = {} /\ \A v : ~Twice(<<>>, v)
    BY DEF ToSet, Twice
  <2> QED BY <1>4, <2>1, OutersLists
<1>8. entries \in Seq(Text) /\ ToSet(entries) = Numbered /\ NothingNumberedTwice
  BY DEF EInv, EHCTypeOK
<1>9. /\ entries \o own \in Seq(Text) /\ ToSet(entries \o own) = ToSet(entries) \cup ToSet(own)
      /\ \A v : Twice(entries \o own, v) =>
            Twice(entries, v) \/ Twice(own, v) \/ (v \in ToSet(entries) /\ v \in ToSet(own))
  BY <1>6, <1>8, ConcatHolds
<1>10. /\ entries' \in Seq(Text) /\ ToSet(entries') = ToSet(entries) \cup ToSet(own) \cup ToSet(outer)
       /\ \A v : Twice(entries', v) =>
             \/ Twice(entries, v) \/ Twice(own, v) \/ (v \in ToSet(entries) /\ v \in ToSet(own))
             \/ ((v \in ToSet(entries) \/ v \in ToSet(own)) /\ v \in ToSet(outer))
  <2>1. PICK front : front = entries \o own
    OBVIOUS
  <2>2. front \in Seq(Text) /\ entries' = front \o outer
    BY <1>4, <1>9, <2>1
  <2>3. /\ entries' \in Seq(Text) /\ ToSet(entries') = ToSet(front) \cup ToSet(outer)
        /\ \A v : Twice(entries', v) =>
              Twice(front, v) \/ Twice(outer, v) \/ (v \in ToSet(front) /\ v \in ToSet(outer))
    BY <1>7, <2>2, ConcatHolds
  <2> QED BY <1>7, <1>9, <2>1, <2>3
<1>11. TurnMade(s, new) /\ LateKeeps
  <2>1. EHCs # <<>> => new \in EHCType /\ new = [EHCs[at] EXCEPT !.new = new.new]
    BY <1>2, <1>4 DEF EHCType
  <2> QED BY <1>1, <1>4, <1>10, <2>1, LateTurns
<1> HIDE DEF s
<1>12. \A i \in DOMAIN EHCs : EHCs'[i] = EHCs[i]
  BY <1>2, <1>4, <1>11 DEF TurnMade
<1>13. \A i \in DOMAIN EHCs : News(i)'
  <2>1. EHCs # <<>> => Marked(new, EHCs[at])
    BY <1>2, <1>4 DEF Marked, EHCType
  <2> QED BY <1>1, <1>11, <2>1, MarkedNews
<1>14. Outers' = Outers
  BY <1>11 DEF LateKeeps
<1>15. \A i \in DOMAIN EHCs : Left(i)'
  <2>1. \A i \in DOMAIN EHCs : Through("find_outer", i)' <=> Through("find_outer", i)
    BY <1>11, StageNames DEF TurnMade, s
  <2> QED BY <1>12, <1>14, <2>1 DEF EInv, Left
<1>16. DOMAIN EHCs' = DOMAIN EHCs
  BY <1>11 DEF TurnMade
<1>17. \A i \in DOMAIN EHCs : InnerUndos(i)' = InnerUndos(i)
  BY <1>12 DEF InnerUndos
<1>18. \A i \in DOMAIN EHCs : Through("assign_id", i)' <=> Through("assign_id", i) \/ i = k
  BY <1>3, <1>11, StageNames DEF TurnMade, s
<1>19. ToSet(entries') = Numbered'
  <2> DEFINE before == {i \in DOMAIN EHCs : Through("assign_id", i)}
             after == {i \in DOMAIN EHCs' : Through("assign_id", i)'}
             sets == {InnerUndos(i) : i \in before}
             sets1 == {InnerUndos(i)' : i \in after}
  <2>1. ToSet(entries) = UNION sets
    <3>1. Numbered = (UNION sets) \cup {}
      BY <1>5 DEF Numbered
    <3> QED BY <1>8, <3>1
  <2>2. Numbered' = (UNION sets1) \cup ToSet(outer)
    BY <1>7, <1>14 DEF Numbered
  <2>3. \A v : v \in UNION sets1 <=> \E i \in DOMAIN EHCs : Through("assign_id", i)' /\ v \in InnerUndos(i)
    BY <1>16, <1>17
  <2>4. \A v : v \in UNION sets <=> \E i \in DOMAIN EHCs : Through("assign_id", i) /\ v \in InnerUndos(i)
    OBVIOUS
  <2>5. \A v : v \in ToSet(own) <=> \E i \in DOMAIN EHCs : i = k /\ v \in InnerUndos(i)
    BY <1>2, <1>3, <1>6
  <2> HIDE DEF sets, sets1
  <2>6. \A v : v \in UNION sets1 <=> v \in UNION sets \/ v \in ToSet(own)
    BY <1>18, <2>3, <2>4, <2>5
  <2>7. UNION sets1 = (UNION sets) \cup ToSet(own)
    BY <2>6
  <2> QED BY <1>10, <2>1, <2>2, <2>7
<1>20. \A v \in ToSet(entries) : \E i \in DOMAIN EHCs : i < k /\ v \in InnerUndos(i)
  <2>1. \A i : Through("assign_id", i) => i < k
    BY <1>1, <1>3, StageNumbers DEF Through, Past, s
  <2> QED BY <1>5, <1>8, <2>1 DEF Numbered
<1>21. ASSUME NEW v \in Text, Twice(entries', v)
       PROVE  v \notin Taken /\ \E i \in DOMAIN EHCs : Twice(EHCs[i].stmts, v)
  <2>1. CASE Twice(entries, v)
    BY <1>8, <2>1 DEF NothingNumberedTwice
  <2>2. CASE Twice(own, v)
    <3>1. EHCs # <<>> /\ v \in ToSet(own)
      BY <1>6, <2>2 DEF Twice, ToSet
    <3>2. v \in InnerUndos(k) /\ k \in DOMAIN EHCs
      BY <1>2, <1>3, <1>6, <3>1
    <3> QED BY <1>5, <1>6, <2>2, <3>1, <3>2, InnerFrom
  <2>3. CASE v \in ToSet(entries) /\ v \in ToSet(own)
    <3>1. PICK i \in DOMAIN EHCs : i < k /\ v \in InnerUndos(i)
      BY <1>20, <2>3
    <3>2. v \in InnerUndos(k) /\ k \in DOMAIN EHCs
      BY <1>2, <1>3, <1>6, <2>3
    <3>3. v \in ToSet(EHCs[i].stmts) /\ EHCs[i].stmts \in Seq(Text)
      <4>1. v \in ToSet(EHCs[i].stmts)
        BY <1>5, <3>1, InnerFrom
      <4>2. EHCs \in Seq(EHCType)
        BY <1>1 DEF EHCTypeOK
      <4>3. EHCs[i] \in EHCType
        BY <4>2, LenProperties, ElementOfSeq
      <4> QED BY <4>1, <4>3 DEF EHCType
    <3>4. i \in 1..(k - 1)
      BY <1>2, <3>1, <3>2
    <3>5. ~Contains(EHCs[i].stmts, v)
      BY <1>5, <3>2, <3>4, InnerFrom
    <3> QED BY <3>3, <3>5, ContainsElements
  <2>4. CASE (v \in ToSet(entries) \/ v \in ToSet(own)) /\ v \in ToSet(outer)
    <3>1. PICK i \in DOMAIN EHCs : v \in InnerUndos(i)
      BY <1>2, <1>3, <1>6, <1>20, <2>4
    <3>2. v \notin Taken
      BY <1>5, <3>1, InnerFrom
    <3> QED BY <1>7, <2>4, <3>2 DEF Outers
  <2> QED BY <1>10, <1>21, <2>1, <2>2, <2>3, <2>4
<1>22. NothingNumberedTwice'
  <2>1. \A i \in DOMAIN EHCs : EHCs'[i].stmts = EHCs[i].stmts
    BY <1>12
  <2> QED BY <1>16, <1>21, <2>1 DEF NothingNumberedTwice, Twice
<1> QED BY <1>11, <1>13, <1>15, <1>16, <1>19, <1>22, NothingFiltered DEF EInv, LateKeeps

-----------------------------------------------------------------------------
(* The analysis as a whole. *)

\* What has to be told of every state is so at the start.
LEMMA EHCInit == Init => EInv
<1> SUFFICES ASSUME Init PROVE EInv
  OBVIOUS
<1>1. stage = "recursiveVisit_if" /\ function \in Programs /\ at = 1
  BY DEF Init
<1>2. EHCs = <<>> /\ entries = <<>> /\ total_fncs = 0 /\ verified_fncs = 0
  BY DEF Init
<1>3. EHCTypeOK
  BY <1>1, <1>2, StageNames DEF EHCTypeOK
<1>4. Gathering
  BY <1>1, <1>2, <1>3 DEF Gathering
<1> QED BY <1>4, GatheringHolds

\* Every handler's turn keeps the invariant.
LEMMA EHCStep == EInv /\ [Next]_vars => EInv'
<1> SUFFICES ASSUME EInv, [Next]_vars PROVE EInv'
  OBVIOUS
<1>1. CASE recursiveVisit_if
  BY <1>1, VisitStep
<1>2. CASE find_ehc_stmts
  BY <1>2, CollectStep
<1>3. CASE \/ delete_blacklist_functions \/ handle_loops
           \/ handle_critical_sections \/ handle_return
  BY <1>3, FiltersStep
<1>4. CASE handle_maybe
  BY <1>4, MaybeStep
<1>5. CASE find_ehc_new_stmts
  BY <1>5, NewStmtsStep
<1>6. CASE find_pairs
  BY <1>6, PairsStep
<1>7. CASE find_outer_ehcs
  BY <1>7, OutersStep
<1>8. CASE assign_pairmask_id
  BY <1>8, AssignStep
<1>9. CASE UNCHANGED vars
  <2>1. \A i : \A s : Through(s, i)' <=> Through(s, i)
    BY <1>9 DEF vars, Through, Past
  <2>2. EHCTypeOK'
    BY <1>9 DEF EInv, EHCTypeOK, List, vars
  <2>3. ASSUME NEW i \in DOMAIN EHCs' PROVE Collected(i)' /\ News(i)' /\ Left(i)' /\ Verdicts(i)'
    <3>1. EHCs' = EHCs /\ function' = function
      BY <1>9 DEF vars
    <3>2. Collected(i) /\ News(i) /\ Left(i) /\ Verdicts(i)
      BY <2>3, <3>1 DEF EInv
    <3>3. Collected(i)'
      BY <3>1, <3>2 DEF Collected, Statements
    <3>4. News(i)'
      <4>1. Fresh(i)' = Fresh(i)
        BY <3>1 DEF Fresh
      <4> QED BY <2>1, <3>1, <3>2, <4>1 DEF News
    <3>5. Left(i)'
      <4>1. Outers' = Outers
        BY <3>1 DEF Outers, Statements
      <4> QED BY <2>1, <3>1, <3>2, <4>1 DEF Left
    <3>6. Verdicts(i)'
      <4>1. Verdict(i)' <=> Verdict(i)
        BY <3>1 DEF Verdict, Decided, Has, SomeUpTo
      <4>2. Uncut' <=> Uncut
        BY <1>9 DEF Uncut, Past, vars
      <4> QED BY <2>1, <3>1, <3>2, <4>1, <4>2 DEF Verdicts, Decided
    <3> QED BY <3>3, <3>4, <3>5, <3>6
  <2>4. Counters'
    BY <1>9, <2>1 DEF EInv, Counters, Judged, Decided, Has, vars, Past
  <2>5. Numbered' = Numbered
    BY <1>9, <2>1 DEF Numbered, InnerUndos, Outers, Statements, vars
  <2>6. ToSet(entries') = Numbered' /\ NothingNumberedTwice'
    BY <1>9, <2>5 DEF EInv, NothingNumberedTwice, Twice, vars
  <2> QED BY <2>2, <2>3, <2>4, <2>6 DEF EInv
<1> QED BY <1>1, <1>2, <1>3, <1>4, <1>5, <1>6, <1>7, <1>8, <1>9 DEF Next

\* The whole invariant, of every function that is analysed.
THEOREM EHCInvariant == Spec => []EInv
BY EHCInit, EHCStep, PTL DEF Spec

\* The loops stay inside their lists, and no more than statements are collected.
THEOREM EHCTypeCorrect == Spec => []EHCTypeOK
<1>1. EInv => EHCTypeOK
  BY DEF EInv
<1> QED BY <1>1, EHCInvariant, PTL

\* handle_maybe: every verdict can be read off what the doubtful blocks up to it
\* hold when it is done, the locks they take included.
THEOREM VerdictCorrect == Spec => []VerdictByPrefix
<1>1. EInv => VerdictByPrefix
  BY DEF EInv, VerdictByPrefix, Verdicts
<1> QED BY <1>1, EHCInvariant, PTL

\* find_ehc_new_stmts and handle_outer_ehcs_duplicates: no undo has two bits,
\* unless an EHC repeats it.
THEOREM NumberedOnceCorrect == Spec => []NothingNumberedTwice
<1>1. EInv => NothingNumberedTwice
  BY DEF EInv
<1> QED BY <1>1, EHCInvariant, PTL

\* The first EHC that has an undo gives it its bit, or leaves it to the outer undos.
LEMMA NothingLost == EInv => LostOnlyBehindDenied
<1> SUFFICES ASSUME EInv, stage = "done", NEW i \in DOMAIN EHCs, NEW s \in Undoing(i)
             PROVE  \/ Contains(entries, s)
                    \/ \E j \in 1..(i - 1) : EHCs[j].type = "DENIED" /\ Contains(EHCs[j].stmts, s)
                    \/ s \in Paired \ Taken
  BY DEF LostOnlyBehindDenied
<1>1. EHCs \in Seq(EHCType) /\ entries \in Seq(Text)
  BY DEF EInv, EHCTypeOK
<1>2. DOMAIN EHCs = 1..Len(EHCs) /\ Len(EHCs) \in Nat /\ \A j \in DOMAIN EHCs : EHCs[j] \in EHCType
  BY <1>1, LenProperties, ElementOfSeq
<1>3. \A j \in DOMAIN EHCs : EHCs[j].stmts \in Seq(Text)
  BY <1>2 DEF EHCType
<1>4. \A j \in DOMAIN EHCs : Contains(EHCs[j].stmts, s) <=> s \in ToSet(EHCs[j].stmts)
  BY <1>3, ContainsElements
<1>5. s \in ToSet(EHCs[i].stmts) /\ EHCs[i].type # "DENIED" /\ s \notin InMacro
  BY DEF Undoing
<1>6. s \in Text
  BY <1>3, <1>5, LenProperties, ElementOfSeq DEF ToSet
<1>7. PICK m \in 1..i : /\ s \in ToSet(EHCs[m].stmts)
                        /\ \A j \in 1..(m - 1) : ~Contains(EHCs[j].stmts, s)
  <2> DEFINE Having == {j \in 1..i : s \in ToSet(EHCs[j].stmts)}
  <2>1. i \in Having /\ Having \in SUBSET Nat
    BY <1>2, <1>5
  <2>2. PICK m \in Having : \A n \in Having : m <= n
    BY <2>1, LeastElement
  <2>3. ASSUME NEW j \in 1..(m - 1) PROVE ~Contains(EHCs[j].stmts, s)
    <3>1. j \in 1..i /\ j \in DOMAIN EHCs /\ ~(m <= j)
      BY <1>2, <2>2
    <3> QED BY <1>4, <2>2, <3>1
  <2> QED BY <2>2, <2>3
<1>8. m \in DOMAIN EHCs /\ (m = i \/ m \in 1..(i - 1))
  BY <1>2
<1>9. CASE EHCs[m].type = "DENIED"
  <2>1. m # i
    BY <1>5, <1>9
  <2> QED BY <1>4, <1>7, <1>8, <1>9, <2>1
<1>10. CASE EHCs[m].type # "DENIED"
  <2>1. Collected(m) /\ News(m) /\ Left(m)
    BY <1>8 DEF EInv
  <2>2. Through("find_new", m) /\ Through("assign_id", m)
    BY StageNumbers DEF Through, Past
  <2>3. s \in ToSet(Fresh(m))
    <3>1. ToSet(Fresh(m)) =
             ToSet(EHCs[m].stmts)
             \cap {x \in Text \ InMacro : \A j \in 1..(m - 1) : ~Contains(EHCs[j].stmts, x)}
      BY <1>3, <1>8, KeepElements DEF Fresh
    <3> QED BY <1>5, <1>6, <1>7, <3>1
  <2>4. [p \in DOMAIN EHCs[m].new |-> EHCs[m].new[p].stmt] = Fresh(m)
    BY <1>10, <2>1, <2>2 DEF News
  <2>5. PICK p \in DOMAIN EHCs[m].new : EHCs[m].new[p].stmt = s
    <3>1. ToSet([p \in DOMAIN EHCs[m].new |-> EHCs[m].new[p].stmt])
             = {EHCs[m].new[p].stmt : p \in DOMAIN EHCs[m].new}
      BY DEF ToSet
    <3> QED BY <2>3, <2>4, <3>1
  <2>6. Contains(entries, s) <=> s \in ToSet(entries)
    BY <1>1, ContainsElements
  <2>7. ToSet(entries) = Numbered
    BY DEF EInv
  <2>8. s \in Statements(function)
    BY <1>7, <2>1 DEF Collected
  <2>9. s \in Outers => s \in Numbered
    BY DEF Numbered
  <2>10. CASE ~EHCs[m].new[p].is_outer
    <3>1. s \in InnerUndos(m)
      BY <2>5, <2>10 DEF InnerUndos
    <3>2. s \in Numbered
      BY <1>8, <2>2, <3>1 DEF Numbered
    <3> QED BY <2>6, <2>7, <3>2
  <2>11. CASE EHCs[m].new[p].is_outer
    <3>1. s \in Paired \/ s \in Outers
      BY <2>1, <2>5, <2>11 DEF Left
    <3>2. s \in Taken => s \in Outers
      BY <2>8 DEF Outers
    <3> QED BY <2>6, <2>7, <2>9, <3>1, <3>2
  <2> QED BY <2>10, <2>11
<1> QED BY <1>9, <1>10

\* No undo of an accepted EHC is lost, but behind a denied block or to an outer
\* undo that outer_ehcs_recurcive_visit does not take.
THEOREM NothingLostCorrect == Spec => []LostOnlyBehindDenied
BY NothingLost, EHCInvariant, PTL

\* The handlers after find_ehc_stmts only remove statements.
LEMMA FilteringStep ==
    EInv /\ [Next]_vars =>
        [Past("find_ehc_stmts") => \A i \in DOMAIN EHCs : Filtered(i)]_vars
<1> SUFFICES ASSUME EInv, Next, Past("find_ehc_stmts")
             PROVE  \A i \in DOMAIN EHCs : Filtered(i)
  OBVIOUS
<1>1. ~recursiveVisit_if /\ ~find_ehc_stmts
  <2>1. stage # "recursiveVisit_if" /\ stage # "find_ehc_stmts"
    BY StageNumbers DEF Past
  <2>2. recursiveVisit_if => stage = "recursiveVisit_if"
    BY DEF recursiveVisit_if
  <2>3. find_ehc_stmts => stage = "find_ehc_stmts"
    BY DEF find_ehc_stmts, Handler
  <2> QED BY <2>1, <2>2, <2>3
<1>2. CASE \/ delete_blacklist_functions \/ handle_loops
           \/ handle_critical_sections \/ handle_return
  BY <1>2, FiltersStep
<1>3. CASE handle_maybe
  BY <1>3, MaybeStep
<1>4. CASE find_ehc_new_stmts
  BY <1>4, NewStmtsStep
<1>5. CASE find_pairs
  BY <1>5, PairsStep
<1>6. CASE find_outer_ehcs
  BY <1>6, OutersStep
<1>7. CASE assign_pairmask_id
  BY <1>7, AssignStep
<1> QED BY <1>1, <1>2, <1>3, <1>4, <1>5, <1>6, <1>7 DEF Next

\* A filter removes statements and keeps their order, and only handle_maybe
\* changes a type, of a doubtful block.
THEOREM FiltersCorrect == Spec => FiltersOnly
BY EHCInvariant, FilteringStep, PTL DEF Spec, FiltersOnly
===============================================================================
