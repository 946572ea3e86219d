-------------------------------- MODULE EHCProps -------------------------------
(****************************************************************************)
(* What the analysis of a function comes to.                                *)
(****************************************************************************)
EXTENDS EHCAnalysis

Types == {"COND", "RETURN", "MAYBE", "GOTO", "GOTO_MAYBE", "VERIFIED", "DENIED"}

EHCType ==
    [type : Types, blk : BlockType, stmts : Seq(Text), new : Seq([stmt : Text, is_outer : BOOLEAN])]

\* The list the handler's loop goes through.
List == IF stage = "recursiveVisit_if" THEN function.ifs ELSE EHCs

\* The type invariant: the loops' iterators stay inside their lists, every EHC
\* has one of the types of enum ehc_type, and only statements are collected.
EHCTypeOK ==
    /\ function \in Programs
    /\ stage \in ToSet(Stages)
    /\ at \in 1..Len(List) \cup {1}
    /\ EHCs \in Seq(EHCType)
    /\ total_fncs \in Nat /\ verified_fncs \in 0..total_fncs
    /\ entries \in Seq(Text)

Past(s) == Index(stage) > Index(s)

Decided(i) == EHCs[i].type \in {"VERIFIED", "DENIED"}
Has(i, some) == \E p \in DOMAIN EHCs[i].stmts : EHCs[i].stmts[p] \in some

\* Some doubtful block up to the i-th has one of these statements.
SomeUpTo(i, some) == \E j \in 1..i : Decided(j) /\ Has(j, some)

\* handle_maybe keeps a doubtful block exactly if it has no label and either a
\* doubtful block up to it calls a function of the database or none up to it
\* calls any function, the locks it takes included.
Verdict(i) ==
    EHCs[i].type = "VERIFIED" <=>
        /\ ~Has(i, LabelStmts)
        /\ SomeUpTo(i, Known) \/ ~SomeUpTo(i, Direct)

\* The blocks still hold what handle_maybe counted: the loops and the locks are
\* cut next.
Uncut == ~Past("handle_maybe") \/ (stage = "handle_loops" /\ at = 1)

\* When handle_maybe has gone through the EHCs, every doubtful block has its
\* verdict by the statements it holds then.  FiltersOnly says that it keeps it.
VerdictByPrefix ==
    Uncut /\ Past("handle_maybe") => \A i \in DOMAIN EHCs : Decided(i) => Verdict(i)

Undoing(i) == {s \in ToSet(EHCs[i].stmts) : EHCs[i].type # "DENIED" /\ s \notin InMacro}

\* The whole pipeline: an undo statement of an accepted EHC gets its bit, unless
\* a denied block before it has the same text, or find_pairs leaves it to the
\* outer undos although outer_ehcs_recurcive_visit does not take it.
LostOnlyBehindDenied ==
    stage = "done" => \A i \in DOMAIN EHCs : \A s \in Undoing(i) :
        \/ Contains(entries, s)
        \/ \E j \in 1..(i - 1) : EHCs[j].type = "DENIED" /\ Contains(EHCs[j].stmts, s)
        \/ s \in Paired \ Taken

Twice(list, s) == \E a, b \in DOMAIN list : a # b /\ list[a] = s /\ list[b] = s

\* find_ehc_new_stmts with handle_outer_ehcs_duplicates: however often a call
\* appears, in EHCs and outside, it gets one bit, so that no cleanup block undoes
\* it twice; only an EHC that repeats an inner undo repeats its bit.
NothingNumberedTwice ==
    \A s \in Text : Twice(entries, s) =>
        s \notin Taken /\ \E i \in DOMAIN EHCs : Twice(EHCs[i].stmts, s)

\* The i-th EHC lost no more than statements, or was judged.
Filtered(i) ==
    /\ EHCs'[i].stmts = Keep(EHCs[i].stmts, ToSet(EHCs'[i].stmts))
    /\ EHCs'[i].type # EHCs[i].type =>
          /\ EHCs[i].type \in {"MAYBE", "GOTO_MAYBE"}
          /\ EHCs'[i].type \in {"VERIFIED", "DENIED"}

\* The filters between find_ehc_stmts and find_ehc_new_stmts only remove
\* statements, and only handle_maybe changes a type, once, of a doubtful block.
FiltersOnly == [][Past("find_ehc_stmts") => \A i \in DOMAIN EHCs : Filtered(i)]_vars

(****************************************************************************)
(* The inductive invariant.                                                 *)
(****************************************************************************)
\* The loop of handler s is done with the i-th EHC.
Through(s, i) == Past(s) \/ (stage = s /\ i < at)

\* What is collected stands in the function, and a goto leads to a label.
Collected(i) ==
    /\ EHCs[i].type \in {"GOTO", "GOTO_MAYBE"} => EHCs[i].blk.jump # NoLabel
    /\ ToSet(EHCs[i].blk.body) \cup ToSet(EHCs[i].stmts) \subseteq Statements(function)

\* The first new statement is looked for when no statement is removed any more.
Fresh(i) ==
    Keep(EHCs[i].stmts,
         {s \in Text \ InMacro : \A j \in 1..(i - 1) : ~Contains(EHCs[j].stmts, s)})

News(i) ==
    IF Through("find_new", i) /\ EHCs[i].type # "DENIED"
    THEN [p \in DOMAIN EHCs[i].new |-> EHCs[i].new[p].stmt] = Fresh(i)
    ELSE EHCs[i].new = <<>>

\* An inner undo is given up for its pair, or because it is an outer undo too.
Left(i) ==
    \A p \in DOMAIN EHCs[i].new :
        LET n == EHCs[i].new[p]
        IN  /\ n.is_outer => n.stmt \in Paired \/ (Through("find_outer", i) /\ n.stmt \in Outers)
            /\ Through("find_outer", i) /\ n.stmt \in Outers => n.is_outer

\* handle_maybe's counters tell what the blocks it has judged have.
Judged(some) ==
    \E i \in DOMAIN EHCs : Through("handle_maybe", i) /\ Decided(i) /\ Has(i, some)

Counters ==
    ~Past("handle_maybe") =>
        /\ total_fncs > 0 <=> Judged(Direct)
        /\ verified_fncs > 0 <=> Judged(Known)

Verdicts(i) ==
    /\ Decided(i) => Through("handle_maybe", i) /\ (Uncut => Verdict(i))
    /\ Through("handle_maybe", i) => ~Doubtful(EHCs[i])

InnerUndos(i) == {EHCs[i].new[p].stmt : p \in {q \in DOMAIN EHCs[i].new : ~EHCs[i].new[q].is_outer}}

\* The undos that have their bit.
Numbered ==
    (UNION {InnerUndos(i) : i \in {j \in DOMAIN EHCs : Through("assign_id", j)}})
    \cup (IF stage = "done" THEN Outers ELSE {})

EInv ==
    /\ EHCTypeOK
    /\ \A i \in DOMAIN EHCs : Collected(i) /\ News(i) /\ Left(i) /\ Verdicts(i)
    /\ Counters
    /\ ToSet(entries) = Numbered
    /\ NothingNumberedTwice
===============================================================================
