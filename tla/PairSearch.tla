------------------------------ MODULE PairSearch ------------------------------
(****************************************************************************)
(* How Hecaton's second pass finds what an undo statement undoes.           *)
(*                                                                          *)
(* For every undo, HecatonPass2.cpp searches the function for its pair, the *)
(* statement after which the undo's bit of the mask is set.  Undos of the   *)
(* error handling blocks (inner ones) get the most similar statement near   *)
(* their block; unlocks get the locks of the same lock; calls to undo       *)
(* functions of the database get the call to one of the paired functions    *)
(* that shares most parameters with them.  On the way the confidence score  *)
(* of the function is summed up.                                            *)
(*                                                                          *)
(* A function is [node, ehcs, macros]: its syntax tree; its error handling  *)
(* blocks, [head, news, verified], the if, the undos that are new in the    *)
(* block, and whether handle_maybe had to verify it; and the nodes that     *)
(* come out of a macro.                                                     *)
(****************************************************************************)
EXTENDS SyntaxTree

CONSTANTS
    Database,      \* the pairs <<ehc_fncs[i], pair_fncs[i]>>
    Kfrees,        \* names that hold "kfree", which score specially
    Keyworded,     \* names that check_for_sms_keyword takes for acquisitions
    Some, Many,    \* numbers of undos that lower the confidence, 5 and 8
    Functions      \* the functions to analyse

\* The tree of a function and its blocks, as find_ehc_new_stmts leaves them: what
\* comes out of a macro is not an undo of a block.
IsFunction(f) ==
    LET nodes == DOMAIN f.node
    IN  /\ IsTree(f.node)
        /\ \A n \in nodes : /\ Len(f.node[n].args) <= 2
                            /\ f.node[n].fn \in Kfrees => f.node[n].args # <<>>
        /\ f.ehcs \in Seq([head : nodes, news : Seq(nodes), verified : BOOLEAN])
        /\ \A i \in DOMAIN f.ehcs : \A n \in ToSet(f.ehcs[i].news) :
              n \notin f.macros /\ f.node[n].kind # "cast"

ASSUME PairSearchAssumption ==
    /\ Database \in Seq(Fn \X Fn)
    /\ \A f \in Frees : \E i \in DOMAIN Database : Database[i][1] = f
    /\ Some \in Nat /\ Many \in Nat /\ Some <= Many
    /\ \A f \in Functions : IsFunction(f)

VARIABLES
    stage, at,  \* the step of VisitFunctionDecl, and where its loop is
    inner,      \* the ehc_new_stmts, [stmt, pair, is_outer, verified]
    outers,     \* the OuterEHCs, [stmt, duplicates, pairs]
    score, init_flag    \* the ConfidenceScore

vars == <<function, stage, at, inner, outers, score, init_flag>>

(****************************************************************************)
(* The start, and the confidence score.                                     *)
(****************************************************************************)
Parts == {"number_ehc", "missing_ehc", "maybe_blocks", "function_pointer"}

\* The undos of all blocks, in their order.
News == FlattenSeq([i \in DOMAIN function.ehcs |->
            [k \in DOMAIN function.ehcs[i].news |->
                [ehc |-> i, stmt |-> function.ehcs[i].news[k]]]])

Init ==
    /\ function \in Functions
    /\ stage = "recursiveVisit_function_pointer" /\ at = 1
    /\ inner = <<>> /\ outers = <<>>
    /\ score = [p \in Parts |-> 0]
    /\ init_flag = "none"

\* The next of n elements, or the next step.
Advance(n, next) ==
    IF at < n THEN stage' = stage /\ at' = at + 1 ELSE stage' = next /\ at' = 1

\* Every reason starts the score again while another reason has the flag.
Penalise(part, times, by) ==
    /\ score' = [score EXCEPT ![part] =
                    IF times = 0 THEN @ ELSE IF init_flag = part THEN @ - times * by ELSE -(times * by)]
    /\ init_flag' = IF times = 0 THEN init_flag ELSE part

recursiveVisit_function_pointer ==
    /\ stage = "recursiveVisit_function_pointer"
    /\ Penalise("function_pointer",
          Cardinality({n \in Nodes : Node(n).kind = "indirect" /\ Node(n).fn \in Keyworded}), 30)
    /\ Advance(1, "find_pairs")
    /\ UNCHANGED <<function, inner, outers>>

(****************************************************************************)
(* The pairs of inner undos.                                                *)
(****************************************************************************)
\* The lines after the end of the block before the last one.
After(i, n) ==
    Line(n) > IF i > 2 THEN Max(Below(function.ehcs[i - 2].head)) ELSE 1

\* Of these, the lines before the block.
Window(i, n) == After(i, n) /\ Line(n) < Line(function.ehcs[i].head)

find_pairs ==
    /\ stage = "find_pairs"
    /\ IF News = <<>> THEN UNCHANGED inner
       ELSE LET i    == News[at].ehc
                u    == News[at].stmt
                near == {n \in Nodes : Window(i, n)}
            IN  inner' = Append(inner,
                    [stmt |-> u, pair |-> PairOf(u, near),
                     is_outer |-> recursive_pair_visit(u, near) # {},
                     verified |-> function.ehcs[i].verified])
    /\ Advance(Len(News), "outer_ehcs_recurcive_visit")
    /\ UNCHANGED <<function, outers, score, init_flag>>

(****************************************************************************)
(* The outer undos.                                                         *)
(****************************************************************************)
find_fnc(f) == {i \in DOMAIN Database : Database[i][1] = f}

IsOuter(n) ==
    /\ IsCall(n) /\ n \notin function.macros
    /\ Node(n).fn \in DOMAIN LockOf \/ find_fnc(Node(n).fn) # {}

found_with_database(u) == Node(u).fn \notin DOMAIN LockOf

outer_ehcs_recurcive_visit ==
    /\ stage = "outer_ehcs_recurcive_visit"
    /\ outers' = LET undos == InOrder({n \in Nodes : IsOuter(n)})
                 IN  [k \in DOMAIN undos |-> [stmt |-> undos[k], duplicates |-> {}, pairs |-> {}]]
    /\ Advance(1, "handle_outer_ehcs_duplicates")
    /\ UNCHANGED <<function, inner, score, init_flag>>

\* Forgetting the undos that read the same.
Forgotten(o) == {}

Duplicates(o) ==
    {n \in Nodes : n # o.stmt /\ Text(n) = Text(o.stmt)} \cap {outers[k].stmt : k \in DOMAIN outers}

handle_outer_ehcs_duplicates ==
    /\ stage = "handle_outer_ehcs_duplicates"
    /\ LET first == Keep(outers, {o \in ToSet(outers) : \A k \in DOMAIN outers :
                        Text(outers[k].stmt) = Text(o.stmt) => o.stmt <= outers[k].stmt})
       IN  outers' = [k \in DOMAIN first |-> [first[k] EXCEPT !.duplicates = Duplicates(first[k])]]
    /\ inner' = [k \in DOMAIN inner |-> [inner[k] EXCEPT
           !.is_outer = @ \/ \E j \in DOMAIN outers : Text(outers[j].stmt) = Text(inner[k].stmt)]]
    /\ Advance(1, "find_outer_ehcs_pairs")
    /\ UNCHANGED <<function, score, init_flag>>

(****************************************************************************)
(* The pairs of outer undos.                                                *)
(****************************************************************************)
\* A match is not searched for another one.
outer_pair_recurcive_visit(u) ==
    {n \in Nodes : is_pair(u, n) /\ \A m \in Above(n) \ {n} : ~is_pair(u, m)}

\* If a function of the database is its own pair, any call is possible.
is_possible_outer_pair(u, n) ==
    IsCall(n) /\ \E i \in find_fnc(Node(u).fn) : Database[i][2] \in {Node(u).fn, Node(n).fn}

\* What comes between the commas of the text of a statement: of its calls, the
\* first argument of the first and the last of the last come out whole.
Spilled(n) ==
    LET opens == {m \in Below(n) : Node(m).kind \in {"call", "indirect", "if"}}
        first == Min(opens)
        last  == Max(opens)
        Whole(m) == Node(m).kind # "if" /\ Len(Node(m).args) = 2
    IN  IF opens = {} THEN <<>>
        ELSE (IF Whole(first) THEN <<Node(first).args[1]>> ELSE <<>>) \o
             (IF Whole(last) /\ Node(Node(last).up).kind # "if" THEN <<Node(last).args[2]>> ELSE <<>>)

parse_param(n) ==
    IF IsExpression(n) THEN <<Node(n).lhs>> \o Node(n).args ELSE <<NoTok>> \o Spilled(n)

Grandparent(n) == IF n = 1 \/ Node(n).up = 1 THEN 0 ELSE Node(Node(n).up).up

\* Looking in the parent only, and looking above it as well, because of casts.
DirectAssignment(n) == {m \in {Node(n).up} : Node(m).kind = "assign"}

Assignment(n) == {m \in {Node(n).up, Grandparent(n)} \ {0} : Node(m).kind = "assign"}

\* The parameters of a call, those of a kfree being sought above any cast.
PlainParams(u, n) ==
    parse_param(IF Node(u).fn \in Kfrees /\ Grandparent(n) # 0 THEN Grandparent(n) ELSE n)

\* What is compared, the whole assignment if there is one.
Params(u, n) ==
    IF Assignment(n) = {} THEN PlainParams(u, n) ELSE parse_param(Max(Assignment(n)))

Shared(s, t) == {p \in (DOMAIN s) \X (DOMAIN t) : s[p[1]] = t[p[2]] /\ s[p[1]] # NoTok}

\* 10 for each parameter in common.
Common(u, n) == 10 * Cardinality(Shared(Params(u, n), parse_param(u)))

\* And 100 for what is assigned to the pointer that is freed.
Score(u, n) ==
    Common(u, n) + (IF Node(u).fn \in Kfrees /\ PlainParams(u, n)[1] = Node(u).args[1] THEN 100 ELSE 0)

\* The last of the best, even if nothing speaks for it.
find_most_possible_database_pair(best) == Max(best)

\* Every call that reads like the pair is one, whatever its result goes to.
add_all_duplicate_database_pairs(pair) ==
    {pair} \cup {End(n) : n \in {m \in Nodes : IsExpression(m) /\ Text(m) = Text(pair)}}

\* make_possible_database_pairs_unique removes nothing.
outer_pair_database(u) ==
    LET possible == {n \in Nodes : is_possible_outer_pair(u, n)}
        best     == {n \in possible : \A m \in possible : Score(u, m) <= Score(u, n)}
    IN  IF possible = {} THEN {}
        ELSE add_all_duplicate_database_pairs(find_most_possible_database_pair(best))

find_outer_ehcs_pairs ==
    /\ stage = "find_outer_ehcs_pairs"
    /\ IF outers = <<>> THEN UNCHANGED outers
       ELSE LET u == outers[at].stmt
            IN  outers' = [outers EXCEPT ![at].pairs =
                    IF found_with_database(u) THEN outer_pair_database(u)
                    ELSE outer_pair_recurcive_visit(u)]
    /\ Advance(Len(outers), "score_missing_statements")
    /\ UNCHANGED <<function, inner, score, init_flag>>

(****************************************************************************)
(* The rest of the confidence score.                                        *)
(****************************************************************************)
\* The state modifying functions that are called, one by one: the unlocks have
\* no database_indexes and count for nothing.
outer_smss_recurcive_visit ==
    {Node(n).fn : n \in {m \in Nodes : IsCall(m)}} \cap {Database[i][2] : i \in DOMAIN Database}

MissingUndo(f) ==
    \A k \in DOMAIN outers : LET u == outers[k].stmt IN
        found_with_database(u) => <<Node(u).fn, f>> \notin ToSet(Database)

score_missing_statements ==
    /\ stage = "score_missing_statements"
    /\ Penalise("missing_ehc",
                Cardinality({f \in outer_smss_recurcive_visit : MissingUndo(f)}), 10)
    /\ Advance(1, "assign_pairmask_id")
    /\ UNCHANGED <<function, inner, outers>>

InnerOnly == {k \in DOMAIN inner : ~inner[k].is_outer}

\* Testing for the larger number first.
SwappedPenalty(index) == IF index > Some THEN 20 ELSE 0

NumberPenalty(index) == IF index > Many THEN 40 ELSE IF index > Some THEN 20 ELSE 0

assign_pairmask_id ==
    /\ stage = "assign_pairmask_id"
    /\ LET index == Cardinality(InnerOnly) + Len(outers)
       IN  score' = [score EXCEPT !["number_ehc"] = -NumberPenalty(index)]
    /\ Advance(1, "generate_cleanup_str")
    /\ UNCHANGED <<function, inner, outers, init_flag>>

generate_cleanup_str ==
    /\ stage = "generate_cleanup_str"
    /\ Penalise("maybe_blocks", Cardinality({k \in InnerOnly : inner[k].verified}), 8)
    /\ Advance(1, "done")
    /\ UNCHANGED <<function, inner, outers>>

overall_score == 100 + score["number_ehc"] + score["missing_ehc"]
                     + score["function_pointer"] + score["maybe_blocks"]

\* VisitFunctionDecl calls them in this order.
Next ==
    \/ recursiveVisit_function_pointer \/ find_pairs \/ outer_ehcs_recurcive_visit
    \/ handle_outer_ehcs_duplicates \/ find_outer_ehcs_pairs \/ score_missing_statements
    \/ assign_pairmask_id \/ generate_cleanup_str

Spec == Init /\ [][Next]_vars
===============================================================================
