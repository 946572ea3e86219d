----------------------------- MODULE PairDatabase -----------------------------
(****************************************************************************)
(* How the function pair database is written.                               *)
(*                                                                          *)
(* HecatonDatabase.cpp visits the functions of the unmodified kernel and    *)
(* writes, for the statements of their error handling blocks, which         *)
(* function undoes which.  (The lines were then sorted out by hand, and     *)
(* became the arrays ehc_fncs and pair_fncs that Pass 2 reads.)  It is an   *)
(* earlier version of the analysis of Pass 2: there are three types of      *)
(* blocks, no verdicts and no search in a database.                         *)
(*                                                                          *)
(* A function is [node], its syntax tree, in which the branches of an if    *)
(* need not be blocks.  The args of a return are what is returned, if that  *)
(* is a variable or negative; those of an assignment what is assigned.      *)
(****************************************************************************)
EXTENDS SyntaxTree

CONSTANTS
    IsErr,      \* IS_ERR and IS_ERR_OR_NULL
    Negative,   \* what a minus stands before, and
    Literals,   \* of that, the integer literals, macros that stand for one included
    Printk, Debug, Prints,   \* printk, pr_debug, and names that hold "print"
    EndsInRc,   \* variables whose names end in rc
    Sources     \* the functions to visit

ASSUME PairDatabaseAssumption ==
    /\ Literals \subseteq Negative /\ Negative \subseteq Token
    /\ \A f \in Sources : IsTree(f.node)

VARIABLES
    stage, at,
    heads,      \* EHC_heads, [type, headStmt]
    EHCs,       \* what is in the blocks: a sequence of statements each
    labelstm,   \* the labels that find_ehc_stmts has found in this function
    news,       \* the new statements, [ehc, stmt]
    file        \* the lines written, <<undo, pair>>, with the nodes they come from

vars == <<function, stage, at, heads, EHCs, labelstm, news, file>>

Init ==
    /\ function \in Sources
    /\ stage = "recursiveVisit_if" /\ at = 1
    /\ heads = <<>> /\ EHCs = <<>> /\ labelstm = {} /\ news = <<>> /\ file = <<>>

Advance(n, next) ==
    IF at < n THEN stage' = stage /\ at' = at + 1 ELSE stage' = next /\ at' = 1

Children(n) == InOrder({m \in Nodes \ {1} : Node(m).up = n})
Child(n, k) == Children(n)[k]

(****************************************************************************)
(* Finding error handling blocks.                                           *)
(****************************************************************************)
ReturnsNegative(n) == Node(n).kind = "return" /\ ToSet(Node(n).args) \cap Negative # {}

\* The statement itself is no child: if (x) return -1; is not found.
Visit_return(branch) == \E n \in ToSet(Children(branch)) : ReturnsNegative(n)

Visit_goto(branch) == \E n \in {branch} \cup ToSet(Children(branch)) : Node(n).kind = "goto"

ByCondition(n) == Node(n).kind = "less" \/ (IsCall(n) /\ Node(n).fn \in IsErr)

HeadsOf(branch) ==
    (IF Visit_return(branch) THEN <<[type |-> "RETURN", headStmt |-> branch]>> ELSE <<>>) \o
    (IF Visit_goto(branch) THEN <<[type |-> "GOTO", headStmt |-> branch]>> ELSE <<>>)

\* Condition, Then and Else are the children of an if.
recursiveVisit_if ==
    /\ stage = "recursiveVisit_if"
    /\ LET ifs == InOrder({n \in Nodes : Node(n).kind = "if"})
       IN  heads' = FlattenSeq([k \in DOMAIN ifs |->
               (IF ByCondition(Child(ifs[k], 1))
                THEN <<[type |-> "COND", headStmt |-> Child(ifs[k], 2)]>> ELSE <<>>) \o
               HeadsOf(Child(ifs[k], 2)) \o
               (IF Len(Children(ifs[k])) = 3 THEN HeadsOf(Child(ifs[k], 3)) ELSE <<>>)])
    /\ Advance(1, "ehc_head_clean_duplicates")
    /\ UNCHANGED <<function, EHCs, labelstm, news, file>>

\* Forgetting to look for the same branch.
KeptAlways(h) == h.headStmt # 0

Kept(h) ==
    h.type = "COND" => \A g \in ToSet(heads) : g.type # "COND" => g.headStmt # h.headStmt

ehc_head_clean_duplicates ==
    /\ stage = "ehc_head_clean_duplicates"
    /\ heads' = Keep(heads, {h \in ToSet(heads) : Kept(h)})
    /\ Advance(1, "find_ehc_stmts")
    /\ UNCHANGED <<function, EHCs, labelstm, news, file>>

(****************************************************************************)
(* The statements of a block.                                               *)
(****************************************************************************)
Unlabelled(n) == IF Node(n).kind = "label" THEN Child(n, 1) ELSE n

Gotos == {n \in Nodes : Node(n).kind = "goto"}

LabelOf(goto) ==
    {n \in Nodes : Node(n).kind = "label" /\ Node(n).fn = Node(goto).fn}

\* Stopping at no return.
ToTheEnd(label) == {n \in ToSet(Children(1)) : n >= label}

\* From a label of the body to a return that has no label.
Resolve(label) ==
    {n \in ToSet(Children(1)) : n >= label /\ label \in ToSet(Children(1)) /\
        \A m \in ToSet(Children(1)) : Node(m).kind = "return" /\ m < n => m < label}

\* For a goto without braces no label is looked for: labelstm is uninitialised,
\* which may be what it was for an earlier block.
find_ehc_stmts ==
    /\ stage = "find_ehc_stmts"
    /\ IF heads = <<>> THEN UNCHANGED <<EHCs, labelstm>>
       ELSE LET inside == Children(heads[at].headStmt)
                gotos  == Keep(inside, Gotos)
                labels == IF gotos = <<>> THEN {0} \cup labelstm ELSE LabelOf(Last(gotos))
                Behind(l) == LET path == InOrder(Resolve(l))
                             IN  [k \in DOMAIN path |-> Unlabelled(path[k])]
            IN  IF heads[at].type = "GOTO"
                THEN \E l \in labels :
                        /\ EHCs' = Append(EHCs, Keep(inside, Nodes \ Gotos) \o (IF l = 0 THEN <<>> ELSE Behind(l)))
                        /\ labelstm' = labelstm \cup ({l} \ {0})
                ELSE EHCs' = Append(EHCs, inside) /\ UNCHANGED labelstm
    /\ Advance(Len(heads), "delete_printks")
    /\ UNCHANGED <<function, heads, news, file>>

\* By the text, which is also that of what the statement contains.
Deleted(n) ==
    \/ IsCall(n) /\ Node(n).fn \in Printk
    \/ \E m \in Below(n) : \/ Node(m).fn \in Debug \/ Node(m).kind = "break"
                           \/ Node(m).kind = "assign" /\ Node(m).lhs \in EndsInRc

delete_printks ==
    /\ stage = "delete_printks"
    /\ EHCs' = [k \in DOMAIN EHCs |-> Keep(EHCs[k], {n \in ToSet(EHCs[k]) : ~Deleted(n)})]
    /\ Advance(1, "handle_return")
    /\ UNCHANGED <<function, heads, labelstm, news, file>>

\* rc = -5, if rc is returned; rc = -value stays.
ReturnValue(stmts, n) ==
    /\ Node(n).kind = "assign" /\ Node(n).fn = NoFn /\ ToSet(Node(n).args) \cap Literals # {}
    /\ \E r \in stmts : Node(r).kind = "return" /\ Node(r).args = <<Node(n).lhs>>

handle_return ==
    /\ stage = "handle_return"
    /\ EHCs' = [k \in DOMAIN EHCs |-> Keep(EHCs[k], {n \in ToSet(EHCs[k]) :
                    Node(n).kind # "return" /\ ~ReturnValue(ToSet(EHCs[k]), n)})]
    /\ Advance(1, "find_ehc_new_stmts")
    /\ UNCHANGED <<function, heads, labelstm, news, file>>

\* Forgetting to compare.
AlwaysNew(k, n) == k # 0 /\ n # 0

\* Comparing two strings into which nothing was printed.
IsNew(k, n) == \A j \in 1..(k - 1) : EHCs[j] = <<>>

find_ehc_new_stmts ==
    /\ stage = "find_ehc_new_stmts"
    /\ news' = FlattenSeq([k \in DOMAIN EHCs |->
           LET new == Keep(EHCs[k], {n \in ToSet(EHCs[k]) : IsNew(k, n)})
           IN  [j \in DOMAIN new |-> [ehc |-> k, stmt |-> new[j]]]])
    /\ Advance(1, "find_pairs")
    /\ UNCHANGED <<function, heads, EHCs, labelstm, file>>

(****************************************************************************)
(* The pairs.                                                               *)
(****************************************************************************)
\* The line on which a branch ends.
EndLine(branch) == Max(Below(branch))

After(k, n) == Line(n) > IF k > 2 THEN EndLine(heads[k - 2].headStmt) ELSE 1

\* After the branch before the last one, and before the branch, a braced Then
\* beginning on the line of its if.
Window(k, n) ==
    LET branch == heads[k].headStmt
    IN  /\ After(k, n)
        /\ IF Node(branch).kind = "block" /\ Child(Node(branch).up, 2) = branch
           THEN Line(n) < Line(branch) ELSE n < branch

\* Of the children, the first that is a call, or else what is in the last one.
NameBy(m, name) ==
    LET below == ToSet(Children(m))
        calls == {c \in below : IsCall(c)}
    IN  CASE calls # {} -> Node(Min(calls)).fn
          [] below # {} /\ calls = {} -> name[Max(below)]
          [] OTHER -> NoFn

recursive_fnc_name(n) ==
    LET name[m \in Nodes] == NameBy(m, name)
    IN  name[n]

find_fnc_name(n) ==
    IF n = 0 THEN NoFn ELSE IF IsCall(n) THEN Node(n).fn ELSE recursive_fnc_name(n)

\* All pairs are found before they are written.  What has no name and what
\* holds the word print is not written.
find_pairs ==
    /\ stage = "find_pairs"
    /\ file' = IF news = <<>> THEN file
               ELSE LET k       == news[at].ehc
                        u       == news[at].stmt
                        near    == {n \in Nodes : Window(k, n)}
                        pair    == PairOf(u, near)
                        skipped == \/ find_fnc_name(u) = NoFn
                                   \/ \E m \in Below(u) : Node(m).fn \in Prints
                    IN  IF skipped THEN file
                        ELSE Append(file, [ehc |-> k, stmt |-> u, node |-> pair,
                                           undo |-> find_fnc_name(u), pair |-> find_fnc_name(pair)])
    /\ Advance(Len(news), "done")
    /\ UNCHANGED <<function, heads, EHCs, labelstm, news>>

\* VisitFunctionDecl calls them in this order.
Next ==
    \/ recursiveVisit_if \/ ehc_head_clean_duplicates \/ find_ehc_stmts \/ delete_printks
    \/ handle_return \/ find_ehc_new_stmts \/ find_pairs

Spec == Init /\ [][Next]_vars
===============================================================================
