----------------------------- MODULE DatabaseProps -----------------------------
(****************************************************************************)
(* What is written to the function pair database.                           *)
(****************************************************************************)
EXTENDS PairDatabase

Stages == {"recursiveVisit_if", "ehc_head_clean_duplicates", "find_ehc_stmts", "delete_printks",
           "handle_return", "find_ehc_new_stmts", "find_pairs", "done"}

\* The type invariant: heads are branches of ifs, a branch is counted by its
\* condition or by how it ends but not by both, and lines name functions.
DatabaseTypeOK ==
    /\ stage \in Stages /\ at \in Nat \ {0}
    /\ \A k \in DOMAIN heads : Node(Node(heads[k].headStmt).up).kind = "if"
    /\ Len(EHCs) <= Len(heads)
    /\ \A i, j \in DOMAIN EHCs : i # j /\ heads[i].headStmt = heads[j].headStmt =>
          {heads[i].type, heads[j].type} = {"RETURN", "GOTO"}
    /\ \A k \in DOMAIN file : file[k].undo \in Fn /\ file[k].pair \in Fn \cup {NoFn}

Stops(n) == Node(Unlabelled(n)).kind \in {"return", "goto"}

\* What is executed of the statements s, in their order, up to one that stops.
UpToStop(s) == {n \in s : \A m \in s : m < n => ~Stops(m)}

\* What is executed from the start of a branch, following its goto.
Executed(branch) ==
    LET own   == UpToStop(ToSet(Children(branch)))
        gotos == {n \in own : Node(n).kind = "goto"}
        from  == UNION {LabelOf(n) : n \in gotos}
    IN  (own \ gotos) \cup
        UpToStop({n \in ToSet(Children(1)) : from # {} /\ n >= Min(from)})

Follows(head, stmts) ==
    LET branch == head.headStmt
        path   == Executed(branch)
    IN  /\ Node(branch).kind = "block"
        /\ Stops(Last(Children(branch)))
        /\ \A n \in path : Stops(n) => Node(n).kind # "label"
        => ToSet(stmts) = {Unlabelled(n) : n \in path}

\* find_ehc_stmts: the statements of a braced branch that ends with a goto or a
\* return are those that are executed, unless a return has a label of its own
\* (out: return rc;), behind which the search runs on.
PathFollowed ==
    stage = "delete_printks" => \A k \in DOMAIN heads : Follows(heads[k], EHCs[k])

\* find_ehc_stmts, find_ehc_new_stmts: no statement has two lines in the
\* database, however many blocks share the code behind a label and whether or not
\* a branch is counted twice.
NothingWrittenTwice ==
    \A j, k \in DOMAIN file : file[j].stmt = file[k].stmt => j = k

\* find_pairs: what a line pairs a statement with stands before the branch.
PairBeforeBlock ==
    \A k \in DOMAIN file : file[k].node # 0 => file[k].node < heads[file[k].ehc].headStmt

\* In each block it is to be found which statements appear for the first time
\* (HecatonPass2.cpp:309, of the same function).  Then each call of an undo
\* function that no earlier block contains has its line.
NotBefore(k, n) == \A j \in 1..(k - 1) : \A m \in ToSet(EHCs[j]) : Text(m) # Text(n)

EveryBlockCounts ==
    stage = "done" => \A k \in DOMAIN EHCs : \A n \in ToSet(EHCs[k]) :
        IsCall(n) /\ Node(n).fn \notin Prints /\ NotBefore(k, n) =>
            \E j \in DOMAIN file : file[j].stmt = n

-----------------------------------------------------------------------------
(* The inductive invariant. *)

Visiting == {"recursiveVisit_if", "ehc_head_clean_duplicates"}
Writing == {"find_pairs", "done"}

Branches == {n \in Nodes \ {1} : Node(Node(n).up).kind = "if"}
HeadType == [type : {"COND", "RETURN", "GOTO"}, headStmt : Branches]
NewType == [ehc : DOMAIN EHCs, stmt : Nodes]
LineType ==
    [ehc : DOMAIN EHCs, stmt : Nodes, node : Nodes \cup {0}, undo : Fn, pair : Fn \cup {NoFn}]

\* Whatever the ifs look like, the same is not pushed twice.
HeadsInv ==
    /\ heads \in Seq(HeadType) /\ IsInjective(heads)
    /\ stage \notin Visiting => \A h, g \in ToSet(heads) :
          h # g /\ h.headStmt = g.headStmt => h.type # "COND"

\* A block for every head that the loop of find_ehc_stmts has passed, in which
\* no statement stands twice.
BlocksInv ==
    /\ EHCs \in Seq(Seq(Nodes)) /\ Len(EHCs) <= Len(heads)
    /\ \A k \in DOMAIN EHCs : IsInjective(EHCs[k])
    /\ stage \in Visiting => EHCs = <<>>
    /\ stage = "find_ehc_stmts" /\ heads # <<>> => Len(EHCs) = at - 1 /\ at <= Len(heads)

\* No earlier block has anything left in it.
AllBeforeEmpty(k) == \A j \in 1..(k - 1) : EHCs[j] = <<>>

NewsInv ==
    /\ news \in Seq(NewType)
    /\ \A r \in ToSet(news) : AllBeforeEmpty(r.ehc)
    /\ \A i, j \in DOMAIN news : news[i].stmt = news[j].stmt => i = j
    /\ stage \notin Writing => news = <<>>
    /\ stage = "find_pairs" /\ news # <<>> => at <= Len(news)

FileInv ==
    /\ file \in Seq(LineType)
    /\ \A r \in ToSet(file) : r.node # 0 => r.node < heads[r.ehc].headStmt
    /\ \A i, j \in DOMAIN file : file[i].stmt = file[j].stmt => i = j
    /\ stage = "find_pairs" => \A r \in ToSet(file) :
          \E i \in DOMAIN news : i < at /\ news[i].stmt = r.stmt
    /\ stage \notin Writing => file = <<>>

\* DatabaseTypeOK, NothingWrittenTwice and PairBeforeBlock, and what they rest
\* on: the blocks do not change any more when lines are written.
DInv ==
    /\ IsTree(function.node) /\ stage \in Stages /\ at \in Nat \ {0}
    /\ HeadsInv /\ BlocksInv /\ NewsInv /\ FileInv

\* What goto and return are used for: what stands behind one in its block stands
\* behind a label there, labels are different statements of the body, and the
\* code at the labels does not jump.
Orderly(node) ==
    LET stmts  == DOMAIN node \ {1}
        labels == {n \in stmts : node[n].kind = "label"}
    IN  /\ \A n, m \in stmts :
              /\ node[n].kind \in {"goto", "return"} /\ node[node[n].up].kind = "block"
              /\ n < m /\ node[m].up = node[n].up
              => \E l \in labels : l \in (n + 1)..m /\ node[l].up = node[n].up
        /\ \A n \in labels : node[n].up = 1 /\ \A m \in labels : node[m].fn = node[n].fn => m = n
        /\ \A n \in stmts, m \in labels : node[n].kind = "goto" /\ node[n].up = 1 => n < m

\* A branch is counted by how it ends if and only if it ends so.
EndsInv ==
    \A h \in ToSet(heads) :
        /\ h.type = "RETURN" => Visit_return(h.headStmt)
        /\ Visit_goto(h.headStmt) <=> [type |-> "GOTO", headStmt |-> h.headStmt] \in ToSet(heads)

\* Every block that find_ehc_stmts has passed is what is executed.
PathInv ==
    /\ DInv /\ Orderly(function.node) /\ EndsInv
    /\ stage \in {"find_ehc_stmts", "delete_printks"} =>
          \A k \in DOMAIN EHCs : Follows(heads[k], EHCs[k])
    /\ stage = "delete_printks" => Len(EHCs) = Len(heads)
===============================================================================
