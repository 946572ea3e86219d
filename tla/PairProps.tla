------------------------------- MODULE PairProps -------------------------------
(****************************************************************************)
(* What the pair search of Pass 2 finds, said without scores and searches.  *)
(*                                                                          *)
(* The run time (Bowknot) relies on it: Instrument!StampAfter sets the bit  *)
(* of an undo behind the statements that acquire what the undo releases.    *)
(****************************************************************************)
EXTENDS PairSearch

Stages == {"recursiveVisit_function_pointer", "find_pairs", "outer_ehcs_recurcive_visit",
           "handle_outer_ehcs_duplicates", "find_outer_ehcs_pairs", "score_missing_statements",
           "assign_pairmask_id", "generate_cleanup_str", "done"}

\* The type invariant: undos and pairs are nodes, an inner undo has at most
\* one pair and that stands on a line before its block, and duplicates are
\* other undos of the same text.
PairTypeOK ==
    /\ stage \in Stages
    /\ at \in Nat \ {0}
    /\ Len(inner) <= Len(News)
    /\ \A k \in DOMAIN inner : inner[k].pair \in 0..(Line(function.ehcs[News[k].ehc].head) - 1)
    /\ \A k \in DOMAIN outers :
          /\ outers[k].stmt \in Nodes /\ outers[k].pairs \subseteq Nodes
          /\ \A n \in outers[k].duplicates : n > outers[k].stmt /\ Text(n) = Text(outers[k].stmt)

(****************************************************************************)
(* What a statement has to do with an undo.                                 *)
(****************************************************************************)
\* The node that the result of a call is assigned to, if any.
AssignedTo(n) ==
    LET up == Node(n).up
    IN  CASE Node(up).kind = "assign" -> {up}
          [] Node(up).kind = "cast" -> {Node(up).up}
          [] OTHER -> {}

Involves(u, n) ==
    ToSet(Node(u).args) \cap (ToSet(Node(n).args) \cup {Node(m).lhs : m \in AssignedTo(n)}) # {}

Named(u) == {n \in Nodes : IsCall(n) /\ <<Node(u).fn, Node(n).fn>> \in ToSet(Database)}

Acquisitions(u) == {n \in Named(u) : Involves(u, n)}

ReadsLike(n) == {m \in Nodes : /\ Node(m).kind \in {"call", "indirect"}
                               /\ Node(m).fn = Node(n).fn /\ Node(m).args = Node(n).args}

\* The function undoes itself by the database, as kfree, iput, brelse and 37 more.
SelfPaired(u) == <<Node(u).fn, Node(u).fn>> \in ToSet(Database)

(****************************************************************************)
(* Properties.                                                              *)
(****************************************************************************)
IsLockOf(u, n) == IsCall(n) /\ Node(n).fn \in LockOf[Node(u).fn] /\ SameLock(u, n)

ByVariable(u, pairs) ==
    LET from == IF Acquisitions(u) = {} THEN Named(u) ELSE Acquisitions(u)
    IN  IF Node(u).fn \in DOMAIN LockOf THEN pairs = {n \in Nodes : IsLockOf(u, n)}
        ELSE ~SelfPaired(u) /\ Node(u).fn \notin Kfrees =>
                IF from = {} THEN pairs = {} ELSE \E n \in from : pairs = ReadsLike(n)

\* outer_pair_database and outer_pair_recurcive_visit: an unlock has exactly the
\* locks of its lock for pairs.  A database undo that shares a variable with
\* calls to its paired functions has one of these for its pair, and what reads
\* like it, whatever other calls there are; the other ones are not marked.  If
\* none shares a variable, one of the others is taken all the same.  (Not so
\* kfree_skb and the like: for them it is the text around a call that counts.)
PairedByVariable ==
    stage = "done" => \A k \in DOMAIN outers : ByVariable(outers[k].stmt, outers[k].pairs)

\* The calls that may undo u of which the result goes through a cast to what u frees.
Allocations(u) ==
    {n \in Nodes : /\ IsCall(n) /\ (SelfPaired(u) \/ n \in Named(u))
                   /\ Node(Node(n).up).kind = "cast"
                   /\ \E m \in AssignedTo(n) : Node(m).lhs = Node(u).args[1]}

ByAllocation(u, pairs) ==
    Node(u).fn \in Kfrees \ DOMAIN LockOf /\ Allocations(u) # {} =>
        \E n \in Allocations(u) : pairs = ReadsLike(n)

\* score_unique_possible_database_pairs: kfree, for which any call is possible, or
\* a function named like it is paired with a call whose result goes through a
\* cast to what it frees, if there is one.
KfreeFindsAllocation ==
    stage = "done" => \A k \in DOMAIN outers : ByAllocation(outers[k].stmt, outers[k].pairs)

\* find_pairs and handle_outer_ehcs_duplicates leave an undo of a block to the
\* outer undos: if it is not in a macro it is among them, in its own right or as
\* a duplicate, and otherwise it keeps an entry of its own.
NothingLeftOut ==
    stage = "done" => \A k \in DOMAIN News :
        LET u == News[k].stmt
        IN  /\ inner[k].stmt = u
            /\ (\E j \in DOMAIN outers : u \in {outers[j].stmt} \cup outers[j].duplicates)
               <=> inner[k].is_outer

\* What lowers the score: calls by pointer to an acquisition; functions that
\* acquire, none of whose undo functions is called (unlocks do not count);
\* undos of a block that was doubtful; and the number of undos.
ByPointer == {n \in Nodes : Node(n).kind = "indirect" /\ Node(n).fn \in Keyworded}

Acquired ==
    LET undos == {u \in {outers[k].stmt : k \in DOMAIN outers} : found_with_database(u)}
    IN  {Node(n).fn : n \in UNION {Named(u) : u \in undos}}

Missing == (outer_smss_recurcive_visit) \ Acquired

Doubtful == {k \in InnerOnly : inner[k].verified}

Crowd == LET bits == Cardinality(InnerOnly) + Len(outers)
         IN  (IF bits > Some THEN 20 ELSE 0) + (IF bits > Many THEN 20 ELSE 0)

\* The score is the sum of its reasons, 30, 10 and 8 for one of each and 20 or 40
\* for many undos, although they share one init_flag.
ScoreAddsUp ==
    stage = "done" =>
        overall_score = 100 - 30 * Cardinality(ByPointer) - 10 * Cardinality(Missing)
                            - 8 * Cardinality(Doubtful) - Crowd

\* The comment on find_pairs (HecatonPass2.cpp:312) says that it is found which
\* statement is being undone by each statement.  Then an undo of what another
\* function returned, one that is paired with it, is not its own pair.
NotItsOwnPair ==
    stage = "done" => \A k \in DOMAIN outers :
        LET u == outers[k].stmt
        IN  (\E n \in Named(u) : /\ Node(n).fn # Node(u).fn
                                 /\ \E m \in AssignedTo(n) : Node(m).lhs = Node(u).args[1])
            => u \notin outers[k].pairs

-----------------------------------------------------------------------------
(* The inductive invariant. *)

EntryType == [stmt : Nodes, pair : Nodes \cup {0}, is_outer : BOOLEAN, verified : BOOLEAN]
OuterType == [stmt : Nodes, duplicates : SUBSET Nodes, pairs : SUBSET Nodes]

Undos == {n \in Nodes : IsOuter(n)}

\* Before and after the OuterEHCs are collected, made unique and paired.
Collected == {"handle_outer_ehcs_duplicates"}
Scoring == {"score_missing_statements", "assign_pairmask_id", "generate_cleanup_str", "done"}
Unique == {"find_outer_ehcs_pairs"} \cup Scoring

\* An entry for every undo of a block that the loop of find_pairs has passed.
\* What is_pair takes for an undo is an outer one.
InnerInv ==
    /\ inner \in Seq(EntryType)
    /\ Len(inner) = CASE stage = "recursiveVisit_function_pointer" -> 0
                      [] stage = "find_pairs" -> at - 1
                      [] OTHER -> Len(News)
    /\ stage = "find_pairs" => at = 1 \/ at <= Len(News)
    /\ \A k \in DOMAIN inner :
          /\ inner[k].stmt = News[k].stmt
          /\ inner[k].pair < Line(function.ehcs[News[k].ehc].head)
          /\ inner[k].is_outer => IsOuter(inner[k].stmt)
          /\ stage \in Unique /\ IsOuter(inner[k].stmt) => inner[k].is_outer

\* Of the undos that read the same, the first has the others for duplicates.
OutersInv ==
    /\ outers \in Seq(OuterType)
    /\ stage \notin Collected \cup Unique => outers = <<>>
    /\ stage \in Collected => {o.stmt : o \in ToSet(outers)} = Undos
    /\ \A o \in ToSet(outers) :
          /\ o.stmt \in Undos
          /\ \A n \in o.duplicates : n \in Undos /\ n > o.stmt /\ Text(n) = Text(o.stmt)
    /\ stage \in Unique =>
          \A n \in Undos : \E o \in ToSet(outers) : n \in {o.stmt} \cup o.duplicates

\* Every undo that the loop of find_outer_ehcs_pairs has passed is paired well.
PairsInv ==
    /\ stage = "find_outer_ehcs_pairs" /\ outers # <<>> => at <= Len(outers)
    /\ \A k \in DOMAIN outers :
          stage \in Scoring \/ (stage = "find_outer_ehcs_pairs" /\ k < at) =>
              ByVariable(outers[k].stmt, outers[k].pairs) /\ ByAllocation(outers[k].stmt, outers[k].pairs)

\* No part of the score is set twice, and none before it is final.
ScoreInv ==
    /\ score \in [Parts -> Int]
    /\ score["function_pointer"] =
          IF stage = "recursiveVisit_function_pointer" THEN 0 ELSE -(30 * Cardinality(ByPointer))
    /\ score["missing_ehc"] =
          IF stage \in Scoring \ {"score_missing_statements"} THEN -(10 * Cardinality(Missing)) ELSE 0
    /\ score["number_ehc"] = IF stage \in {"generate_cleanup_str", "done"} THEN -Crowd ELSE 0
    /\ score["maybe_blocks"] = IF stage = "done" THEN -(8 * Cardinality(Doubtful)) ELSE 0

\* All the properties of the pair search, step by step.
PInv ==
    /\ IsFunction(function) /\ stage \in Stages /\ at \in Nat \ {0}
    /\ InnerInv /\ OutersInv /\ PairsInv /\ ScoreInv
===============================================================================
