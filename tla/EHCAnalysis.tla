------------------------------ MODULE EHCAnalysis ------------------------------
(****************************************************************************)
(* How Hecaton's second pass finds what a function undoes.                  *)
(*                                                                          *)
(* HecatonPass2.cpp looks at every if of the function, takes the blocks     *)
(* that look like error handling blocks (EHCs), collects their statements,  *)
(* filters them, asks the pair database about the doubtful blocks, keeps    *)
(* the statements that are new in an EHC as inner undos, adds the outer     *)
(* undos found anywhere in the body, and numbers both.  Each handler is a   *)
(* loop over the function's list of EHCs; here it is an action that is      *)
(* taken once for each of them, at being the index of the loop.             *)
(*                                                                          *)
(* Statements are compared by their text, so a statement is its text.       *)
(* A block is [body, jump]: its statements and the label of its goto.       *)
(* An if is [neg, then, els]; neg says that its condition is x < 0 or       *)
(* IS_ERR(x).  A function is [ifs, rest, tail]: its ifs in visiting order,  *)
(* its other statements, and per label the sequence of [text, labelled]     *)
(* that starts there.                                                       *)
(****************************************************************************)
EXTENDS Naturals, Sequences, SequencesExt, FiniteSetsExt, Filter

CONSTANTS
    Text,
    Kind,        \* Kind[s]: what isa<> and the name tables say of a statement
    Direct,      \* calls of a function by its name, whatever their text holds
    Known,       \* those whose function is in ehc_fncs
    ErrorSets,   \* ErrorSets[s]: the v = -INT of the variable that return s returns
    Paired,      \* statements for which is_pair knows an acquisition before them
    InMacro,     \* statements that come out of a macro
    Taken,       \* calls that outer_ehcs_recurcive_visit takes
    Label, NoLabel,
    ErrLabel,    \* the labels whose names hold "err"
    NoBlock,
    Programs     \* the functions to analyse

Kinds == {"plain", "noise", "stop", "loop", "lock", "ret", "errret", "label"}

OfKind(kinds) == {s \in Text : Kind[s] \in kinds}

ASSUME AnalysisAssumption ==
    /\ Kind \in [Text -> Kinds]
    /\ Direct \subseteq Text \ OfKind({"stop", "ret", "errret", "label"})
    /\ Known \subseteq Direct
    /\ ErrorSets \in [Text -> SUBSET Text]
    /\ Paired \subseteq Text /\ InMacro \subseteq Text
    /\ Taken \subseteq Text \ InMacro
    /\ ErrLabel \subseteq Label /\ NoLabel \notin Label

BlockType == [body : Seq(Text), jump : Label \cup {NoLabel}]

FunctionType ==
    [ifs : Seq([neg : BOOLEAN, then : BlockType, els : BlockType \cup {NoBlock}]),
     rest : Seq(Text),
     tail : [Label -> Seq([text : Text, labelled : BOOLEAN])]]

\* The statements of a program are finitely many, and every label is somewhere.
ASSUME ProgramsAssumption ==
    /\ Programs \subseteq FunctionType
    /\ IsFiniteSet(Text)

VARIABLES
    function,                     \* what is analysed
    stage, at,                    \* the handler, and the EHC it is at
    EHCs,                         \* each [type, blk, stmts, new]
    total_fncs, verified_fncs,    \* handle_maybe's counters
    entries                       \* the texts in the order of their pairmask_id

vars == <<function, stage, at, EHCs, total_fncs, verified_fncs, entries>>

Stages == <<"recursiveVisit_if", "find_ehc_stmts", "delete_blacklist", "handle_maybe",
            "handle_loops", "handle_critical", "handle_return", "find_new",
            "find_pairs", "find_outer", "assign_id", "done">>

Index(s) == CHOOSE p \in DOMAIN Stages : Stages[p] = s

NextStage == Stages[Index(stage) + 1]

\* A loop that takes one turn too many.
AdvanceTooFar(n) ==
    IF at <= n THEN stage' = stage /\ at' = at + 1 ELSE stage' = NextStage /\ at' = 1

\* The loop goes on to the next of n elements, or the next handler starts.
Advance(n) ==
    IF at < n THEN stage' = stage /\ at' = at + 1 ELSE stage' = NextStage /\ at' = 1

Init ==
    /\ function \in Programs
    /\ stage = "recursiveVisit_if" /\ at = 1
    /\ EHCs = <<>>
    /\ total_fncs = 0 /\ verified_fncs = 0
    /\ entries = <<>>

\* 1: the block returns a negative constant; 2: it leaves in another way.
Visit_return(body) ==
    LET Ends(kinds) == {p \in DOMAIN body : Kind[body[p]] \in kinds}
    IN  IF Ends({"errret", "stop"}) # {}
        THEN IF Kind[body[Min(Ends({"errret", "stop"}))]] = "errret" THEN 1 ELSE 2
        ELSE IF Ends({"ret"}) # {} THEN 2 ELSE 0

NewEHC(type, blk) == <<[type |-> type, blk |-> blk, stmts |-> <<>>, new |-> <<>>]>>

ByReturn(blk) ==
    CASE Visit_return(blk.body) = 1 -> NewEHC("RETURN", blk)
      [] Visit_return(blk.body) = 2 -> NewEHC("MAYBE", blk)
      [] OTHER -> <<>>

ByGoto(blk, err) ==
    IF blk.jump = NoLabel THEN <<>>
    ELSE NewEHC(IF err THEN "GOTO" ELSE "GOTO_MAYBE", blk)

ThenHeads(s) ==
    IF s.neg
    THEN NewEHC(IF s.then.jump = NoLabel THEN "COND" ELSE "GOTO", s.then)
    ELSE ByReturn(s.then) \o ByGoto(s.then, s.then.jump \in ErrLabel)

\* The Else block's goto is judged by gotostring, which still holds what the
\* Then block's goto wrote there, or what the buffer held before.
ElseHeads(s, stale) ==
    IF s.els = NoBlock THEN <<>>
    ELSE ByReturn(s.els)
         \o ByGoto(s.els, IF s.then.jump = NoLabel THEN stale
                                ELSE s.then.jump \in ErrLabel)

recursiveVisit_if ==
    /\ stage = "recursiveVisit_if"
    /\ IF function.ifs = <<>> THEN UNCHANGED EHCs
       ELSE \E stale \in BOOLEAN :
              EHCs' = EHCs \o ThenHeads(function.ifs[at]) \o ElseHeads(function.ifs[at], stale)
    /\ Advance(Len(function.ifs))
    /\ UNCHANGED <<function, total_fncs, verified_fncs, entries>>

\* Each handler leaves alone what it does not speak of; with no EHC its loop
\* does nothing.
Handler(s, Becomes(_)) ==
    /\ stage = s
    /\ EHCs' = IF EHCs = <<>> THEN EHCs ELSE [EHCs EXCEPT ![at] = Becomes(EHCs[at])]
    /\ Advance(Len(EHCs))
    /\ UNCHANGED function

\* Resolving a goto: from the label on, as far as the first return that does
\* not itself stand behind a label.
Resolve(tail) ==
    LET Stops == {p \in DOMAIN tail :
                     Kind[tail[p].text] \in {"ret", "errret"} /\ ~tail[p].labelled}
        last == IF Stops = {} THEN Len(tail) ELSE Min(Stops)
    IN  [p \in 1..last |-> tail[p].text]

find_ehc_stmts ==
    /\ Handler("find_ehc_stmts", LAMBDA ehc :
          [ehc EXCEPT !.stmts =
              IF ehc.type \in {"GOTO", "GOTO_MAYBE"}
              THEN ehc.blk.body \o Resolve(function.tail[ehc.blk.jump])
              ELSE ehc.blk.body])
    /\ UNCHANGED <<total_fncs, verified_fncs, entries>>

Without(ehc, gone) == [ehc EXCEPT !.stmts = Keep(ehc.stmts, Text \ gone)]

delete_blacklist_functions ==
    /\ Handler("delete_blacklist", LAMBDA ehc : Without(ehc, OfKind({"noise", "stop"})))
    /\ UNCHANGED <<total_fncs, verified_fncs, entries>>

handle_loops ==
    /\ Handler("handle_loops", LAMBDA ehc : Without(ehc, OfKind({"loop"})))
    /\ UNCHANGED <<total_fncs, verified_fncs, entries>>

handle_critical_sections ==
    /\ Handler("handle_critical", LAMBDA ehc : Without(ehc, OfKind({"lock"})))
    /\ UNCHANGED <<total_fncs, verified_fncs, entries>>

\* The returns, and with a return of v what sets v to a negative constant.
Returning(ehc) ==
    OfKind({"ret", "errret"})
    \cup UNION {ErrorSets[s] : s \in ToSet(ehc.stmts) \cap OfKind({"ret"})}

handle_return ==
    /\ Handler("handle_return", LAMBDA ehc : Without(ehc, Returning(ehc)))
    /\ UNCHANGED <<total_fncs, verified_fncs, entries>>

HowMany(stmts, some) == Len(Keep(stmts, some))

LabelStmts == OfKind({"label"})

\* Asking the database about a sure EHC as well.
DoubtfulOrReturn(ehc) == ehc.type \in {"MAYBE", "GOTO_MAYBE", "RETURN"}

Doubtful(ehc) == ehc.type \in {"MAYBE", "GOTO_MAYBE"}

\* Setting the counters to 0 for every EHC.
CountAfresh(sofar, ehc, some) == HowMany(ehc.stmts, some)

Counted(sofar, ehc, some) == sofar + HowMany(ehc.stmts, some)

\* The database decides on the doubtful blocks.  Every direct call counts, the
\* locks and loops that the next two handlers remove as well.  The counters are
\* set to 0 before the loop over the EHCs, not in it.
handle_maybe ==
    LET doubtful == EHCs # <<>> /\ Doubtful(EHCs[at])
        total    == Counted(total_fncs, EHCs[at], Direct)
        verified == Counted(verified_fncs, EHCs[at], Known)
    IN  /\ Handler("handle_maybe", LAMBDA ehc :
              IF ~Doubtful(ehc) THEN ehc
              ELSE [ehc EXCEPT !.type =
                      IF HowMany(ehc.stmts, LabelStmts) > 0 THEN "DENIED"
                      ELSE IF verified >= 1 \/ total = 0 THEN "VERIFIED"
                      ELSE "DENIED"])
        /\ total_fncs' = IF doubtful THEN total ELSE total_fncs
        /\ verified_fncs' = IF doubtful THEN verified ELSE verified_fncs
        /\ UNCHANGED entries

\* Comparing with the EHCs after this one as well.
NowhereElse(s) == \A j \in DOMAIN EHCs \ {at} : ~Contains(EHCs[j].stmts, s)

\* No earlier EHC has the statement: EHC does not mean one that was verified.
FirstHere(s) == \A j \in 1..(at - 1) : ~Contains(EHCs[j].stmts, s)

find_ehc_new_stmts ==
    /\ Handler("find_new", LAMBDA ehc :
          IF ehc.type = "DENIED" THEN ehc
          ELSE LET fresh == Keep(ehc.stmts, {s \in Text \ InMacro : FirstHere(s)})
               IN  [ehc EXCEPT !.new = [p \in DOMAIN fresh |->
                                           [stmt |-> fresh[p], is_outer |-> FALSE]]])
    /\ UNCHANGED <<total_fncs, verified_fncs, entries>>

NewIn(ehc) == {ehc.new[p].stmt : p \in DOMAIN ehc.new}

\* recursive_pair_visit may meet the pair and still return 0, when it does not
\* stand in the last statement of its block.
find_pairs ==
    /\ stage = "find_pairs"
    /\ \E found \in SUBSET {s \in Paired : EHCs # <<>> /\ s \in NewIn(EHCs[at])} :
          Handler("find_pairs", LAMBDA ehc :
             [ehc EXCEPT !.new = [p \in DOMAIN ehc.new |->
                 [ehc.new[p] EXCEPT !.is_outer = ehc.new[p].stmt \in found]]])
    /\ UNCHANGED <<total_fncs, verified_fncs, entries>>

Statements(f) ==
    ToSet(f.rest)
    \cup (UNION {ToSet(f.ifs[i].then.body) : i \in DOMAIN f.ifs})
    \cup (UNION {ToSet(f.ifs[i].els.body) : i \in {j \in DOMAIN f.ifs : f.ifs[j].els # NoBlock}})
    \cup (UNION {{f.tail[l][p].text : p \in DOMAIN f.tail[l]} : l \in Label})

\* The outer undos, one for each text: handle_outer_ehcs_duplicates.
Outers == Statements(function) \cap Taken

\* Keeping the inner one.
KeptInner(n) == n.is_outer

LeftToOuter(n) == n.is_outer \/ n.stmt \in Outers

\* handle_outer_ehcs_duplicates: an inner undo that is an outer one too is left
\* to the outer one.
find_outer_ehcs ==
    /\ Handler("find_outer", LAMBDA ehc :
          [ehc EXCEPT !.new = [p \in DOMAIN ehc.new |->
              [ehc.new[p] EXCEPT !.is_outer = LeftToOuter(ehc.new[p])]]])
    /\ UNCHANGED <<total_fncs, verified_fncs, entries>>

Inner(ehc) ==
    LET own == Keep(ehc.new, [stmt : Text, is_outer : {FALSE}])
    IN  [p \in DOMAIN own |-> own[p].stmt]

\* The inner undos are numbered EHC by EHC, the outer ones, whose order among
\* themselves is left open here, after the last EHC.
assign_pairmask_id ==
    /\ Handler("assign_id", LAMBDA ehc : ehc)
    /\ LET own == IF EHCs = <<>> THEN <<>> ELSE Inner(EHCs[at])
           last == at >= Len(EHCs)
       IN  entries' = entries \o own \o (IF last THEN SetToSeq(Outers) ELSE <<>>)
    /\ UNCHANGED <<total_fncs, verified_fncs>>

Next ==
    \/ recursiveVisit_if \/ find_ehc_stmts \/ delete_blacklist_functions \/ handle_maybe
    \/ handle_loops \/ handle_critical_sections \/ handle_return \/ find_ehc_new_stmts
    \/ find_pairs \/ find_outer_ehcs \/ assign_pairmask_id

Spec == Init /\ [][Next]_vars
===============================================================================
