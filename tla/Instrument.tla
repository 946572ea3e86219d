------------------------------ MODULE Instrument ------------------------------
(****************************************************************************)
(* What Hecaton's second pass writes into one Linux function.               *)
(*                                                                          *)
(* A function is the flat, source-ordered list of its statements.  From it  *)
(* HecatonPass2.cpp derives the "pair mask": one bit per undo statement,    *)
(* set after the statement that is undone, cleared after the undo           *)
(* statement itself, and tested in the cleanup block at the end of the      *)
(* function.  This module is that derivation; Bowknot runs its result.      *)
(*                                                                          *)
(* A statement is [op, r, f, k, e]:                                         *)
(*   "acq"   acquires resource r           "rel"   releases resource r      *)
(*   "work"  touches no resource           "cond"  acquires r inside the    *)
(*   "if"    branches either way                   condition of an if       *)
(*   "iferr" branches if "acq" of r failed "goto"  jumps to statement k     *)
(*   "ret"   returns; k = 1 is an error return                              *)
(* f is the instrumented function a statement calls, if any.  For the three *)
(* branches k is the statement after the Then block.  e is the number of    *)
(* the error handling block (EHC) a statement first appears in, 0 if none.  *)
(****************************************************************************)
EXTENDS Integers, Sequences, FiniteSets

CONSTANTS
    Func,      \* the instrumented functions: the white list, functions.txt
    Res,       \* what can be undone, one element per undo statement's text
    Outer,     \* resources undone by an unlock or by a call in ehc_fncs
    Body,      \* the statements of every function
    Closing,   \* the functions whose names hold one of the 23 closing words
    Width,     \* bits in hecaton_pairmask, 64 in the code
    NoFunc, NoRes

Ops == {"acq", "rel", "work", "cond", "if", "iferr", "goto", "ret"}

Stmt == [op : Ops, r : Res \cup {NoRes}, f : Func \cup {NoFunc}, k : Nat, e : Nat]

ASSUME InstrumentAssumption ==
    /\ IsFiniteSet(Res)
    /\ NoRes \notin Res
    /\ NoFunc \notin Func
    /\ Outer \subseteq Res
    /\ Closing \subseteq Func
    /\ Width \in Nat
    /\ Body \in [Func -> Seq(Stmt)]
    /\ \A f \in Func : Body[f] # <<>>
    /\ \A f \in Func : \A p \in DOMAIN Body[f] :
          LET st == Body[f][p] IN
          /\ st.op \notin {"goto", "ret"} => p + 1 \in DOMAIN Body[f]
          /\ st.op \in {"if", "iferr", "cond", "goto"} => st.k \in DOMAIN Body[f]
          /\ st.op \in {"acq", "rel", "iferr", "cond"} => st.r \in Res

\* An undo statement of r: an outer one may stand anywhere, any other counts
\* only inside an EHC.
IsUndo(f, p, r) ==
    /\ Body[f][p].op = "rel" /\ Body[f][p].r = r
    /\ r \in Outer \/ Body[f][p].e > 0

\* The undos of f.  outer_ehcs_recurcive_visit takes the unlocks and database
\* calls anywhere in the body, one entry per statement text once
\* handle_outer_ehcs_duplicates is done; the others are the statements new in
\* an EHC.  A closing function is not analysed: it has no mask and no undo.
Undo == [f \in Func |->
            IF f \in Closing THEN {}
            ELSE {r \in Res : \E p \in DOMAIN Body[f] : IsUndo(f, p, r)}]

\* Where the statement that gives an undo its entry stands.
First == [f \in Func |-> [r \in Undo[f] |->
            CHOOSE p \in DOMAIN Body[f] :
                /\ IsUndo(f, p, r)
                /\ \A q \in DOMAIN Body[f] : IsUndo(f, q, r) => p <= q]]

\* The order in which assign_pairmask_id meets the undos: the inner ones, then
\* the outer ones, each in source order.
NumberedBefore(f, s, r) ==
    \/ s \notin Outer /\ r \in Outer
    \/ (s \in Outer <=> r \in Outer) /\ First[f][s] < First[f][r]

\* Numbering that starts over with the outer undos.
pairmask_id_restarted == [f \in Func |-> [r \in Undo[f] |->
    Cardinality({s \in Undo[f] : NumberedBefore(f, s, r) /\ (s \in Outer <=> r \in Outer)}) + 1]]

\* pairmask_id is 1 << (n - 1) for the n-th undo; here it is n.
pairmask_id == [f \in Func |-> [r \in Undo[f] |->
                  Cardinality({s \in Undo[f] : NumberedBefore(f, s, r)}) + 1]]

\* The three macros, on the set of bits that are 1.  Shifted past the width
\* of the mask an id is 0: setting and clearing do nothing, the test fails.
\* The first is preceded by a slip in it, the wrong bit.
set_bit_below(mask, id) == mask \cup {id - 1}
hecaton_set_bit(mask, id) == mask \cup ({id} \cap 1..Width)
hecaton_unset_bit(mask, id) == mask \ {id}
hecaton_check_bit(mask, id) == id \in mask

\* Stamps for the outer undos only, and stamps without the clears.
StampOuterOnly(f, p, mask) ==
    LET st == Body[f][p] IN
    CASE st.op = "acq" /\ st.r \in Undo[f] \cap Outer ->
            hecaton_set_bit(mask, pairmask_id[f][st.r])
      [] st.op = "rel" /\ st.r \in Undo[f] \cap Outer ->
            hecaton_unset_bit(mask, pairmask_id[f][st.r])
      [] OTHER -> mask
StampNoClear(f, p, mask) ==
    LET st == Body[f][p] IN
    IF st.op = "acq" /\ st.r \in Undo[f]
    THEN hecaton_set_bit(mask, pairmask_id[f][st.r])
    ELSE mask

\* insert_pairmask_stamps, the stamps that follow a plain statement: a set
\* after each statement an undo is paired with, a clear after each outer undo.
\* An inner undo is never followed by a clear.
StampAfter(f, p, mask) ==
    LET st == Body[f][p] IN
    CASE st.op = "acq" /\ st.r \in Undo[f] ->
            hecaton_set_bit(mask, pairmask_id[f][st.r])
      [] st.op = "rel" /\ st.r \in Undo[f] \cap Outer ->
            hecaton_unset_bit(mask, pairmask_id[f][st.r])
      [] OTHER -> mask

\* find_proper_loc_to_insert_pairmask_stamp: the stamp of a call that stands in
\* the condition of an if goes behind the opening brace of its Then block.
StampInThen(f, p, mask) ==
    LET st == Body[f][p] IN
    IF st.op = "cond" /\ st.r \in Undo[f]
    THEN hecaton_set_bit(mask, pairmask_id[f][st.r])
    ELSE mask

\* generate_cleanup_str prepends the text of each EHC, and then of each outer
\* undo, to what it has: the last outer undo of the source runs first, the
\* inner undos of the last EHC follow, and within an EHC source order is kept.
UndoneBefore(f, r, s) ==
    \/ r \in Outer /\ s \notin Outer
    \/ r \in Outer /\ s \in Outer /\ First[f][r] > First[f][s]
    \/ /\ r \notin Outer /\ s \notin Outer
       /\ LET er == Body[f][First[f][r]].e
              es == Body[f][First[f][s]].e
          IN  er > es \/ (er = es /\ First[f][r] < First[f][s])

IsNext(f, r, todo) == r \in todo /\ \A s \in todo \ {r} : UndoneBefore(f, r, s)
===============================================================================
