--------------------------------- MODULE Pass1 --------------------------------
(****************************************************************************)
(* How Hecaton's first pass prepares a function for instrumentation.        *)
(*                                                                          *)
(* HecatonPass1.cpp puts braces around single statements, moves the         *)
(* declarations of inner blocks to the start of the function, renames them  *)
(* where the name is taken, and separates the declarations of the function  *)
(* body from their initialisers, so that the statements that Pass 2 inserts *)
(* stay inside their blocks and its gotos skip no initialiser.  The         *)
(* renaming is a replacement in the text of a block, line by line.          *)
(*                                                                          *)
(* A line is [op, blk, vars, flags, mark].  blk is the path of the block it *)
(* stands in, <<>> for the body.  op is "decl", "set" or "use", or          *)
(* "garbage" for what does not parse.  vars are the variables the line      *)
(* names, each [name, ctx, init]: ctx says what stands before the name, a   *)
(* "word" (return x, int x), a "member" access (s.x) or neither ("plain");  *)
(* init is NoInit, a value, or the name that is read.  mark: the line holds *)
(* the word Hecaton.  A name is <<name, suffix>>: <<x, 2>> is x_hecaton_2.  *)
(*                                                                          *)
(* A function is [text, form, bare, globals]: its lines, the first being    *)
(* the head that declares the parameters, what every block is the body of,  *)
(* the blocks that have no braces, and the names that are declared outside. *)
(* As kernel code has it, the declarations of a block come before its       *)
(* statements.                                                              *)
(****************************************************************************)
EXTENDS Integers, Sequences, SequencesExt, FiniteSetsExt, Filter

CONSTANTS
    Name,        \* names as programmers write them
    Value,       \* what is stored in variables
    NoInit, Junk, Outside,   \* no initialiser; indeterminate; a global's value
    Functions    \* the functions to visit

\* "const": the text says const; "readonly": of the variable itself, not of
\* what it points to; "type": parts of the type stand behind the name, other
\* than the brackets of one array, or a string initialises an array.
Flags == {"param", "brace", "const", "readonly", "static", "comment", "type"}

\* "elseif": an else whose statement is an if; "macro": an if or a loop that
\* comes out of a macro.
Forms == {"if", "else", "elseif", "for", "while", "do", "macro"}

\* No programmer writes the suffixes and the word.
SourceVar == [name : Name \X {0}, ctx : {"word", "member", "plain"},
              init : Value \cup {NoInit} \cup (Name \X {0})]
SourceLine == [op : {"decl", "set", "use", "garbage"}, blk : Seq(Nat), vars : Seq(SourceVar),
               flags : SUBSET Flags, mark : {FALSE}]

ASSUME Pass1Assumption ==
    /\ {NoInit, Junk, Outside} \cap Value = {}
    /\ \A f \in Functions :
          /\ f.text \in Seq(SourceLine) \ {<<>>}
          /\ f.text[1].op = "decl" /\ f.text[1].flags = {"param"} /\ f.text[1].blk = <<>>
          /\ \A i \in DOMAIN f.text :
                /\ "param" \in f.text[i].flags => i = 1
                /\ f.text[i].op \in {"set", "use"} => Len(f.text[i].vars) = 1
                /\ "readonly" \in f.text[i].flags => "const" \in f.text[i].flags
                /\ "type" \in f.text[i].flags => f.text[i].vars # <<>>
          /\ \A b \in DOMAIN f.form : f.form[b] \in Forms
          /\ f.bare \subseteq DOMAIN f.form

VARIABLES
    function,            \* what is visited
    stage, at,           \* the step of VisitFunctionDecl, and where its loop is
    text,                \* text[i]: what has become of line i
    bare,                \* the blocks without braces
    fncDecls, varDecls,  \* the variables of the body, and of inner blocks
    var_suffix

vars == <<function, stage, at, text, bare, fncDecls, varDecls, var_suffix>>

Lines == DOMAIN function.text

Init ==
    /\ function \in Functions
    /\ stage = "recursiveVisit" /\ at = 1
    /\ text = [i \in Lines |-> <<function.text[i]>>]
    /\ bare = function.bare
    /\ fncDecls = <<>> /\ varDecls = <<>>
    /\ var_suffix = 1

\* The next of n elements, or the next step.
Advance(n, next) ==
    IF at < n THEN stage' = stage /\ at' = at + 1 ELSE stage' = next /\ at' = 1

Has(line, flag) == flag \in line.flags

Declares(line) == line.op = "decl" /\ ~Has(line, "param")

(****************************************************************************)
(* Braces.                                                                  *)
(****************************************************************************)
\* What recursiveVisit puts braces around.
Single == {"if", "else", "for", "while"}

\* From the outside to the inside.  verify_for looks for the for in the first
\* line of the text, and that is empty where a brace has just been put before.
Braced(b) ==
    LET braced[n \in 0..Len(b)] ==
            /\ n > 0 /\ SubSeq(b, 1, n) \in bare
            /\ function.form[SubSeq(b, 1, n)] \in Single
            /\ function.form[SubSeq(b, 1, n)] = "for" => ~braced[n - 1]
    IN  braced[Len(b)]

recursiveVisit ==
    /\ stage = "recursiveVisit"
    /\ bare' = {b \in bare : ~Braced(b)}
    /\ Advance(1, "fnc_declVisit")
    /\ UNCHANGED <<function, text, fncDecls, varDecls, var_suffix>>

(****************************************************************************)
(* Moving the declarations of inner blocks.                                 *)
(****************************************************************************)
fnc_declVisit ==
    /\ stage = "fnc_declVisit"
    /\ fncDecls' = FlattenSeq([i \in Lines |->
          LET line == function.text[i] IN
          IF Declares(line) /\ line.blk = <<>>
          THEN [k \in DOMAIN line.vars |-> [name |-> line.vars[k].name, line |-> i]]
          ELSE <<>>])
    /\ Advance(1, "var_declVisit")
    /\ UNCHANGED <<function, text, bare, varDecls, var_suffix>>

NamesOf(decls) == {decls[k].name : k \in DOMAIN decls}

\* Parameters are not looked at, nor are globals.
Taken(decls, name) == name \in NamesOf(fncDecls) \cup NamesOf(decls)

\* What the type of a variable says.
Kept == {"readonly", "type"}

\* Handing the same suffix out again.
MoveSameSuffix(line, acc, v) ==
    LET taken == Taken(acc.decls, v.name)
        new   == IF taken THEN <<v.name[1], acc.suffix>> ELSE v.name
    IN  [decls  |-> Append(acc.decls, [name |-> new, old |-> v.name, blk |-> line.blk,
                                       flags |-> line.flags \cap Kept]),
         suffix |-> acc.suffix,
         sets   |-> IF v.init = NoInit THEN acc.sets
                    ELSE Append(acc.sets,
                            [op |-> "set", blk |-> line.blk, flags |-> {}, mark |-> TRUE,
                             vars |-> <<[name |-> new, ctx |-> "plain", init |-> v.init]>>])]

\* One variable of a declaration: it moves under a name that is not taken, and
\* its initialiser stays behind as an assignment on a line marked by Hecaton.
Move(line, acc, v) ==
    LET taken == Taken(acc.decls, v.name)
        new   == IF taken THEN <<v.name[1], acc.suffix>> ELSE v.name
    IN  [decls  |-> Append(acc.decls, [name |-> new, old |-> v.name, blk |-> line.blk,
                                       flags |-> line.flags \cap Kept]),
         suffix |-> IF taken THEN acc.suffix + 1 ELSE acc.suffix,
         sets   |-> IF v.init = NoInit THEN acc.sets
                    ELSE Append(acc.sets,
                            [op |-> "set", blk |-> line.blk, flags |-> {}, mark |-> TRUE,
                             vars |-> <<[name |-> new, ctx |-> "plain", init |-> v.init]>>])]

\* What a comment becomes in which there is another comment.
Garbled(line) == IF Has(line, "comment") THEN <<[line EXCEPT !.op = "garbage"]>> ELSE <<>>

\* A declaration that holds a { is left where it is.
var_declVisit ==
    /\ stage = "var_declVisit"
    /\ LET line  == function.text[at]
           start == [decls |-> varDecls, suffix |-> var_suffix, sets |-> <<>>]
           moved[k \in 0..Len(line.vars)] ==
               IF k = 0 THEN start ELSE Move(line, moved[k - 1], line.vars[k])
           all   == moved[Len(line.vars)]
       IN  IF Declares(line) /\ line.blk # <<>> /\ ~Has(line, "brace")
           THEN /\ varDecls' = all.decls
                /\ var_suffix' = all.suffix
                /\ text' = [text EXCEPT ![at] = all.sets \o Garbled(line)]
           ELSE UNCHANGED <<varDecls, var_suffix, text>>
    /\ Advance(Len(function.text), "insert_var_decl")
    /\ UNCHANGED <<function, bare, fncDecls>>

\* A name is put behind its type, or before the brackets of an array.
Declaration(name, flags) ==
    [op |-> IF "type" \in flags THEN "garbage" ELSE "decl", blk |-> <<>>, flags |-> flags,
     mark |-> FALSE, vars |-> <<[name |-> name, ctx |-> "word", init |-> NoInit]>>]

insert_var_decl ==
    /\ stage = "insert_var_decl"
    /\ text' = [text EXCEPT ![1] = @ \o
          [k \in DOMAIN varDecls |-> Declaration(varDecls[k].name, varDecls[k].flags)]]
    /\ Advance(1, "replace_duplicate_vars")
    /\ UNCHANGED <<function, bare, fncDecls, varDecls, var_suffix>>

(****************************************************************************)
(* Renaming in the text.                                                    *)
(****************************************************************************)
\* Taking a member of that name for the variable, and taking what follows a
\* word as well.
valid_member(v) == v.ctx \in {"plain", "member"}

is_valid_variable(v) == v.ctx = "plain"

replace_variable(line, old, new) ==
    IF line.mark THEN line
    ELSE [line EXCEPT !.vars = [k \in DOMAIN line.vars |->
            [line.vars[k] EXCEPT
               !.name = IF @ = old /\ is_valid_variable(line.vars[k]) THEN new ELSE @,
               !.init = IF @ = old THEN new ELSE @]]]

\* In the block of the declaration, which is what find_parent_recursive finds.
InParent(decl, blk) == IsPrefix(decl.blk, blk)

Renaming(k) == varDecls[k].name # varDecls[k].old

\* The renamings before the k-th in blocks around its own.
Enclosing(k) == {l \in 1..(k - 1) : Renaming(l) /\ IsStrictPrefix(varDecls[l].blk, varDecls[k].blk)}

\* The lines whose text is replaced.  A block around this one that has grown by
\* longer names counts as grown at its start: what is taken for the text of this
\* one lies behind it then, still in that block.
Windows(k) ==
    LET Block(l) == {i \in Lines : InParent(varDecls[l], function.text[i].blk)}
    IN  IF Enclosing(k) = {} THEN {Block(k)}
        ELSE {Block(l) \cap (from..to) : l \in Enclosing(k), from \in Lines, to \in Lines}

replace_duplicate_vars ==
    /\ stage = "replace_duplicate_vars"
    /\ IF varDecls # <<>> /\ Renaming(at)
       THEN \E window \in Windows(at) :
               text' = [i \in Lines |->
                  IF i \in window
                  THEN [j \in DOMAIN text[i] |->
                          replace_variable(text[i][j], varDecls[at].old, varDecls[at].name)]
                  ELSE text[i]]
       ELSE UNCHANGED text
    /\ Advance(Len(varDecls), "seperate_decl_init")
    /\ UNCHANGED <<function, bare, fncDecls, varDecls, var_suffix>>

(****************************************************************************)
(* Separating declarations from initialisers.                               *)
(****************************************************************************)
Initialised(line) == \E k \in DOMAIN line.vars : line.vars[k].init # NoInit

\* Separating constants too.
SeparatesConst(line) ==
    Declares(line) /\ line.blk = <<>> /\ Initialised(line) /\ ~Has(line, "brace")

Separates(line) ==
    /\ Declares(line) /\ line.blk = <<>> /\ Initialised(line)
    /\ ~Has(line, "brace") /\ ~Has(line, "const")

\* declration_str and initilazaion_str of one declaration.
Declarations(line) ==
    [k \in DOMAIN line.vars |-> Declaration(line.vars[k].name, line.flags \cap Kept)]
Assignments(line) ==
    LET inits == Keep(line.vars, {v \in ToSet(line.vars) : v.init # NoInit})
    IN  [k \in DOMAIN inits |-> [op |-> "set", blk |-> <<>>, flags |-> {}, mark |-> FALSE,
                                 vars |-> <<[inits[k] EXCEPT !.ctx = "plain"]>>]]

\* All of them go behind the last declaration of the body.  The originals are
\* commented out, except those that hold a comment.
seperate_decl_init ==
    /\ stage = "seperate_decl_init"
    /\ LET separated == Keep(function.text, {line \in ToSet(function.text) : Separates(line)})
           declarations == FlattenSeq([k \in DOMAIN separated |-> Declarations(separated[k])])
           assignments == FlattenSeq([k \in DOMAIN separated |-> Assignments(separated[k])])
           Original(i) == IF Separates(function.text[i]) /\ ~Has(function.text[i], "comment")
                          THEN <<>> ELSE text[i]
       IN  IF fncDecls = <<>> THEN UNCHANGED text
           ELSE text' = [i \in Lines |->
                  IF i = fncDecls[Len(fncDecls)].line
                  THEN Original(i) \o declarations \o assignments
                  ELSE Original(i)]
    /\ Advance(1, "done")
    /\ UNCHANGED <<function, bare, fncDecls, varDecls, var_suffix>>

\* VisitFunctionDecl calls them in this order.
Next ==
    \/ recursiveVisit \/ fnc_declVisit \/ var_declVisit \/ insert_var_decl
    \/ replace_duplicate_vars \/ seperate_decl_init

Spec == Init /\ [][Next]_vars
===============================================================================
