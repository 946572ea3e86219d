----------------------------- MODULE Pass1Meaning -----------------------------
(****************************************************************************)
(* What a text means, and what Pass 1 must keep of it.                      *)
(*                                                                          *)
(* The comment in VisitFunctionDecl (HecatonPass1.cpp:136) says what is     *)
(* done: the declarations move, and the changed name is used in the first   *)
(* scope of declaration.  Unsaid is that the function must still compile    *)
(* and compute the same.  Both are false of some functions; the properties  *)
(* say of which.                                                            *)
(****************************************************************************)
EXTENDS Pass1

\* The lines as the compiler sees them.
Rewritten == FlattenSeq(text)

NamesIn(line) == {line.vars[k].name : k \in DOMAIN line.vars}

ReadIn(line) == {line.vars[k].init : k \in DOMAIN line.vars} \ (Value \cup {NoInit})

\* The names that the compiler looks up, which are not those of members.
Mentioned(line) ==
    ReadIn(line) \cup {v.name : v \in {w \in ToSet(line.vars) : line.op \in {"set", "use"}
                                                               /\ w.ctx # "member"}}

\* The declaration that the name n stands for on line i of t, 0 if there is none
\* in the function.  The last one in scope is the innermost one.
Resolve(t, i, n) ==
    Max({0} \cup {j \in 1..(i - 1) : /\ t[j].op = "decl" /\ n \in NamesIn(t[j])
                                     /\ IsPrefix(t[j].blk, t[i].blk)})

(****************************************************************************)
(* Running a text: the state is the values of the variables, one for each   *)
(* declaration and name, and what was observed so far.  taken are the       *)
(* blocks that are entered.                                                 *)
(****************************************************************************)
Reached(blk, taken) == \A p \in Prefixes(blk) : p = <<>> \/ p \in taken

\* Where a statement that is inserted after one of blk ends up.
StampBlk(blk, unbraced) ==
    LET braced == Prefixes(blk) \ unbraced
    IN  CHOOSE p \in braced : \A q \in braced : Len(q) <= Len(p)

Read(t, env, i, e) ==
    IF e = NoInit THEN Junk
    ELSE IF e \in Value THEN e
    ELSE env[<<Resolve(t, i, e), e>>]

\* Line i of t, with what Pass 2 inserts after it.
Execute(t, unbraced, taken, acc, i) ==
    LET line == t[i]
        Assign(j) == [p \in DOMAIN acc.env |->
            IF p[1] = j /\ \E k \in DOMAIN line.vars : line.vars[k].name = p[2]
            THEN LET k == CHOOSE k \in DOMAIN line.vars : line.vars[k].name = p[2]
                 IN  Read(t, acc.env, i, line.vars[k].init)
            ELSE acc.env[p]]
        v == line.vars[1]
        Seen == <<"use", IF v.ctx = "member" THEN v.name ELSE Read(t, acc.env, i, v.name)>>
    IN  CASE line.op = "decl" /\ Reached(line.blk, taken) /\ ~Has(line, "static") ->
                [acc EXCEPT !.env = Assign(i)]
          [] line.op = "set" /\ Reached(line.blk, taken) ->
                [acc EXCEPT !.env = Assign(Resolve(t, i, v.name))]
          [] line.op = "use" ->
                [acc EXCEPT !.out = @ \o (IF Reached(line.blk, taken) THEN <<Seen>> ELSE <<>>)
                                      \o (IF Reached(StampBlk(line.blk, unbraced), taken)
                                          THEN <<<<"stamp", NoInit>>>> ELSE <<>>)]
          [] OTHER -> acc

\* Before the first call only the static variables have values.
Loaded(t) ==
    [p \in (0..Len(t)) \X UNION {NamesIn(t[i]) \cup ReadIn(t[i]) : i \in DOMAIN t} |->
        IF p[1] = 0 THEN Outside
        ELSE IF Has(t[p[1]], "static") /\ p[2] \in NamesIn(t[p[1]])
             THEN (CHOOSE v \in ToSet(t[p[1]].vars) : v.name = p[2]).init
             ELSE Junk]

\* What two calls let the world see.
Run(t, unbraced, taken) ==
    LET Call(acc) == FoldLeftDomain(LAMBDA a, i : Execute(t, unbraced, taken, a, i), acc, t)
    IN  Call(Call([env |-> Loaded(t), out |-> <<>>])).out

\* A function compiles: its lines parse, no block declares a name twice, nothing
\* is assigned to a constant, and every name is declared before it is used.
Compiles(t, globals) ==
    /\ \A i \in DOMAIN t : t[i].op # "garbage"
    /\ \A i \in DOMAIN t : t[i].op = "decl" =>
          \A k, l \in DOMAIN t[i].vars : t[i].vars[k].name = t[i].vars[l].name => k = l
    /\ \A i, j \in DOMAIN t : i < j /\ t[i].op = "decl" /\ t[j].op = "decl" /\ t[i].blk = t[j].blk
                                => NamesIn(t[i]) \cap NamesIn(t[j]) = {}
    /\ \A i \in DOMAIN t : t[i].op = "set" =>
          LET d == Resolve(t, i, t[i].vars[1].name) IN d > 0 => ~Has(t[d], "readonly")
    /\ \A i \in DOMAIN t : \A n \in Mentioned(t[i]) : Resolve(t, i, n) > 0 \/ n \in globals

(****************************************************************************)
(* Properties.                                                              *)
(****************************************************************************)
Original == function.text

Stages == {"recursiveVisit", "fnc_declVisit", "var_declVisit", "insert_var_decl",
           "replace_duplicate_vars", "seperate_decl_init", "done"}

Names == Name \X Nat

\* The type invariant: every line is rewritten on its own and the lists of
\* declarations hold names, those of inner blocks with the suffixes handed out.
Pass1TypeOK ==
    /\ stage \in Stages
    /\ at \in 1..Max({1, Len(function.text), Len(varDecls)})
    /\ DOMAIN text = Lines
    /\ bare \subseteq function.bare
    /\ NamesOf(fncDecls) \subseteq Names
    /\ \A k \in DOMAIN varDecls : varDecls[k].name \in Name \X (0..(var_suffix - 1))

Moves(line) == Declares(line) /\ line.blk # <<>> /\ ~Has(line, "brace")

\* What is assigned is named without a word before it, the declarations of the
\* body come first, none reads a variable that it declares itself, inner
\* constants have an initialiser and no braces, and do not shadow an inner
\* declaration with braces; and no renamed block is within another.
Usual ==
    /\ \A i \in Lines :
          /\ Original[i].op = "set" => Original[i].vars[1].ctx = "plain"
          /\ Declares(Original[i]) =>
                /\ NamesIn(Original[i]) \cap ReadIn(Original[i]) = {}
                /\ Original[i].blk = <<>> => \A j \in 2..(i - 1) :
                       Declares(Original[j]) /\ Original[j].blk = <<>>
          /\ Declares(Original[i]) /\ Original[i].blk # <<>> /\ Has(Original[i], "readonly") =>
                /\ Moves(Original[i]) /\ Initialised(Original[i])
                /\ \A j \in Lines :
                      Declares(Original[j]) /\ Has(Original[j], "brace")
                      /\ Original[j].blk # <<>> /\ IsPrefix(Original[j].blk, Original[i].blk) =>
                          NamesIn(Original[i]) \cap NamesIn(Original[j]) = {}
    /\ \A k \in DOMAIN varDecls : Renaming(k) => Enclosing(k) = {}

\* What a declaration of the body that stays where it is reads of those that are
\* separated from their initialisers, and come to stand behind it.
ReadLate(i) ==
    {n \in ReadIn(Original[i]) :
        /\ Declares(Original[i]) /\ Original[i].blk = <<>> /\ ~Separates(Original[i])
        /\ \E j \in 1..(i - 1) : Separates(Original[j]) /\ n \in NamesIn(Original[j])}

\* What keeps the result compiling: no inner variable is named like a parameter,
\* no initialised inner one is const, no declaration that is moved or separated
\* holds a comment or parts of a type behind the name, and no const or braced
\* one reads a variable that comes to be declared behind it.
Harmless ==
    \A i \in Lines :
        /\ Moves(Original[i]) =>
              /\ NamesIn(Original[i]) \cap NamesIn(Original[1]) = {}
              /\ ~(Has(Original[i], "readonly") /\ Initialised(Original[i]))
        /\ Moves(Original[i]) \/ Separates(Original[i]) =>
              ~Has(Original[i], "comment") /\ ~Has(Original[i], "type")
        /\ ReadLate(i) \subseteq function.globals

\* var_declVisit, insert_var_decl and seperate_decl_init: of the usual functions
\* that compile, exactly the harmless ones still do after Pass 1.
CompilesUnless ==
    stage = "done" /\ Usual /\ Compiles(Original, function.globals) =>
        (Compiles(Rewritten, function.globals) <=> Harmless)

(****************************************************************************)
(* The inductive invariant of Pass 1.                                       *)
(****************************************************************************)
VarType == [name : Names, ctx : {"word", "member", "plain"},
            init : Value \cup {NoInit} \cup Names]
LineType == [op : {"decl", "set", "use", "garbage"}, blk : Seq(Nat), vars : Seq(VarType),
             flags : SUBSET Flags, mark : BOOLEAN]
DeclType == [name : Names, old : Name \X {0}, blk : Seq(Nat), flags : SUBSET Kept]

\* What line i moves.
OfLine(d, i) ==
    /\ d.old \in NamesIn(Original[i]) /\ d.blk = Original[i].blk
    /\ d.flags = Original[i].flags \cap Kept

\* Line i has been moved.
Moved(i) ==
    /\ Moves(Original[i]) /\ stage \notin {"recursiveVisit", "fnc_declVisit"}
    /\ stage = "var_declVisit" => i < at

\* The names in the list are free, and every suffix is handed out once.
Apart(decls, suffix) ==
    /\ \A k \in DOMAIN decls :
          /\ \/ decls[k].name = decls[k].old
             \/ \E s \in 1..(suffix - 1) : decls[k].name = <<decls[k].old[1], s>>
          /\ decls[k].name \notin NamesOf(fncDecls)
          /\ decls[k].old \in NamesOf(fncDecls) \cup NamesOf(decls)
    /\ \A k, l \in DOMAIN decls : decls[k].name = decls[l].name => k = l

\* The assignment that stays behind of a variable in decls that line i moves.
Assigns(line, i, decls) ==
    /\ line.op = "set" /\ line.mark /\ line.blk = Original[i].blk /\ Len(line.vars) = 1
    /\ ReadIn(line) \subseteq ReadIn(Original[i])
    /\ \E k \in DOMAIN decls : OfLine(decls[k], i) /\ line.vars[1].name = decls[k].name

\* Lines of block blk can be among those that the k-th renaming replaces.
Reaches(k, blk) ==
    InParent(varDecls[k], blk) \/ \E l \in Enclosing(k) : InParent(varDecls[l], blk)

Renames(k, old, blk) == Renaming(k) /\ varDecls[k].old = old /\ Reaches(k, blk)

\* What the first n renamings can make of the name old in lines of block blk.
Renewals(n, old, blk) ==
    {varDecls[k].name : k \in {l \in DOMAIN varDecls : l <= n /\ Renames(l, old, blk)}}

\* The first n renamings have been made in a line, which was line i.
Version(line, i, n) ==
    /\ line.op = Original[i].op /\ line.blk = Original[i].blk
    /\ line.flags = Original[i].flags /\ ~line.mark
    /\ DOMAIN line.vars = DOMAIN Original[i].vars
    /\ \A q \in DOMAIN line.vars :
          LET was == Original[i].vars[q]
          IN  /\ line.vars[q].ctx = was.ctx
              /\ \/ line.vars[q].name = was.name
                 \/ line.vars[q].name \in Renewals(n, was.name, line.blk) /\ was.ctx = "plain"
              /\ line.vars[q].init \in {was.init} \cup Renewals(n, was.init, line.blk)
              /\ was.ctx = "plain" =>
                    \A k \in DOMAIN varDecls :
                       k <= n /\ Renames(k, was.name, line.blk) /\ Enclosing(k) = {} =>
                           line.vars[q].name # was.name

\* fnc_declVisit: the variables of the body, the last line's last.
BodyInv ==
    LET body == {i \in Lines : Declares(Original[i]) /\ Original[i].blk = <<>>}
    IN  /\ fncDecls \in Seq([name : Names, line : body])
        /\ NamesOf(fncDecls) = IF stage \in {"recursiveVisit", "fnc_declVisit"} THEN {}
                               ELSE UNION {NamesIn(Original[i]) : i \in body}
        /\ fncDecls # <<>> => \A i \in body :
              NamesIn(Original[i]) # {} => i <= fncDecls[Len(fncDecls)].line

\* var_declVisit: the variables of the lines that have been moved.
MovedInv ==
    /\ var_suffix \in Nat \ {0}
    /\ varDecls \in Seq(DeclType)
    /\ Apart(varDecls, var_suffix)
    /\ \A k \in DOMAIN varDecls : \E i \in Lines : Moved(i) /\ OfLine(varDecls[k], i)
    /\ \A i \in Lines : Moved(i) => \A n \in NamesIn(Original[i]) :
          \E k \in DOMAIN varDecls : OfLine(varDecls[k], i) /\ varDecls[k].old = n

\* The renamings that have been made.
Turns == IF stage = "replace_duplicate_vars" THEN at - 1
         ELSE IF stage = "seperate_decl_init" THEN Len(varDecls) ELSE 0

\* What there is of line i: of one that has been moved the assignments and the
\* comment, of any other its renamed version, and the head is followed by what
\* has been moved.
Left(i) ==
    IF Moved(i)
    THEN /\ \A j \in DOMAIN text[i] : \/ Has(Original[i], "comment") /\ text[i][j].op = "garbage"
                                      \/ Assigns(text[i][j], i, varDecls)
         /\ Has(Original[i], "comment") => \E j \in DOMAIN text[i] : text[i][j].op = "garbage"
         /\ Initialised(Original[i]) => \E j \in DOMAIN text[i] : Assigns(text[i][j], i, varDecls)
    ELSE /\ Version(text[i][1], i, Turns)
         /\ IF i = 1 /\ stage \in {"replace_duplicate_vars", "seperate_decl_init"}
            THEN /\ Len(text[i]) = Len(varDecls) + 1
                 /\ \A k \in DOMAIN varDecls :
                       text[i][k + 1] = Declaration(varDecls[k].name, varDecls[k].flags)
            ELSE Len(text[i]) = 1

TextInv ==
    stage # "done" => /\ text \in [Lines -> Seq(LineType)]
                      /\ \A i \in Lines : Left(i)

\* Where the loops are.
LoopInv ==
    /\ stage \in Stages /\ DOMAIN text = Lines /\ bare \subseteq function.bare
    /\ CASE stage = "var_declVisit" -> at \in 1..Len(function.text)
         [] stage = "replace_duplicate_vars" -> at = 1 \/ at \in 1..Len(varDecls)
         [] OTHER -> at = 1

\* The inductive invariant: every name that moves to the body is free there and
\* belongs to one variable, and every line is the one that was written, with
\* only names replaced that have moved out of its block under a new name.
HoistInv ==
    LoopInv /\ BodyInv /\ MovedInv /\ TextInv /\ CompilesUnless

\* The name that line i moves is taken when its turn comes.
Renamed(i, n) ==
    /\ Moves(Original[i]) /\ n \in NamesIn(Original[i])
    /\ \E j \in Lines : /\ Declares(Original[j]) /\ n \in NamesIn(Original[j])
                        /\ Original[j].blk = <<>> \/ (j < i /\ Moves(Original[j]))

\* Within its block, a renamed variable is not named after a word, and no
\* declaration that moves reads it or is of the same name.
RenamedCleanly(i, n) ==
    \A j \in Lines \ {i} : IsPrefix(Original[i].blk, Original[j].blk) =>
        /\ Moves(Original[j]) => n \notin NamesIn(Original[j]) \cup ReadIn(Original[j])
        /\ \A k \in DOMAIN Original[j].vars :
              Original[j].vars[k].name = n => Original[j].vars[k].ctx # "word"

\* A variable that moves hides no global from the lines outside its block.
HidesNothing(i, n) ==
    \A j \in Lines : ~IsPrefix(Original[i].blk, Original[j].blk) =>
        /\ n \in NamesIn(Original[j]) /\ Original[j].op # "decl" => Resolve(Original, j, n) # 0
        /\ n \in ReadIn(Original[j]) => Resolve(Original, j, n) # 0

\* A statement without braces gets them.
GetsBraces(b) ==
    /\ function.form[b] \notin {"macro", "do"}
    /\ function.form[b] = "for" => Front(b) \notin function.bare

Tame ==
    /\ \A b \in function.bare : GetsBraces(b)
    /\ \A k \in DOMAIN varDecls : Renaming(k) => Enclosing(k) = {}
    /\ \A i \in Lines :
          /\ Moves(Original[i]) \/ Separates(Original[i]) => ~Has(Original[i], "static")
          /\ Declares(Original[i]) => NamesIn(Original[i]) \cap ReadIn(Original[i]) = {}
          /\ ReadLate(i) = {}
          /\ Moves(Original[i]) => \A n \in NamesIn(Original[i]) :
                /\ HidesNothing(i, n)
                /\ Renamed(i, n) => RenamedCleanly(i, n)

\* The whole of Pass 1, with the stamps of Pass 2 behind every statement: a tame
\* function that still compiles computes what it did, in every execution, and
\* what is inserted after a statement is executed exactly when the statement is.
MeaningKept ==
    stage = "done" /\ Tame /\ Compiles(Original, function.globals)
    /\ Compiles(Rewritten, function.globals) =>
        \A taken \in SUBSET DOMAIN function.form :
            Run(Rewritten, bare, taken) = Run(Original, {}, taken)
===============================================================================
