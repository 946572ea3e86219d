# A TLA+ verification of Hecaton

Hecaton instruments the functions of a Linux driver with *bowknots*. When a
statement of such a function faults, a patched kernel does not crash: it cuts
the statement short, and the inserted code undoes what the function had done so
far, returns to the caller, and has the caller undone in turn. This directory
holds the TLA+ model of that code and of the compiler passes that write it, the
TLC runs that check the model on small drivers and functions, and the TLAPS
proofs that hold for every driver.

- [The system](#the-system): inventory of the repository
- [The modules](#the-modules): how state and actions correspond to the code
- [The runs](#the-runs): what is checked, bounds and fairness
- [What the code does otherwise than it says](#what-the-code-does-otherwise-than-it-says)
- [The proofs](#the-proofs): what is proved, from what, and how
- [What is only model-checked, and what is not modelled](#what-is-only-model-checked-and-what-is-not-modelled)
- [What is left](#what-is-left)

## The system

| part | source | state | operations |
| --- | --- | --- | --- |
| Pass 1 (clang plug-in) | `Hecaton_source/HecatonPass1.cpp` | lists of the declarations of the function at hand, the rewriter's buffer | braces around single statements; move inner declarations, renaming duplicates; separate declarations from initialisers |
| Pass 2, analysis (clang plug-in) | `Hecaton_source/HecatonPass2.cpp` 564-1340, 2323-2464 | the function's list of error handling blocks (EHCs), each with its type, statements and new statements | find blocks, resolve gotos, filter, judge, find new statements, number the undos |
| Pass 2, pair search | same file 1526-2463 | the pair of each undo; the list of outer undos with duplicates and candidates; the confidence score | inner pairs by similarity, locks by name, database pairs by common variables, scoring |
| Pass 2, instrumentation | same file 253-283, 372-517, 1341-1521, 2464-2638 | the rewriter's buffer | the macros, `hgoto` after statements and braces, the mask and its stamps, the cleanup block |
| bowknots at run time | the code Pass 2 writes | `hecaton_pairmask` per activation, `current->hf` per task | statement, `hgoto`, stamp, cleanup block, `kernel_restart` |
| kernel exception handler | not in the repository (`README.md`:38) | `current->hf`, the address table | catches the fault, resumes the innermost instrumented function |
| database pass (clang plug-in) | `Hecaton_source/HecatonDatabase.cpp` | heads, statements and new statements of the function's blocks; the file | find blocks, follow gotos, filter, find pairs, write lines |
| pair database | `database/database_header.h` | arrays `ehc_fncs` and `pair_fncs`, curated by hand | - |
| address table | `scripts/parse_vmlinux.py` | functions with begin, end, cold part and saved registers | four passes over a disassembly |
| build pipeline | `scripts/*.sh`, `scripts/*.py` | three kernel trees, the plug-ins, generated headers | copy, prepare, pass 1, pass 2, build, update the table, build again, reset |
| sample bugs | `bugs/` | - | test inputs |

**How they interact.** Pass 1 rewrites `baseline_kernel` into `pass1_kernel`,
Pass 2 rewrites that into `hecaton_kernel`; the functions to touch are a header
generated from `bugs/<bug>/functions.txt`. Inside each pass the handlers of
`VisitFunctionDecl` run one after the other on shared lists. The database pass
ran once over the whole kernel; its output, sorted out by hand, is compiled into
Pass 2. At run time the exception handler and the inserted code talk through one
flag per task, `current->hf`: the handler raises it, every `hgoto` tests it, the
cleanup block lowers it, undoes, raises it again and returns, so that the
caller's next `hgoto` jumps as well. Tasks meet in the driver's locks, interrupts
run on the stack of whatever task they hit.

**What is hard.** A fault between any two statements of any task while others
wait for its locks; callers and callees undone one after the other; interrupts
on top of a task that is being undone; faults where no `hgoto` stands (in a
condition, a return or the cleanup itself); a restart of the kernel in the
middle; handlers that read lists, counters and pointers earlier handlers left
behind; text replaced where meaning was intended. `PROJECT.json` lists these
hazards line by line.

**What makes the parts correct.**

- run time: between statements the mask tells exactly what the frame holds; a
  cleanup undoes all of it, once; seen from outside, a call is all or nothing; no
  statement runs with `hf` raised; locks are neither kept nor given away;
  interrupts do not notice; every call ends
- analysis: each undo statement of an accepted block gets one bit; a filter only
  filters
- pair search: the acquisition chosen for an undo is the one it undoes
- Pass 1: the function still compiles and computes what it computed before
- database pass: a block's statements are those that are executed there, and a
  line pairs an undo with something done before it
- address table: one entry for each function, of matching bounds
- pipeline: the table compiled in describes the kernel it is compiled into

## The modules

| module | models |
| --- | --- |
| `Instrument` | what Pass 2 derives from a function: its undos, their bits, the stamps, the order of the cleanup block (pure operators) |
| `Bowknot` | the instrumented kernel at run time (state machine), on top of `Instrument` |
| `AtomicCall` | the abstract specification of the run time: a system call is all or nothing |
| `BowknotProps` | the properties of `Bowknot`, the refinement mapping to `AtomicCall`, the inductive invariants |
| `BowknotProofs`, `UndoneProofs` | the theorems about the run time and their proofs, at the end those on the locks and on the refinement |
| `MCBowknot`, `MCDriver` | small drivers for TLC; `MCDriver` also assumes the preconditions of the theorems |
| `Filter` | what a loop that erases elements leaves of a list (`Keep`) |
| `EHCAnalysis` | Pass 2's analysis, one action for each turn of each handler's loop |
| `EHCProps`, `MCEHCAnalysis` | its properties and its inductive invariant; small functions |
| `FilterProofs`, `EHCProofs` | the facts about `Keep` and about lists of lists, and the theorems about the analysis |
| `SyntaxTree` | the tree of a function and the search for a similar statement, which Pass 2 and the database pass share |
| `TreeProofs` | the facts about syntax trees and about the search in them |
| `PairSearch`, `PairProps`, `MCPairSearch` | Pass 2's pair search and confidence score, its properties and inductive invariant, small functions |
| `PairProofs` | the theorems about the pair search and the score |
| `Pass1`, `Pass1Meaning`, `MCPass1` | Pass 1 as a rewriting of lines, what a text means and what Pass 1 keeps of it, its inductive invariant, small functions |
| `Pass1Proofs` | the theorems about Pass 1 |
| `PairDatabase`, `DatabaseProps`, `MCPairDatabase` | the database pass, its properties and inductive invariant, small functions |
| `DatabaseProofs` | the theorems about the database pass |

**`Instrument`.** A function is the flat list of its statements (`Body[f]`), each
with the resource `r` it acquires or releases and the instrumented function it
calls. An undo statement's *text* stands for the resource it releases, since
Pass 2 compares statements by text. `Undo[f]` is the set of entries after
`handle_outer_ehcs_duplicates`; `pairmask_id` is the rank that
`assign_pairmask_id` gives (inner undos, then outer ones); the mask is the set
of the bits that are 1, cut off at `Width`. `StampAfter` and `StampInThen` are
`insert_pairmask_stamps` with `find_proper_loc_to_insert_pairmask_stamp`;
`UndoneBefore` is the order that the prepending in `generate_cleanup_str`
results in.

**`Bowknot`.** Each task has a stack of frames; a frame's phase `ph` says where
in the inserted text it is. `Pass` is an `hgoto` that does not jump together
with the stamps behind it, `Cleanup` the jump, the label and `hf = 0`;
`UndoOne` and `UndoByCall` run the next statement of the cleanup block, `Leave`
is `hf = 1; return`; `CleanupOfClosing` and `Restart` are the block that a
closing function has instead. `Acquire`, `Release`, `Work`, `Call`, `Branch`,
`SkipBlock`, `AcquireInCondition` and `Return` are the driver's own statements.
`Enter`, `Interrupt` and the four faults are the environment. History variables:
`net` counts acquisitions less releases of a frame, `leak` holds what a cleanup
did not bring back to 0.

*What is assumed of code outside the repository.* The exception handler cuts the
faulting statement short with none of its effect left, raises `hf`, and resumes
the innermost instrumented function behind the statement. A system call starts
with `hf` lowered. Faults occur in process context. The driver's own code is
disciplined: it acquires what it does not hold and releases what it holds
(`Disciplined`, `Delivers`), and a system call or an interrupt returns to the
kernel without a lock (`Quits`). A failed acquisition whose undo is harmless
(`Tolerant`) is not one of a lock: unlocking what was not locked is never
harmless. `Disciplined`, `Delivers` and `Quits` are guards, so a program that breaks them
would get stuck: the deadlock check of `bk_driver` shows that the checked
programs never do.

**`AtomicCall`.** No statements, frames, masks or flags: a task is `inside` a call
or not, takes resources, each as often as it likes but a lock only when nobody has
it, gives them back, and may be cut short. From then on it has no result: it may
take what it needs for giving back (a closing function that a cleanup block
calls is a function like any other), but it is over only when it has given
everything back. A call that is not cut short ends with what it holds as its
result, but with no lock. The machine restarts only because of a call cut short.
The mapping (in `BowknotProps`): a call is the frames of its task without those
of an interrupt (`Own`); it holds what they hold together, a callee's release on
behalf of its caller cancelling out, and what they leaked (`Holds`); it is cut
short while `hf` is up or one of them is in its cleanup block (`Cut`).

**`EHCAnalysis`.** `stage` and `at` are the handler and the element its loop is
at; the lists are those of `Function`. A statement is its text and `Kind` says
what the `isa<>` tests and the name tables make of it; a block is its statements
and the label of its goto, which is the shape Pass 1's braces leave. Left open,
as choices: what the uninitialised buffer of `gotostr` holds, and whether
`recursive_pair_visit` finds the pair of a statement for which there is one. The
second is computed in `PairSearch`, on trees. `Direct` are the calls that
`handle_maybe` counts, whatever the other handlers take them for: a lock is removed
only behind it, so that a doubtful block with nothing but a lock is denied. `Known` are
those the database names, and `ErrorSets` the `rc = -5` that a `return rc` takes with
it. The erasing loops are `Keep`, which is
`SelectSeq` with a set for the predicate, written as a recursive function over
the positions so that proofs can follow the loop.

**`SyntaxTree`.** A tree is the sequence of its nodes in preorder, so that what
precedes in the text has a smaller number and the lines of the source can be
told from the numbers. `IsTree` is what is assumed of a tree: the preorder, that only
blocks, ifs and labels contain statements, that an if has a condition and a Then,
that a label has the one statement it labels, and what an expression consists of: a
cast holds a call, an assignment a call or a cast, and both are called what the call
in them is called. `Uncalled` are the names of labels and of fields that point to
functions, which no call by name has. `is_pair` is the test on two calls; `PairOf` is
`recursive_pair_visit` with `pick_the_most_probable`: the last child decides
whether a pair was found, otherwise the most similar statement is taken. How
similar two texts are (`pair_evaluation`) is a function of the names called, and
a constant.

**`PairSearch`.** A function comes with the result of the analysis: its blocks and
their new undos. The actions are the handlers, loop turn by loop turn:
`find_pairs` on inner undos, the search for outer ones with their duplicates,
their candidates, scores and choice, and the four parts of the confidence score
with the `init_flag` they share. `IsFunction` is what is assumed of a function: a
tree, calls of two arguments at most, and blocks whose undos are in no macro.
`PairProps` says what is found without scores or searches: which acquisition
involves which undo. `PairedByVariable` says nothing of an undo whose name holds
"kfree" (`Kfrees`: kfree_skb, devm_kfree): for those the search takes the text
around the call for its parameters, so that arguments of another call on the same
line count. `KfreeFindsAllocation` is about them.

**`Pass1`.** A function is its lines, each declaring, setting or using variables
and standing in a block given by its path; what stands before a name in the text
(a word, a member access, neither) is kept because `is_valid_variable` reads
it. A function also says what each block is the body of and
which names are declared outside it (`globals`). Every line is rewritten on its own, as
the rewriter's buffer is. `Braced` includes `verify_for`, which reads the text as rewritten
so far: a `for` that has just been put into braces begins with an empty line there and is
not recognised, so that its own body gets none. `Windows` are the lines that one renaming replaces:
those of its block, unless an earlier renaming has made a block around it longer;
then what `getRewrittenText` returns begins too late by some characters, and is some
run of lines of the outer block. `Pass1Meaning`
gives texts a meaning: `Compiles` (nothing unparsable, no duplicate within a declaration
or between two of a block, no assigned constant, and every name declared before it is
used, in the function or among its globals) and `Run`, what two calls in a row let the world see, statics keeping
their values, with the stamps that Pass 2 inserts behind each statement. `Tame`
names the functions for which the meaning is kept.

**`PairDatabase`.** The database pass from the ifs of a function to the lines of
the file. `labelstm`, which the code leaves uninitialised, is a choice among the
labels found before and none.

Some operators exist only to be wrong (`StampNoClear`, `MarkedAll`,
`CountAfresh`, `MoveSameSuffix`, ...). Each stands in front of the definition it
is a slip in; `PROJECT.json` pairs each property with one that breaks it.

## The runs

Passing runs. Deadlock is checked unless noted.

| run | setting | states | shows |
| --- | --- | --- | --- |
| `bk_driver` | 2 tasks, 2 faults, 1 interrupt, stacks of 4; a driver with a lock, an allocation that may fail, an inner undo, a loop, a callee that faults on its own, a release function | 80,759 | `MaskMirrorsHoldings`, `CleanupOnCourse`, `HalfExecutedUndone`, `FaultStopsTask`, `LockLedger`, `InterruptRunsThrough`, the refinement `AllOrNothing`, `TypeOK` and the inductive invariant `LInv` |
| `bk_live` | the same without the loop, 1 fault, fair | 68,480 | `EveryCallEnds` |
| `bk_uncaught` | faults in conditions, returns and cleanup blocks, 3 of them | 83,984 | `SetForAReason`: what cannot be caught leaks, but a bit is never set for nothing; `FaultFreeUntouched`; the inductive invariant `EveryInv` |
| `ehc_analysis` | all functions of up to 3 ifs out of a stock of 9, which between them have every kind of block and statement | 62,376 | `VerdictByPrefix`, `LostOnlyBehindDenied`, `NothingNumberedTwice`, `FiltersOnly`, `EHCTypeOK` and the inductive invariant `EInv` |
| `pair_search` | functions of 7 or 8 statements, two of them error handling blocks, out of a stock of locks, allocations with and without casts, indirect calls, self-paired undos and undos named like kfree | 113,340 | `PairedByVariable`, `KfreeFindsAllocation`, `NothingLeftOut`, `ScoreAddsUp`, `PairTypeOK` and the inductive invariant `PInv` |
| `pass1` | functions with a body, a block, a block in it and another behind, whose declarations shadow, repeat, initialise and read each other; and statements without braces within each other | 301,944 | `CompilesUnless`, `MeaningKept`, `Pass1TypeOK` and the inductive invariant `HoistInv` |
| `pair_database` | an acquisition, three ifs out of 9, four ends with two labels | 67,726 | `PathFollowed`, `NothingWrittenTwice`, `PairBeforeBlock`, `DatabaseTypeOK` and the inductive invariants `DInv` and `PathInv` |

`bk_uncaught` has no deadlock check because a task may really hang there, on a
lock leaked by another; the passes because they end.

**Bounds.** `MaxDepth = 4` lets a call, its callee, a closing function and an
interrupt be on one stack. Two faults cover a fault while another task is being
undone, and a fault in a task that was undone before; the third of `bk_uncaught`
can hit the cleanup of a caller whose callee was cut short. Two tasks are what
the lock needs. Three blocks are what a statement needs to be shadowed by the
first and repeated by the last, what a counter needs to carry over twice, and
what the database pass needs for its window to start behind a block. Two blocks
are what the pair search needs for an inner undo to have a block before its own.
A block in a block and another beside it are what Pass 1 needs to hand out two
suffixes, to rename within a renamed block, and to hide a global from a
neighbour; three statements without braces, one in the other, for a `for` that gets
braces inside one that did not. `Some` and `Many`, 5 and 8 in the code, are 2 and 4, so that small
functions reach both.

**Fairness.** `FairSpec` assumes for each task that its steps, as one action, are
taken if they are possible again and again (SF). The scheduler keeps every task
running, and the kernel's mutexes queue their waiters, so that a waiter is not
passed over for ever; weak fairness would let two other calls hand the lock back
and forth past it. Nothing is assumed of faults, interrupts or new system calls.
`bk_live` leaves out `step`'s loop, whose branch need never leave it, and limits
faults to one, since a call that faults again and again need not end.

**How to read `MeaningKept` and `CompilesUnless`.** Pass 1 does not keep the
meaning of every function, and these properties say of which it does.
`CompilesUnless` names the functions that no longer compile, and is exact for the
`Usual` ones: what is assigned is named without a word before it (such a name is
never renamed, so that the assignment could change its variable); the declarations
of the body come first and none reads a variable it declares itself, as kernel
code is written; an inner
constant is initialised, has no braces and does not shadow an inner declaration
that has (such a declaration stays where it is, and assignments to it would go on
compiling although a constant of its name has moved); and no renaming is within
the block of another, because which text it replaces then depends on characters.
`Harmless` is what the others among them lack: five ways in which the result does not
compile, all listed below.
`MeaningKept` is for the `Tame` ones, each condition of which excludes a
divergence listed below. `GetsBraces` is the one about statements without braces.

## What the code does otherwise than it says

Each is a run that TLC must find violated, on a minimal driver or function;
`PROJECT.json` quotes the line it contradicts.

| run | property | what happens |
| --- | --- | --- |
| `gap_condition` | `HalfExecutedUndone` | `if (down_interruptible(&l)) return -EINTR;`: the stamp goes into the block of the failure, so the lock is never marked and stays held after a fault |
| `gap_inner` | `HalfExecutedUndone` | no clear follows an inner undo: a fault behind it undoes it again |
| `gap_skipped` | `NothingUndoneTwice` | a fault in a condition whose branch is not taken lets the next statement run with `hf` raised; if it is an undo, the cleanup undoes it again |
| `gap_self_pair` | `NotItsOwnPair` | `p = get(n); ... kfree(p);`: the database lets `kfree` undo itself, and of equal candidates the last counts, so that the bit is set behind the undo |
| `gap_first_block` | `EveryBlockCounts` | the database pass compares two strings it never fills: only the first block of a function counts |

Others are in the models as the code has them, without a property of their own:

- run time: outer undos run in reverse source order whatever depends on what; a
  failed acquisition is stamped like one that succeeded
- analysis: `handle_maybe` never resets its counters; an Else block is judged by
  the label of the Then block, or by what an uninitialised buffer holds; an undo
  first seen in a denied block is in no cleanup; behind `out: return rc;` the
  resolution of a goto runs on
- pair search: `>=` from a score of 0 takes a candidate that has nothing in common
  with the undo; `make_possible_database_pairs_unique` removes no candidate; one
  acquisition is marked, with what reads like it, where several branches may each
  have one; a pair found in any but the last child is forgotten; unlocks are not
  counted as undos of the lock functions in the score
- Pass 1: a `for` without braces directly in a statement that gets braces gets
  none, so that what Pass 2 inserts behind its body is outside it; a name behind a
  word (`return x`) is not renamed; a renaming in a nested block replaces text that
  begins too late; parameters are not looked at; an initialised
  `const` of an inner block becomes an assignment to a constant; a `static` becomes
  automatic; a declaration with a comment in it is left half commented out; parts
  of a type that stand behind the name, as of a pointer to a function or an
  array of arrays, are printed before it; `int x = v; const int y = x;` leaves `y` where
  it is and re-declares `x` behind it, which does not compile
- database pass: `labelstm` may be the label of an earlier block; a return that is
  not in braces is not found; an if counts as two blocks if it returns and jumps; any variable whose name ends in `rc` is taken for the
  return code

## The proofs

The proofs are about all five state machines: `Bowknot`, `Pass1`, `EHCAnalysis`, `PairSearch`
and `PairDatabase`. Those about `Bowknot` hold for every set of functions, tasks, locks and bounds that satisfies the
named assumptions `InstrumentAssumption` and `BowknotAssumption`; they are sorted
by what is asked of the program. The others follow.

**Every program** (`UndoneProofs`, and in `BowknotProofs` the theorems
without preconditions):

- `DistinctIds`: two undos of a function have different bits. The id is a rank
  in a strict total order, so the set of those numbered before one is a proper
  subset of the set of those before the other.
- `TypeCorrect`, `PlacedCorrect`: the type invariant. `TypeOK` alone is not
  inductive: the next statement exists only if the frame is inside its
  function's text, and `pairmask_id` is defined only for that function's undos.
  `TInv` adds that (`Placed`).
- `ReasonCorrect`: a bit of an outer undo is set only for a reason, also where
  faults are not caught or hit the cleanup block.
- `InterruptCorrect`: an interrupt leaves `hf` and the frames below it alone, and
  never enters a cleanup block.
- `UntouchedCorrect`: until the first fault the instrumentation does nothing.

**Sheltered programs** (`BowknotProofs`; `Sheltered`: faults hit only statements
that an `hgoto` follows, nothing is acquired in a condition, the undo of a failed
acquisition is harmless, and only closing functions release for their callers):

- `ShelteredInvariant`, and from it `MaskCorrect`, `CleanupCorrect` and
  `FaultStopsCorrect`: the mask mirrors the holdings, cleanup blocks have
  exactly the holdings left to do, and no statement starts with `hf` raised.

**Sheltered and covered programs** (`UndoneProofs`; `Covered`: a function has an
undo, within the width of the mask, for all it acquires, and returns right
behind an inner undo):

- `CoveredInvariant`, and from it `UndoneCorrect`: a function that was cut short
  has undone all it had done and nothing else.

`Sheltered` excludes what goes wrong in `gap_condition` and `gap_skipped`, faults
in returns and in cleanup blocks, failed acquisitions whose undo does harm, and
functions that release for their caller and are not closing ones, whose cleanup
could not give back what they released; `Covered` excludes `gap_inner`. So the
theorems say: these apart, bowknots are exact.

**Sheltered, covered and delegating programs** (`UndoneProofs`;
`Delegating`: a function that releases what it never acquires is called only by
statements that release just that, and is no entry of the driver):

- `LedgerInvariant`, and from it `LedgerCorrect`: what the frames of a task
  account for of a lock is 1 if the task owns it and 0 otherwise, so that no
  cleanup lets go of another task's lock, and none keeps one.
- `AtomicCorrect`: the instrumented kernel implements `AtomicCall`. Whatever
  faults, in whichever frame, on top of whatever callers, a system call is all or
  nothing.

**Every function that is analysed** (`EHCProofs`; `Programs` is any set of
functions, and that a program's statements are finitely many is all that is
assumed of it):

- `EHCInvariant`, and from it `EHCTypeCorrect`.
- `VerdictCorrect`: when `handle_maybe` is through, the verdict on a doubtful block can
  be read off the statements of the doubtful blocks up to it, because the counters are not
  reset between blocks: one call of a database function is enough for all later
  ones, and one call of any other, a lock included, enough against those that have
  none. `handle_loops` and `handle_critical_sections` then remove some of what was counted;
  that they leave the verdict alone is `FiltersCorrect`.
- `NumberedOnceCorrect`: an undo has one bit however many blocks and statements
  have its text, unless one block repeats it.
- `NothingLostCorrect`: an undo of an accepted block has its bit, unless a
  denied block before it has it too, or it was left to the outer undos and those
  do not take it.
- `FiltersCorrect`: after `find_ehc_stmts` statements are only removed, in their
  order, and only a doubtful block is judged.

**Every function that is searched** (`PairProofs`; `Functions` is any set of functions
that are as `IsFunction` says, the database any list of pairs that names what
`Frees` holds, `Similarity` anything from 0 to 100, and the limits of the score any
two numbers in order: `SyntaxTreeAssumption` and `PairSearchAssumption`):

- `PairInvariant`, and from it `PairTypeCorrect`.
- `PairedCorrect`: whatever a function looks like, an unlock is paired with all the
  locks of its lock, and a database undo with an acquisition that shares a variable
  with it and what reads like that one. If no acquisition shares one, it is paired
  all the same.
- `AllocationCorrect`: a kfree is paired with an allocation whose result goes through a
  cast to what is freed, if there is one.
- `NothingLeftOutCorrect`: an undo of a block has a bit of its own or is among the
  outer undos, in its own right or as a duplicate; never both.
- `ScoreCorrect`: the score is 100 less the sum of its reasons, although they start
  one another's parts again through `init_flag`.
- `InvolvesScores`: an undo that is not named like kfree scores above 0 with a call if
  and only if they share a variable, also through an assignment and a cast.

**Every tree that the database pass visits** (`DatabaseProofs`; `Sources` is any set of
trees as `IsTree` describes them: blocks, ifs and labels, calls whose arguments hold no
calls, assignments, gotos and returns, nested in any way, but no loops.
`SyntaxTreeAssumption` and `PairDatabaseAssumption` are all that is assumed of them):

- `DatabaseInvariant`, and from it `DatabaseTypeCorrect`: a branch is counted
  by its condition or by how it ends, never by both.
- `WrittenOnceCorrect`: no statement has two lines, however many blocks lead to the same
  label, and although a branch that returns and jumps is two blocks with the same
  statements.
- `PairBeforeCorrect`: what a line pairs with an undo stands before the undo's
  branch, whatever is nested in what.
- `PathInvariant`, and from it `PathCorrect`: if the functions are `Orderly`, the
  statements of a braced branch are those that are executed, through the goto at
  its end, unless one of them is a labelled return. Orderly means that what stands
  behind a goto or a return in its block is reached by a label, that labels
  are different statements of the body, and that the code at them does not jump,
  which is how the kernel uses goto; the search reads on behind
  a goto and takes a label for its statement, so that without it the claim is false.

**Every function that Pass 1 rewrites** (`Pass1Proofs`; `Functions` is any set of
functions, `Name` and `Value` any sets, and `Pass1Assumption` is all that is assumed):

- `HoistInvariant`: every name that moves to the body is free there and belongs to one
  variable, and every line is the one that was written, with only names replaced that
  have moved, under a new name, out of a block whose renaming reaches the line, shifted
  or not.
- `CompilesCorrect`: of the usual functions that compile, exactly those do after Pass 1 in
  which no inner variable is named like a parameter, no initialised inner one is
  const, no declaration that is moved or separated holds a comment or has parts of its
  type behind the name, and no const or braced declaration of the body reads a variable that
  comes to be declared behind it. So suffixes
  never collide, with each other or with the body; renaming, which does not
  resolve names but looks at blocks, never lets an assignment reach a constant; and no
  other line is left with a name that is not declared before it.
- `Pass1TypeCorrect`: the lists hold names with suffixes that have been handed out.

The module of `bk_driver`, `MCDriver`, assumes `Sheltered`, `Covered` and
`Delegating`, which TLC evaluates: the preconditions are met by what is checked.
`PathInv` says that the functions of `pair_database` are `Orderly`, and TLC checks that
too. The inductive invariants `LInv` (which contains `CInv` and `IInv`), `EveryInv`, `EInv`,
`PInv`, `HoistInv`, `DInv` and `PathInv` are themselves checked by `bk_driver`, `bk_uncaught`,
`ehc_analysis`, `pair_search`, `pass1` and `pair_database`.

*The argument for sheltered programs.* None of the three properties is
inductive. The mask is right when a statement begins, but in between the effect
is there and the stamp is not: `FrameOK` says of phase `check` that the mask
*will* be right once the stamp is passed, or, if `hf` is raised, is right as it
stands because the statement had no effect (`Settled`). Cleanup starts with the
marked undos, which the mirror makes the holdings; the steps of the block keep
the two together (`OnCourse`). For callers, `Linked` says which phases a frame
with another frame on top can be in, that an interrupt's frames lie above the
task's, and that a function called by a cleanup is a closing one, so that it
cannot return with `hf` raised into the middle of a block. `hf` belongs to the
task but is about its topmost frame outside interrupts; the invariant relates it
to every frame.

*For every program* less is certain. At the `hgoto` behind an acquisition the
resource was acquired or could not be, or `hf` is raised, in which case the stamp
is not reached (`Effective`). That is the reason for the bit (`SetForReasons`); a
release takes the reason away one step before the stamp clears the bit, which is
the third reason (`Behind`). `Stacked` keeps frames of interrupts apart from those
that wait for a callee.

*For `UndoneCorrect`* the converse of the mirror is needed: what can be undone is
held, and what is held can be undone (`Accounted`). Inner undos need care, since
no clear follows them: their bits are right except in a frame that is about to
return (`Over`), from which no cleanup starts. When a cleanup block leaves,
nothing is left to undo, so `OnCourse` and `Accounted` together give that the
frame holds nothing. A resource that a callee releases for its caller is on the
caller's account until the callee returns.

*For `LedgerCorrect`* the holdings of a whole stack are added up (`Total`), and
that its frames hold 0 or 1 each is not enough: a function called to release for
its caller is at -1 until it returns. So the totals up to each frame are what
stays non-negative (`Solvent`), and a function that borrows runs only above a
frame whose total is positive. The totals of an interrupt are kept apart from
those of the call it interrupts, since the call's cleanup is not its business.
The sum is a recursive function. Its few facts (`RunningExists`, `RunningUnique`,
`RunningRuns`) are proved with the least entry that would contradict them
in place of an induction. With them, every step that is no restart is
one of three: the last frame changes by at most one resource (`Continues`), a
frame is pushed (`Starts`), or one is popped and its holdings go to the caller or
are none (`Ends`). `StepShapes` sorts the actions into these, and the rest of
the proof is about the three.

*For `AtomicCorrect`* the same three shapes are refined. `Continues` is a `Take`,
a `Give`, a `CutShort` when `hf` rises or the cleanup begins, or a stutter;
`Starts` is `Begin` for the first frame outside interrupts and a stutter for
others; `Ends` is `Finish` or `Undone` for the last of them. That `Undone`
finds nothing held is `UndoneCorrect` for the frames and `Solvent` for their
sum; that `Finish` finds no lock held is `Quits`. That a call cut short stays
cut short through the windows in which the cleanup block has lowered `hf` is
what the phases of `FrameOK` and `Linked` are for. A `Restart` is a `Reboot`,
because a frame dies only with `hf` raised (`Doomed`).

*For the analysis* the properties are about the end of a chain of loops, and the
invariant says of each EHC what the loops that are through with it have settled
(`Through`). Before `find_new` an EHC has no new statements; behind it they are
exactly those of its statements that no earlier EHC has (`News`, `Fresh`), and
stay so because nothing removes statements any more. Marking as outer has one of two
reasons (`Left`). So two EHCs never number the same text: the later one would
not have found it new. And the first EHC with a text numbers it, if it is not
denied: `LostOnlyBehindDenied` is proved for the least index that has it. The
counters tell what the EHCs that have been judged hold (`Judged`), for as long as
`handle_maybe` runs; the verdicts are read off the EHCs until the next handler
removes the first statement (`Uncut`), and are only carried along from there.
What `Keep` does is proved of its loop: after each turn the
list so far is what the positions so far give (`Picks`), again with the least
turn that would contradict it.

*For the pair search* the work is in the scores. A call's parameters are those of the
assignment it is in, found in the parent or, because of casts, above it, and that
there are no more than three of each makes nine pairs of them at most: 90, less than
the 100 for an allocation (`ScoreBound`). So the best score tells an allocation from
everything else (`AllocationFound`), and for other undos a score above 0 tells
what shares a variable (`InvolvesScores`, `VariableFound`). The best are
taken with the largest node; what reads like it is found through its `Text`, which
an assignment and the cast in it share with the call, and `End` leads from each of
them back to the call. Duplicates are folded into the least node with their
text, so that every undo is in one entry. Each part of the score is written by one
handler that runs once, whatever `init_flag` holds by then.

*For the database pass* the invariant is short, because the handlers work on whole
lists: what was true of a block when its new statements were listed is true when
lines are written, since the blocks do not change any more. That no line is
written twice has two halves. All new statements are of one block, since the comparison lets
those of a second block through only if all blocks before it are empty. And no block holds a statement
twice: the branch's own stand in the branch, those behind the label in the body, and taking
the label off a statement gives one that no other label has (`BehindOnce`). The work is in the
trees. For a branch with braces `find_pairs` compares lines, and the braces of an
else are on the line of their if, so that an earlier line does not mean an earlier
node. `LaterLines` says that it does for everything but braces, which are never a pair: a
node behind the branch is either inside the statement that the branch's line
belongs to (`Contiguous`: a subtree is an interval of the preorder), or behind it,
and then it is a statement, in one, or an else's braces. `Above` and
`recursive_fnc_name` recurse over the tree, towards the root and towards the leaves; that their values
exist is proved node by node, in preorder and against it (`ClimbsRun`, `NamesRun`). For
`PathCorrect` the heads are needed too: a branch that ends in a goto has a GOTO head
(`EndsInv`), so that its COND head was removed as a duplicate, and the label is always
searched for. From the label, `Resolve` stops at a return and the execution at
whatever stops it; the first that does is no label by hypothesis and no goto in an
orderly function, hence a return (`ResolvedPath`).

*For Pass 1* the text is rewritten three times before it can be judged, and the
invariant says at each turn what is left of every line (`Left`). One that has been
moved is its assignments and, if it had one, the comment that was cut open; any other is
its `Version`, in which each name is as it was written or is that of an entry of the list
for a block around the line, and no entry whose turn has been would still replace it;
the head is followed by what has been moved. Which of several entries has replaced a name
`Version` leaves open: entries of nested blocks may both apply, and the first in the list
wins, not the innermost. The names are kept apart by `MovedInv`: a suffix is handed out
once (`Apart`), and a name that needs one is taken by the body or by another entry.

The last step takes the pieces apart and puts them together again. Every line of the
result is one of six kinds (`FinalKinds`): the head, what was hoisted, a separated
declaration or its assignment, what is left of a moved line, a line kept. Their
order is that of the lists they come from (`FlattenOrder`). If the function is
harmless, two declarations of the result that clash would be two of the original in one
block, or one entry of the list twice (`Clashes`); and what is assigned to a constant
of the body stands for an inner variable that moved, whose entry has another name, or
that still hides the constant (`KeptAssigns`). That every name is declared is
followed from each kind of line to the place its declaration has come to
(`HeadBefore`, `HoistedBefore`, `BodyBefore`, `OldBefore`, together `NamesBefore`): what is
hoisted stands behind the head, what is separated behind the body's last
declaration, and so before every statement. Conversely, if the function is not harmless, a
parameter's name is declared a second time, or a constant's assignment is in
the result, or half a comment, or half a type, or a name without a declaration before it
(`ParametersFree`, `ConstantsFree`, `CommentsFree`, `TypesFree`, `LateFree`).

Each module is laid out the same way: lemmas on the operators, then one lemma for
each action on the invariant, with shared lemmas for what a push, a pop and a
change of the top frame leave alone, and the theorems at the end.

## What is only model-checked, and what is not modelled

Model-checked only:

- `EveryCallEnds`, since liveness is out of the prover's reach
- `MeaningKept`: what a text means is defined by running it. What such
  a recursion computes for every input needs an induction that the provers cannot
  instantiate. Where it is enough to follow a loop over a list or a tree, as for the
  other properties of the passes, the least turn that would contradict the claim takes its place

Not modelled:

- the erasing of `hgoto`s that share a line (`insert_gotos`): in `Bowknot` each
  statement has a line of its own, and one `hgoto` after it
- which undo depends on which other, so that their order within a cleanup block
  is modelled but has no property
- the value a cleanup block returns (-1, 0, NULL or `IRQ_HANDLED` by type),
  because the caller's next `hgoto` jumps before it is used
- in Pass 1, what is smaller than a line: the text that a shifted renaming replaces
  begins and ends between lines, where it may cut a name in two
- the test of `hecaton_global_check` around the cleanup block, a variable of the
  patched kernel that keeps a function that falls through to its end out of it
- in both pair searches, unary operators as candidates, on which
  `recursive_probable_pair_visit` calls `pair_evaluation` as on calls and assignments
- in the trees of both, loops and calls in the arguments of calls
- in the pair search, the text similarity itself, and the rules for
  `pinctrl_select_state`, `msm_camera_*`, `regulator_set_voltage` and
  `platform_set_drvdata`, none of which the database names
- in the database pass, comparisons: `delete_printks` looks for the text `rc =` and
  finds it in `rc == 0` too
- the address table (`parse_vmlinux.py`): a filter on the text of a disassembly,
  which like the exception handler that reads it is not in the repository
- the scripts, which a user runs by hand in the order of the README, the commands
  for QEMU, and the sample bugs

## What is left

1. `GotoPlacement`: `gotosVisit` and the erasing by line, against the promise
   that a fault in any plain statement meets an `hgoto` before the next one.
2. Loops and nested calls in `IsTree`, and with them unary operators as candidates.
3. The result of `PairSearch` as the `Body` of `Bowknot`: what a wrong pair does
   at run time. The two meet at present only in `Instrument`, whose stamps are
   right by assumption.
4. `AddressTable` and `Deploy`: the table's four passes, and trees, plug-ins and
   table across the scripts, run again and out of order.
