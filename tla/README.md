# A TLA+ model of DuBio's pgbdd

DuBio is a probabilistic database: a PostgreSQL extension, `pgbdd`, whose rows
carry a Boolean expression over *random variable alternatives* (an rva,
`x=1`) as a binary decision diagram, and whose dictionaries give each random
variable a probability distribution.  This directory models the C code of the
extension, checks the models with TLC and proves some of their invariants with
TLAPS.

## 1. The system

| Component | Source | State | Operations | Uses |
|---|---|---|---|---|
| Vector | `vector.h` (macro) | size, capacity, items, in the datum or allocated | add, delete, insert, find, bsearch, quicksort, resize, serialize, relocate | everything below |
| BEE | `utils.c` 262-446 | a finite state machine and a stack of states | `bee_eval`, `bee_eval_raw` | BDD construction |
| Expression scanning | `bdd.c` 279-420 | the sorted vector of rvas, the positions of each in the expression, frame 0 | `compute_rva_order` | Vector, BEE |
| BDD construction | `bdd.c` 247-540, 922-1011 | the node vector, one frame per depth, the C stack | `create_bdd` | the two above |
| BDD operators | `bdd.c` 1018-1310, 1609-1774 | the node vector, the hash table G | not, and, or (by text or by apply), restrict, redundancy removal | construction |
| Equality and equivalence | `bdd.c` 549-912, 1665-1693 | two runtimes, or a table of both trees | `bdd_equal`, `bdd_equiv`, `bdd_fast_equiv` | construction, BEE |
| Probability | `bdd.c` 1442-1537 | none | `bdd_probability` | trees, dictionary |
| Dictionary | `dictionary.c` | vectors of variables and of values, `var_sorted`, `val_deleted` | in, add, del, upd, prepare2store, lookup | Vector |
| Merge | `dictionary.c` 291-374 | two dictionaries and their cursors, the result | `merge`, `+`, `sum` | dictionary |
| References | `dictionary.c` 530-552 | an address in a datum | `dictionary_ref`, prob by reference | dictionary |
| Glue | `pg_*.c`, `pgbdd--0.0.1.sql` | memory contexts of Postgres | SQL functions, operators, aggregates | all |
| HaSQL | `src/HaSQL` | none | rewrites queries to use the extension | SQL only |

All calls are synchronous; one Postgres backend runs one of them at a time.
Inside the extension nothing is concurrent, with one exception: a dictionary
that was not toasted is worked on where it lies, in a page that other backends
read at the same time.  What is hard is this, and:

* a recursion whose calls share one block of frames, overwriting each other's;
* invariants that an operation relies on silently: children stand before
  parents, the root is last, `var_sorted` tells the truth, segments of values
  are disjoint, `val_deleted` counts holes;
* long sequences of SQL calls on one stored value, with refused ones between;
* limits: node numbers, nesting, vector capacities, the limit on holes;
* lifetimes: arguments that are the stored datum, references to freed memory.

`PROJECT.json` lists these hazards with their lines and the properties that
cover them.

What makes each component correct:

* construction: the stored diagram is true in exactly the worlds of the
  expression, reduced, ordered, without garbage; it fails only at the limit;
* scanning: every occurrence of every rva gets the value its rva is given, and
  nothing else does; the scan stays inside the buffers taken before it (the
  terminator does not always, see section 4);
* BEE: it accepts the grammar and computes the left-to-right value, and
  whether it accepts does not depend on the values;
* dictionary: it is a map of distributions under any sequence of calls, each
  all or nothing; its memory stays bounded; a stored one changes only by being
  stored again (violated, see section 4);
* references: one reads as the dictionary it was made of until its transaction
  ends;
* merge: nothing of either side is lost (violated, see section 4); the values
  added stay inside their memory (they do not after a reorganization, see there);
* operators: the meaning of the result is the operator applied to the meanings,
  the result is ordered as its users assume;
* equivalence: both implementations agree with equality of meaning;
* probability: the sum of the probabilities of the worlds of the diagram.

## 2. Modules

**`BddTree`** The data structure of `bdd.h`: nodes, leaves, the last node as the
root, node order, and what a tree means: `NodeValues(t, w)` evaluates every
node in the world `w`, the set of rvas that hold.  `IsReduced`, `IsOrdered` and
`ChildrenEarlier` are the shapes.  Names are numbers in the order of `strcmp`.

**`BddSpec`** The abstract specification of `create_bdd`: one step that either
stores a diagram whose meaning is the expression's, or gives up.  The worlds
are exclusive: a random variable has at most one value.

**`BddBuild`** `create_bdd`, one action per piece of `bdd_build` between
recursive calls: `Evaluate` (all rvas decided), `Descend` (before the low
call), `LowReturned` (between the calls, with `_bctx_skip_samevar`),
`HighReturned` (`bdd_mk`: lookup, or creation with the limit test), `Propagate`
(an error returns through every caller), `StartBuild` and `Finish`.  `stack`
is the C stack, `frame` the block `e_stack`.  The expression's text is
abstracted to its rva order and its truth table `sat`; what a frame holds
before its first write is the constant `Unwritten`.  `AgreesWithCreateBdd` compares
the result with `CreateBdd` of `BddValue`.

**`BeeTable`, `Bee`** The evaluator.  `BeeTable` holds its table `fsm` as the
operators `Fsm`, `ValueBehind` and `Negation`, and `Evaluate`, a whole run as a
function.  `Bee` has one action per iteration of its inner loop and one per case
of the switch.  `Grammar` is the reference, a recursive definition of the
expressions together with their values.

**`RvaScan`** What `create_bdd` does before it builds, composed with `Bee`: one
action per case of `_compute_order` on the next character (`Symbol`,
`Constant`, `TakeRva`, `ScanError`); `TakeRva` makes the binary search and
insertion of `add2rva_order` and links the new position into the chain of its
rva.  Then the checks of `compute_rva_order` (`CountMismatch`, `BadToken`), the
dry run (`DryRun`, `Judge`), the frames with values (`SetValue`) and the
evaluation of the last one (`EvalTop`, `Evaluated`).  Positions, links and
values keep their widths (`LocptrMod`, `IntMod`).  The reference takes the text
apart at its `=` signs instead: before a sign the last name, behind it the value.
`BddBuild` starts from what this module shows of the order and the frames.

**`BddValue`** What the functions of `bdd.c` compute from diagrams, each call in
one go: `CreateBdd` (compared with `BddBuild` by the run `build`), `BddNot`,
`BddRestrict`, `BddApply`, `BddEqual`, `BddContains`, `IsConstant`.  The
recursions thread the growing node vector through their two calls.  Both calls
of `_bdd_restrict` are arguments of one call of `bdd_mk`; C does not say which is
made first, so the model has both orders (`lowFirst`).  `BddApply` keeps its pairs
of nodes in the hash table `G` of the code, buckets and chains included.

**`BddRedundant`** `remove_redundancies`: the edges that pass over tests of a
known variable, the marks kept in the sign of `low`, and the deletion of unused
nodes one by one, each moving the indices behind it.

**`BddText`** `bdd2string` and what `create_bdd` makes of its output: the tokens of
the text for a set of true rvas, evaluated by `BeeTable`, and `ByText`, which is
how the SQL operators `&` and `|` work.  A text may nest deeper than BEE's stack
allows; then it is refused.

**`BddAlgebra`, `BddOps`** `BddOps` is the life of a stored diagram: statements that
store a literal, negate, combine with a literal, or restrict, one action per SQL
function.  `BddAlgebra` is what they mean: operations on the set of worlds in
which the diagram is true.  The invariants of `BddOps` also put `apply` and
`RemoveRedundancies` to every diagram that arises.

**`BddEquiv`** `bdd_fast_equiv` step by step: filling its table row by row
(`LeafRow`, and `OldRva`, `NewValue`, `NewVar` for the cases of
`handle_new_rva`), then one step per permutation of the variables' values.
`bdd_equiv`, the recursion over both orders with an evaluation of both texts at
its end, is the function `TextEquiv`.

**`BddProb`** `bdd_probability_node` and its loop along the values of one variable,
as functions on exact fractions with its errors; a session asks for the
probability between changes of the diagram and of the dictionary.

**`Fraction`, `DictValue`** A dictionary as a value (two vectors, a flag, a
counter) and what the functions of `dictionary.c` compute from it: `VarIndex`
with its two searches, `MoveToTail`, `DropValue`, `Normalize`, `Sort`,
`Reorganize`.  `Sort` is the code's quicksort, pass by pass.  `Layout` is what
the functions rely on and keep: distinct names, `var_sorted` telling the truth,
segments inside the vector and apart, distinct values within one, `val_deleted`
not below the number of holes; a dictionary is `Legal` between definitions when
its variables have values, too.  C doubles become
exact fractions, `NaN` where 0/0 occurs; the tolerance of 0.0001 in
`normalize_var` becomes equality with 1 here, and is put into the dictionaries
that `BddProb` is given.

**`DictMap`** The abstract dictionary: a map from variables to distributions; a
call changes it by a list of definitions as a whole, or fails.  `After` is the map
after so many definitions, a set with one element or, once a definition was not
`Legal`, with none; `Outcome` is what a call returns.  `Dictionary!Map` is the
refinement mapping: `Contents` of the stored dictionary and of the answer.

**`DictCall`** One call of `modify_dictionary` on a working dictionary: one step
per definition of the text (`Add`, `Update`, `DeleteValue`, `DeleteVariable`,
`Refuse`) and `EndText`; `Prepare2Store` packs what it leaves.  `Dictionary` and
`DictSession` both extend it and add where the working dictionary comes from
and what becomes of the result.

**`Dictionary`** `dictionary_in` and `dictionary_modify` over the life of a
stored value, each call on a copy of it: `Call`; the steps of `DictCall`
(`Modify`); then `Return`, which packs and lets the statement store the result or
drop it, or `Abort` for `ereport(ERROR)`.

**`DictSession`** The same calls on the datum itself, in one session with its
transactions: `Modify` starts a call on the version of the row the statement
sees, and the steps of `DictCall` (`Define`) work on that.  A datum has the capacities of its two vectors; whether it is
worked on in place depends on its being toasted (`Inline`).  What the row reads as
in the middle of a call, after a failure or after a dropped result, is `Visible`:
the working dictionary as far as it fits the datum (`Reads`), `Broken` otherwise.
`Return` packs the result as `bdd_dictionary_serialize` does, by copying the datum
or by laying out grown vectors anew.  `MakeRef` and `UseRef` are
`dictionary_ref_create` and `prob` by reference, `Merge` the sorting that
`dictionary_merge` does to its arguments, `Clobbered` another backend relocating the
datum under a call that has outgrown it, `Reload` the loss of a change that no page
was marked for.  Transactions, row versions, toasting and memory contexts are
Postgres's and marked external.

**`DictMerge`** `merge_dictionary`: one action per branch of its loop, with the
capacity of the result's vector; a capacity that is refused, the fatal range
assertion and the addition to a vector of capacity zero are ends of their own.  Its
`TypeOK` is proved, not run.

Each `MC*` module gives the constants their values for TLC.  Definitions whose
comment begins with "Slip:" are plausible mistakes; no specification uses
them, they are the mutated forms that `PROJECT.json` lists.

## 3. What is checked, on which instances, and why they are enough

| Run | Instance | Shows |
|---|---|---|
| `build` | all truth tables over every arrangement of up to 3 rvas among variables; all exclusive-world tables over one variable of 3 values and one of 2; limit 7 nodes | frames are never stale or unwritten when read (`FramesIntact`), the vector is always reduced and ordered, no garbage, each call returns the right function (`CallContract`), the root is last, no two nodes are equal in meaning, failure exactly at the limit, termination, refinement of `BddSpec` |
| `rva_scan` | all texts of up to 3 of 13 characters; all sequences of 5 lexemes, most of 6; 3 occurrences and 4 of six rvas that share names and values; five rvas whose values are too far apart; a value that no long holds; 8 values of an int, 6 of a position, a `LONG_MAX` of 127, names up to 2, nesting limit 3 | the rvas come out sorted and complete, each frame is the text with the values substituted (both where values can be compared), the scan stays inside its buffers and which texts leave no room for the terminator, acceptance and value follow the grammar, the dry run speaks for all evaluations |
| `dictionary` | 3 variables, up to 2 definitions a call, 3 calls, limit of 1 hole | segments stay disjoint, lookups find every variable and value, stored holes are bounded, refinement of `DictMap` |
| `dict_session` | one row with 2 variables, with and without room, toasted or not; 2 modifications of up to 2 definitions | results read as they were made, what a failed or dropped call leaves is a dictionary or does not fit its datum, references are snapshots, nothing but modifying in place, committing and losing a page changes the row |
| `dict_merge` | all pairs of 72 stored dictionaries over 3 variables, with holes and after reorganization, some counting more holes than they have values | the values stay inside their memory, and a capacity of zero or less only comes from holes counted that are gone; the loop yields each variable once and in order; variables of one side keep their distribution, where the code manages it |
| `bdd_ops` | any statements on diagrams over two values of one variable and one of another (all 64 functions), literals over all or one of these; a BEE stack of 5 | every stored diagram is reduced, ordered and free of garbage; `bdd_equal`, `bdd_contains`, `istrue` and `isfalse` decide what they are asked; `apply` has the right value, and removing its redundancies keeps it; refinement of `BddAlgebra` |
| `bdd_equiv` | all pairs of diagrams over the same three rvas, a stack of 8 | the fast test decides equality of meaning; the one by text never claims it wrongly and finds it between diagrams with the same rvas |
| `bdd_prob` | all 4096 diagrams over three values of one variable and two of another, ten dictionaries | probability is the sum over the choices of values; an error means a missing rva or a variable that exceeds 1 |

`build`: three rvas are the least with which all combinations of "same
variable" and "other variable" between neighbours occur; five with two
variables let `_bctx_skip_samevar` skip more than one and a skip be followed by
another; a limit of 7 lies between the smallest and the largest diagram, so
both outcomes occur.  `rva_scan`: three characters give every pair of neighbours
the scanner looks at, with one in front; five lexemes give every pair of
neighbouring tokens inside and outside of parentheses and reach the limit on
nesting; three occurrences of six rvas make chains of one, two and three links
in every order of insertion.  `dictionary`: two definitions let a text return to a
variable, switch variables and fail half-way; three calls let a value be made,
holed beyond the limit, reorganized and used again.  `dict_session`: capacities
double from 2 instead of 4, so that one definition outgrows a vector; with two
modifications the second works on what the first left, and any number of merges,
references, rollbacks and reads may come between.  `bdd_ops` needs one variable
with two values,
for the exclusive worlds, and another one to have three kinds of children; with
the stack of 5 some texts can be read and some cannot.  `bdd_equiv` has a
deeper stack so that most pairs are compared.  In `bdd_prob` three values let the
loop go round twice and end both above another variable and above a leaf; the
dictionaries contain values no diagram tests, zeros, a variable of total zero,
totals just above and below 1, and lack a value, a variable or everything.
`dict_merge` stops at three variables because the cursors compare one pair at a
time; dictionaries that lost a variable of three values give capacities of zero and
below, so that a merge is refused or overruns.

**Bounds.** `MaxCalls` bounds the number of dictionary calls; the sets `Texts`,
`Exprs`, `Literals`, `Rows` and `Dictionaries` are the inputs.  `NodeiMax`,
`MaxValDeleted`, `StackMax`, `MaxRvaName`, `IntMod`, `LongMax` and `LocptrMod` are
the code's own limits `NODEI_MAX`, `MAX_VAL_DELETED`, `BEE_STACKMAX`,
`MAX_RVA_NAME`, the width of `int`, `LONG_MAX` and the width of `locptr`, given small
values; `InlineRoom` is Postgres's limit for toasting.  Four limits are not modelled: `NODEI_MAX` in the operators; the 16
bits of the columns in the table of `bdd_fast_equiv`; the product in `HASH_G`,
which leaves the range of an int for diagrams of some 46341 nodes each; and the 16
bits of a position (bdd.c:334, bdd.h:74) in a text that an operator writes and reads
back.  `RvaScan` has the last one, `BddText!CreateFrom` has not: where the text of `&`
or `|`, a diagram expanded to a tree, exceeds 65536 tokens, the code stores a wrong
diagram without an error, and what `bdd_ops` shows and section 5 proves of the
operators ends there.

**Fairness.** `BddBuild!FairSpec` assumes weak fairness of the next-state
relation: a C call runs until it returns.  The other specifications are checked
for safety only: their calls are loops over finite data, and a session need not go
on.  Deadlock is not checked: a call that has returned is the end of each model.

## 4. Where the code differs from what is said of it

Checked by runs that end in a violation:

* `dict_merge_right`: `merge_dictionary` reads the values of the right
  dictionary at the left one's offsets (dictionary.c:365) and copies the rest
  of the right variables from the left values (347).
* `bdd_restrict`: `restrict` returns a leaf by its index in the argument
  (bdd.c:1615) and tests that index for 0 in the end (1649); TRUE is a single
  leaf at index 0, so any restriction of TRUE is FALSE.  `BddAlgebra` makes an
  exception for it; everything else about restriction holds.
* `bdd_prob_near`: the -1.0 that stands for an error is added to the sum when it
  comes from the last low child (bdd.c:1505).  A total that `normalize_var`
  accepts can make an inner result slightly negative; then `x=1|!(y=1|y=2)` has
  the probability 0 instead of 0.5.  The same happens with an rva that the
  dictionary does not have (`x=1|y=1` without y), and a failure below a high
  edge of probability 0 is lost (1471).
* `dict_session_kept`: `dictionary_modify` "returns new dictionary" and is declared
  immutable, but works on the stored datum unless it was toasted: showing
  `del(dict,'x=1')` deletes from the row that was read, until the page is read
  again from disk.

Known from reading and from these models, without a run of their own:

* `dictionary_prepare2store` (dictionary.c:93-107) removes the holes and leaves
  `val_deleted` as it was.  The counter then over-counts: the dictionary prints a
  wrong, even negative, number of values, every later store reorganizes again,
  and `merge` computes its capacity from it.  It never under-counts, so memory
  stays bounded (`HolesBounded`).
* So the capacity of a merge (dictionary.c:337-341) may be wrong.  A dictionary that
  was reorganized contributes its size less 129 or more.  Where the sum is negative,
  `palloc` refuses it and so the merge of two good dictionaries; where it is exactly
  zero, the vector does not grow (`VECTOR_INCREASE(0)` is 0) and its first value is
  written behind its memory.  `MemorySuffices` says that neither happens between
  dictionaries that count their holes right.
* Merging two empty dictionaries stores a datum with two vectors of capacity zero.  An
  `add` to it writes behind that memory in the same way.  `RowsAssumption` excludes such
  rows.
* `e_stack` holds `strlen(expr)` bytes (bdd.c:390), and the terminator of the base
  frame is written (401) before it is enlarged (404).  An expression without an rva and
  without a blank, as `1` or `(0|1)` or the empty one, fills it, and the terminator goes
  one byte behind the memory.  `WritesBounded` says that exactly these do; the
  model goes on as if that byte belonged to nobody.
* `bdd_equiv` and `bdd_fast_equiv` have the same description and disagree: the one
  by text lets `x=1` be true in one diagram and `x=2` in the other.  `TextDecides`
  says where it can be relied on.
* An expression with more than 65536 characters in its base frame: positions
  wrap; occurrences keep the value 1 without an error, and the values go to other
  tokens.  `FrameSubstituted` has the limit as a condition and fails without it;
  `DryRunSpeaksForAll` has it, too.
* A value that a `long` holds and an `int` does not.  `bdd_atoi` cuts it off
  ("incomplete, can still be too big", utils.c:115; beyond a `long` it is refused),
  and the difference by which the binary search compares (bdd.c:314) may wrap: the
  comparison then runs in circles, an rva that is in the order may not be found, and it is inserted a second time, with a depth
  and a chain of its own.  `OrderSorted` claims the order of all pairs, and
  `FrameSubstituted` anything, only where no difference wraps (`Narrow`).  The
  instance has a text of five such rvas, which violates `OrderSorted` without that
  condition; its frame is longer than the instance's limit of 6, where
  `FrameSubstituted` claims nothing.
* An expression with a `=` too many, `x=1&=`, ends the process (bdd.c:411), where
  every other mistake fails the statement.
* `remove_redundancies` does not restore the reduced form: a node whose children
  have become equal stays.  Its value is right in every world
  (`RedundanciesRemoved`).

Two things hold of the model that a reader of the code may doubt.  `apply` makes
the test of the later rva first (1165), so its results are not ordered, but
their value is right (`ApplyAgrees`); the extension does not call it.  After a
restriction equal functions may have their nodes in another order, and
`bdd_equal` then tells them apart; without one it decides equality of functions
(`EqualDecides`).

## 5. What is proved

Every theorem holds for all values of the constants that satisfy the
assumptions of the modules.  These say what the code's callers and its scanner
guarantee:

| Assumption | Says | Because |
|---|---|---|
| `BddBuild!InputsAssumption` | an input is a strictly ascending rva order and a set of valuations over it | `compute_rva_order` delivers it (`OrderOfRvas`, `FramesAreText`), for values that an `int` holds |
| `BddBuild!NodeiMaxAssumption`, `BeeTable!StackMaxAssumption`, `RvaScan!WidthAssumption`, `DictCall!BoundsAssumption` | limits and widths are positive; two leaves fit; a `locptr` can tell an entry from `LOC_EMPTY` | `bdd.h`, `utils.c`, `dictionary.h` define them so |
| `BddBuild!UnwrittenAssumption` | a frame that was not written holds no truth value | the weakest assumption: the proofs may not use what is there |
| `RvaScan!TextsAssumption` | texts are finite sequences of the characters modelled | the input is a C string |
| `DictCall!TextsAssumption` | a definition has a name, a value, a wildcard or none, and a non-negative fraction | what `scan_var` and `scan_val` let through, and what a probability is; `strtod` (dictionary.c:427) reads negative numbers, infinities and NaN as well and nothing refuses them: such dictionaries are outside of the models |
| `DictCall!MarkersAssumption` | the wildcard and the missing value are no values and differ | `VALUE_WILDCARD` is -9999 and a missing value -1 (dictionary.c:386), values are read from digits |
| `BddOps!LiteralsAssumption` | a literal has a strictly ascending rva order | as for `BddBuild` |
| `DictMerge!DictsAssumption` | the arguments have distinct names, values inside their vector, totals of 1 or NaN, and `var_sorted` tells the truth | a `modify_dictionary` that succeeded and `merge` return such; a call refused half-way in place may leave other totals in the row (`DictSession`), and those are not covered |
| `DictSession!RowsAssumption` | the row holds a legal dictionary that fits its room, which is not zero | an earlier session stored it; that sessions keep it so is a theorem; a stored merge of two empty dictionaries is excluded (section 4) |
| `DictSession!BrokenAssumption`, `NoDictAssumption` (also of `Dictionary`) | the markers for "no dictionary" are no dictionaries | markers of the model |

`NatLemmas` gives induction the form the provers can use: a set of naturals
has a least element.  `Recursion` and `Agreement` derive from it that a function
defined by recursion along a rank exists and is the only one with its equation;
every recursive function the proofs talk about (values of nodes, binary search,
quicksort, gcd, totals, packing) is first brought into that form.

**The construction** (`BddBuildProofs`), for every set of inputs and every limit:

* *Shape.*  `TypeOK` alone is not inductive: that `NextVarDepth` lies within the
  order, that each record on the stack is deeper than the one below, and that
  what a call returns is an index of the vector depend on each other.  `ShapeInv`
  joins it with `StackInv`, `TreeInv` and `PhaseInv` (`TypeCorrect`).
* *Diagram.*  Every value held on the stack or returned is a node whose variable
  comes after the tests still to be made, so that the node `Mk` appends is
  ordered; `Matches` finding nothing makes it new; and its children are just then
  used up by it, which keeps the vector free of orphans (`Reduced`,
  `NothingOrphaned`, `FailsWhenFull`, `RootFound`).
* *Frames* (`FramesKept`).  The frame of a depth is determined by the records
  below it: `PathOf` spells the values decided by the stack, and `FramesInv` says
  that each frame still in use is that path, although deeper calls share the block.
* *Meaning* (`BuildCorrect`).  A node returned at a depth decides the expression
  in the worlds its frame leaves open.  Two lemmas split these worlds at an rva
  (`WorldsLow`, `WorldsHigh`; the second is where the exclusiveness of the values of a
  variable justifies the skip), `MkSays` joins them.
* *Refinement* (`KeepsPromise`).  With the refinement mapping of `BddBuild`, every
  step is a step of `BddSpec` or a stutter.
* *Canonicity* (`DiagramCanonical`).  Two nodes that mean the same are one: a
  least pair of different nodes with one meaning would have children that differ,
  or test different variables, one of them in vain.
* *One recursion, two models* (`BuildIsFunction`).  `BddValue`, on which the models
  of the operators rest, has `bdd_build` as a function that threads the vector through
  its calls; `BddBuild` makes the calls one by one.  They store the same diagram,
  node for node.  When a call on the stack was made, the vector was shorter than it is
  now, and it is not kept.  So `AgreeInv` looks forward: `Returns` lists what the
  open calls are going to return, each determined by what the call it waits for
  returns (`Resumed`), and the outermost by the function.  `Called` and `Ended` say how
  the list grows and shrinks.  That the frame spells the rvas the stack has set to 1
  (`FramesInv`) is what makes `Evaluate` agree.

**The operators** (`BddOpsProofs`), for all literals, restrictions and limits on
nesting, and for any number of statements.  The facts about values, order and
canonicity, and that the equation of `bdd_build` has a solution, are those of
`BddBuildProofs`, of which this module has an instance.

* *Growing vectors.*  `bdd_build`, `_bdd_not` and `_bdd_restrict` are recursions that
  thread the node vector through their calls.  `Grows` says what any of them
  returns: the vector is still a diagram that begins with the two leaves, the
  nodes there were are kept, and of the new ones only the one returned may be
  unused.  `JoinGrows` composes two calls and `bdd_mk`.  With it, `BuildDescends` and
  `RestrictDescends` are the steps of two inductions, over the depth and over
  the node restricted, which also carry the value of the node returned, and
  that it tests nothing before the test it is put under.  Both orders in which C
  may make the calls of `_bdd_restrict` are covered.
* *Well-formedness* (`StoredWellFormed`).  What is stored is `Whole`: such a diagram, or
  a single leaf.  `CreateIs`, `NotIs`, `RestrictIs` and `ReadIs` show that every
  operator returns one; the last two tests of `Stored` are right because a vector of
  two nodes is the two leaves.  `_bdd_not` exchanges the leaves without looking
  at the order of nodes: no two nodes become equal by that (`NotGrows`).
* *Questions* (`QuestionsAnswered`).  A node depends on what it tests, since its
  children mean different things (`TestedMatters`), and on what its children depend
  on and do not test later (`ParentDepends`); every node hangs from the root, so the
  root depends on all tests there are (`RootDepends`).  For `istrue` and
  `isfalse` this is not enough: the worlds that exist give a variable one value
  only, so that a test may matter only in worlds that do not exist.
  `ConstantIs` shows that a reduced and ordered diagram that has an inner node
  takes both values in worlds that do.
* *Texts* (`WholeReads`).  `ReadsAs` says that BEE goes over a text, wherever a
  value may stand, to the state that follows if the text were its value, and that it
  needs so many places of the stack.  The texts of tests read so, and so do the ways
  in which `_bdd2string` joins texts (`NegatedReads`, `ParensRead`, `BetweenReads`),
  the places being the same in all worlds.  So the text of a diagram is read as
  its value in all worlds or refused in all (`JoinedTexts`), which is what
  justifies `create_bdd` deciding by one dry run.
* *Meaning* (`StatementsMean`): every statement is a step of `BddAlgebra`.  Reading a
  text again decides by the worlds over the rvas of both diagrams (`ByTextIs`);
  they give all values, since others are not tested (`UntestedIgnored`).
* *Equality* (`EqualIsDecided`).  That equal functions have equal diagrams up to
  numbering (`DiagramCanonical`) is not enough, since `bdd_equal` compares node by node:
  the numbering has to be the same too.  Take a restriction that fixes nothing:
  it copies a diagram, the low child before the high one.  What it makes of a
  node depends only on what the node means (`CopiesAlike`, by strong
  induction).  `bdd_build` numbers its nodes just so: the diagram it returns is its
  own copy (`Rebuilds`), as is a diagram whose leaves are exchanged
  (`NotCopied`).  So `CanonicalInv`, that what is stored is its own copy until a
  restriction is stored, is inductive together with `WholeInv`, and two
  such diagrams of one function are copies of each other (`CanonicalEqual`).

**The scan and the evaluator** (`RvaScanProofs`), for every set of texts, every
nesting limit and every width of a position:

* One evaluation.  `TypeOK` of `Bee` becomes inductive
  with the facts that `bee_eof` stands at the end of the input and nowhere else,
  and that parentheses open only where a value is awaited
  (`EvaluatorStaysInBounds`).  Of a state the syntax only needs to know whether a
  value is awaited or was read (`Reached`); a *course* is what the syntax goes
  through over the tokens of an input.  Every step of the machine follows the course
  (`ReadFollows`, `SilentStepFollows`), a run without an error leaves one that
  ends in a result (`AcceptedCourse`), no run along such a course finds an error
  (`NoErrorOnCourse`), and inputs that differ only in values share their courses
  (`CourseShared`).  The course is a witness that the invariant carries and
  extends token by token; no recursive definition is needed.
* The scan (`TerminatorDecided`) never writes more than it has read, falls
  behind at the first blank or rva and never before, so that a byte is left for the
  terminator if and only if the text has one of these; each `=` it has read is in the frame or has
  an entry of `rva_epos`, which needs that an rva spans exactly one (`RvaSpan`).
* Both together (`DryRunSuffices`).  Every place kept in `rva_epos` holds the 1
  written for the rva, hence a frame with values differs from the base frame in
  values only.  It holds for frames of at most `LocptrMod` tokens: beyond, a place
  wraps to a token that may be an operator.
* The value (`EvaluatorReadsGrammar`).  Five facts lead from the machine to the
  grammar.  (1) `Runs`: one run of BEE over a range of tokens, from one
  configuration to another, as a witness; `EvaluateRuns` says that `Evaluate` is
  the end of such a run.  (2) Every reading is made: if the grammar reads a range of
  tokens as a unary or an expression with a value, the machine goes from waiting
  to the state of that value (`Parses`), by strong induction on the length; the
  left operand of an operator and the operator decide between them whether the right
  one counts (`OperatorFacts`), which is where the short-circuits are.  (3) Nothing
  else is accepted: `Derived` keeps for each open parenthesis the place where its
  expression began, and that what was read since is an expression, or lacks just a
  unary (`Derives`); so an accepted input is an expression.  (4) The machine has as
  many states on its stack as there are open parentheses, so it is the nesting, and
  only that, which refuses an expression (`NestingDecides`).  (5) The small-step
  machine of `Bee` is at each step a configuration of that run (`Matches`).
* The order (`OrderOfRvas`).  The scan takes an rva at a letter and jumps behind
  its value; the reference starts from the `=` signs.  `ReadInv` says that both
  have read the same so far, hence the rva taken is that of the next sign
  (`TakesNextSign`).  `OrderInv` adds that the order holds the rvas of the signs
  read.  The binary search unfolds to a loop that keeps an interval
  (`SearchUnfolds`, `SearchStops`): it ends beside a neighbour that is before
  and one that is not, which is all that insertion needs to keep neighbours in
  order (`InsertIs`), and it finds what is there if the comparison is transitive
  (`FoundOnce`), which it is where no difference wraps (`BeforeOrders`).
* The frames (`FramesAreText`).  `BaseInv` gives each character that is kept its
  place: the number of those kept up to it.  `LinkInv` says that the entry of an
  rva's last occurrence is the head of its chain, and each entry links to the
  occurrence before.  So the chain of an entry leads to all the occurrences
  of its rva and no other (`ChainIs`), `SetValue` writes there and nowhere else
  (`SetValueGives`), and `GivenInv` carries the values given.  Links hold
  while `LOC_EMPTY` is no entry's number.  That a frame of `LocptrMod` tokens leaves
  it free needs one token that is no rva: a frame of rvas only is refused
  by the dry run unless it is a single one (`EntriesLeaveRoom`, by its course).

**The dictionary**, for every set of texts and every limit on holes:

* `DictValueProofs`: what each function of `dictionary.c` does to any
  dictionary.  Both searches find what there is (`VarIndexFinds`,
  `ValIndexFinds`); a pass of the partition sifts, so quicksort permutes and sorts
  (`QuicksortSortsSegment`); packing moves every segment down without running into
  one it has not moved (`Packing`), leaves no more than it found
  (`ReorganizeShortens`) and every distribution as it was; and every operation
  keeps `Layout`.  Fractions are closed under the sums and quotients made
  (`PlusCloses`, `DividedByCloses`), which needs the gcd to be positive and to divide.
* Its last part is about a call (`DictCall`): `CallInv` says that the working dictionary is legal and `varp`
  points at a variable of it; `CallStep` shows that a definition of any kind, a
  refused one too, keeps it, `PreparedIsStored` that what is packed for storage
  has few holes.
* `DictionaryProofs`: `DictInv` is `CallInv` with the stored value and the answer
  legal; `DictionaryTyped`, `DictionaryApart`, `DictionaryLookups` and
  `DictionaryHoles` follow.  The invariant has to be stronger than these
  properties: moving a segment to the tail keeps lookups right only because the
  segments were apart, and the number of holes is bounded only because
  `val_deleted` never counts too few.
* *Refinement* (`DictionaryIsMap`): every step of `Dictionary` is a step of
  `DictMap` or a stutter.  Three things stand between the two.  The total that
  `normalize_var` divides by adds fractions in the order in which the values lie
  and reduces them at every step; `DictMap` adds them in another order.  Both
  equal the sum over the product of the denominators, reduced once
  (`RawSumsLowest`: reducing may wait, since `Frac` does not depend on common
  factors, `FracScales`), and that sum is the same in any order
  (`RawSumsWithout`, `SumOfList`, so `TotalIsSum`).  `Contents` reads the
  vectors through both searches; each operation changes it as a map is changed, at
  one name (`SetProbPuts`, `AddValuePuts`, `DropValueDrops`, `DropVariableDrops`,
  `NormalizeScales`) or not at all (`SortContents`, `ReorganizeContents`).  And a
  variable is normalized only when the definition of another one, or the end of
  the text, turns up: `MapInv` relates the map to the working dictionary in which
  this has been done (`Ended`), and says that a kept `varp` is the variable of the
  definition before (`MapInvariant`).  A refused definition is one that no map takes
  (`RefusedIllegal`).

**The session** (`DictSessionProofs`), for every row and every room: `SessionInv`
says that the committed and the written version of the row are each a legal
dictionary that lies in its room, or read as none, and that the second happens in
place only; a call that works in place is covered by `CallStep`.  From it follow
`SessionTyped`, `SessionReadable` (a result fits the datum it is copied to:
`ReorganizeShortens` where the argument is copied, `GrownSuffices` where vectors are
laid out anew), `SessionLeavesLegal` and `SessionRefs`.  `SessionChanges` proves the
action property `OnlyModifyChanges`, by the cases of `Next`: what other backends
see is `Visible`, and sorting in place does not change what it contains
(`SortContents`).

**The merge** (`DictMergeProofs`), for any two dictionaries: `Loop` is the invariant
of a merge sort.  The result is in order, has the variables that are done
(`Half`), is below those that are left, has no others (`From`), and copies made
stay copies because iterations only append (`CopiesMade`).  `MergeTyped`,
`MergeComplete` and `MergeKeepsOwn` follow; the last one says where a variable
keeps its distribution, and the error of section 4 is where it does not.  `MergeMemory`
is about the capacity: a vector that is not of capacity zero grows with what is added
(`NextRoom`), and a dictionary that counts its holes right has room of its own for all
its values, so that zero leaves nothing to be added (`ExactRoom`).

**Model-checked only:**

* `Termination`: liveness.
* `ApplyAgrees` and `RedundanciesRemoved` of `BddOps`, about functions the
  extension does not call.
* Everything of `BddEquiv` and `BddProb`: they use RECURSIVE operators, which the
  prover does not support.

## 6. Not modelled

* The limit `NODEI_MAX` in the operators: `restrict` and `apply` pass results to
  `bdd_mk` without a test for `NODEI_NONE`, which takes 2^31 nodes to matter.
  `BddBuild` has the limit for the construction.
* Memory exhaustion: an allocation that fails is an error of Postgres, which
  does not return.
* The scan of dictionary definitions by characters: a malformed one is refused;
  a text that ends in separators calls `memcpy` with a null pointer
  (dictionary.c:391), which has no defined outcome to model.
* Rounding of doubles.  `BddProb` has the tolerance of totals, which is much
  larger.
* Text buffers, printing and the DOT output: they
  format what the modelled functions compute and keep nothing.
* What a call does after another backend has relocated the datum under it
  (`Clobbered`): the code has no defined behaviour from there on.
* Postgres beyond what `DictSession` takes from it, and several sessions that
  modify one row: a session holds the row's lock when it stores, and readers are
  `Visible` at every step.
* The capacity of a diagram's vector: `serialize_bdd` shrinks it to its size, and
  nothing is added to a stored diagram.
* A reader in the middle of a sort: `Merge` and `Return` of `DictSession` sort a shared
  datum, and clear the pointers of one (dictionary.c:88, 113), in one step, so what
  another backend reads between two exchanges is not covered.
* Rows whose vectors have capacity zero, and merging what a call that was refused
  half-way left in the row with totals other than 1.
* HaSQL, a separate program: parsing, printing and syntax-directed rewriting of
  query text without state.
* Tests, benchmarks, examples and the abandoned prototype under `src/Old`.
