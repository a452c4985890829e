# FairCon in TLA+

FairCon takes a Solidity *harness* of an auction or a vote, runs it through a Solidity 0.5
compiler front end, executes it symbolically, turns the paths into one formula, the *mechanism*,
and asks Z3 whether the mechanism is truthful, collusion-free, efficient and optimal. This
directory models that program, checks it with TLC and proves the facts it rests on with TLAPS.
Paths below are relative to `src/src/`, those without a directory to `src/src/solse/`.

## 1. Inventory

| Part | Where | State | Operations | Talks to |
|---|---|---|---|---|
| Program entry | `main.cpp` | options | read the file, `parseAndAnalyze`, start the engine | pipeline, engine |
| Pipeline | `libsolidity/interface/CompilerStack.cpp` | `m_sources`, `m_sourceOrder`, stack state, errors | parse and load imports, order the units, run the passes | all passes |
| Name resolution | `libsolidity/analysis/NameAndTypeResolver.cpp`, `DeclarationContainer.cpp` | `m_scopes`, linearized bases | register, import, linearize, resolve | pipeline |
| Contract-level and mutability checks | `ContractLevelChecker.cpp`, `ViewPureChecker.cpp` in `libsolidity/analysis/` | inferred mutability | one check per contract, one visit per function | pipeline |
| Control-flow graph and analysis | `ControlFlowBuilder.cpp`, `ControlFlowAnalyzer.cpp`, in the same place | graph, node infos, worklists | build a graph, propagate, report | pipeline |
| SMTChecker | `libsolidity/formal/` | SSA indices, path conditions, solver scopes | one visit per function | pipeline, solvers |
| Contract traversal | `SymExecEngine::visit` | initial maps, `funcVec` | one visit per contract, function, variable | driver |
| Driver | `SymExecEngine::symbolicExecution` | `pattern_count`, `g_*`, one Z3 solver | per function: execute, merge, check | all below |
| Path exploration | `SymExecEngine::strongestPostcondition` | a vector of `ContextInfo`, `astNodeVisitMap` | one handler per statement | translator, Z3 |
| L-values | `SymExecEngine::updateContextInfo`, `SolidityExprTranslator` | the Z3 terms in a `ContextInfo` | write, read | exploration |
| Merging | `SymExecEngine::synthesis` | `g_mechanism`, older `g_*` vectors | merge the contexts | verdicts, older checks |
| Verdicts | `Mechanism` | two Z3 solvers, `truthful_flag` | four checks, three invariants | Z3 |
| Scanner, parser, AST; type checker; code generation; command line of solc; scripts | `liblangutil`, `libsolidity`, `libyul`, `libevmasm`, `solc`, `src/scripts` | not modelled, see section 7 | | |

Everything runs in one thread. A call into Z3 blocks until it answers `sat`, `unsat` or
`unknown`. Nothing is persisted. The build keeps `assert`, so a failed one ends the program.

Hard behaviour, and what would make each part correct:

* **Pipeline.** Files import each other, with cycles, before any is analysed; thirteen passes run
  over all units, each behind a gate that some of the earlier ones do not set. *Correct* when
  units are met after what they import, every name means the declaration Solidity says, and the
  engine starts only on a program no pass has complained of.
* **Control flow.** The worklists are sets of pointers, so nodes are visited in an arbitrary
  order. *Correct* when the verdict depends on the function alone: what is reported happens in
  an execution, what is called unreachable is not reachable.
* **SMTChecker.** One pass over a function must speak for all its executions: branches are
  merged by index, loops forget what they touch. *Correct* when no failing execution is missed.
* **Exploration.** Control flow of the contract (break, continue, return, revert) travels as data
  (`goHead`, `abnormalTerminationCode`) with each path through handlers that recurse over
  statements, loops and calls; variables are named after the call depth of the current function.
  *Correct* when each path is the run of the contract on every input that satisfies its condition,
  no input is on two paths, and inputs are lost only where the engine decides a path as a whole.
* **L-values.** A write deep in a struct or mapping rebuilds the term of the whole variable from
  what its enclosing terms happen to look like. *Correct* when a read gets what Solidity stores.
* **Merging.** *Correct* when each input gets the outcome of its own path, whatever the order.
* **Verdicts and older checks.** Push/add/check/pop rounds share a solver, and a Z3 exception may
  interrupt any of them. *Correct* when each request gets one verdict, the verdict is the truth
  about the declared mechanism, and nothing of one check is left for the next.

The hazards in the code, each with its line and the properties that would notice it, are in
`PROJECT.json`.

## 2. Modules

| Module | Models | Checked by | Proved in |
|---|---|---|---|
| `Resolver` | registration, imports, names and paths, C3 linearization, inherited members | `frontend` | |
| `ContractLevel` | overrides, abstract functions, mutability of functions and modifiers | `frontend` | |
| `CompilerStack` | `main`, loading, ordering, passes and gates, start of the engine | `frontend` | `CompilerStack_proofs` |
| `FlowBuilder` | the graph of a function, with modifiers | `flow` | |
| `ControlFlow` | the two analyses on a graph | `flow`, `missed` | `ControlFlow_proofs` |
| `FlowPaths` | specification: what executions of a function do, without a graph | `flow` | |
| `SmtChecker` | the checker, and concrete runs of the contract as its specification | `smt` | |
| `SolAst` | AST, names and expressions shared by the next two | | |
| `SymExec` | `strongestPostcondition`, identifier translation, initial context | `paths` | `SymExec_proofs` |
| `SolidityRun` | specification: the run of the contract on ONE input | `follows` | |
| `SymExecRun` | refinement mapping from `SymExec` to `SolidityRun` | `follows` | `SymExecRun_proofs` |
| `Lvalues` | assignments to mapping elements, fields and tuples, beside Solidity's store | `lvalues` | |
| `Synthesis` | merging of `g_mechanism` | `synthesis` | `Synthesis_proofs` |
| `TopBids` | the ite chains TopBidder, TopBid, SecBid | by the next two | |
| `Ranking` | the loop that builds them, a bidder at a time | `ranking` | `Ranking_proofs` |
| `Mechanism` | `Mechanism::check` and all its checks | `verdicts`, `collusion` | `Mechanism_proofs` |
| `OlderChecks` | the driver's loop over functions, the older globals, patterns and checks | `older` | `OlderChecks_proofs` |
| `MCContract` | the contract of `paths` and `follows` (15 functions) | | |
| other `MC*` | instances for TLC | | |

How they compose. `CompilerStack` extends `ContractLevel` extends `Resolver`: their operators are
the passes it runs. `MCControlFlow` builds the graphs `ControlFlow` analyses with `FlowBuilder`,
and compares with `FlowPaths`. `Synthesis` assumes that no input is on two paths
(`ResultsAssumption`), which is theorem `PathsDisjoint` of `SymExec_proofs`. `Mechanism` takes any
allocation, price and precondition, such as the ones `Synthesis` computes, and evaluates
`TopBids`, whose loop `Ranking` runs step by step. `OlderChecks` takes for each function whether
its mechanism gave a report.

### State and actions

*Symbolic values.* In the engine's modules a Z3 expression is the function from the inputs
(assignments of the Z3 constants) to its value, a path condition the set of inputs that satisfy
it. "Satisfiable" is then "not empty". That Z3 may answer `unknown` instead is modelled in
`Mechanism` (`GivesUp`), in `OlderChecks` (`GivenUp`, and `lost` and `unsure` in `Patterns`: all
seven queries are `z3::sat == slv.check()`, so `unknown` is taken for `unsat`) and in
`SmtChecker` (`quits`). Only the exploration is exact: `checkSatisfiability` and `checkValidity`
(`SymExecEngine.cpp:2985-3010`) end the program on `unknown`. Z3's integers are unbounded, so arithmetic does not wrap in the engine's model either.
Only `Lvalues` keeps terms, since the code looks at their shape.

*`CompilerStack`.* `project` is the disk and the argument of `main`; a file is its import
directives and contracts, and, for passes whose rules are not modelled, the list of passes that
object to it (`flaws`) or give up on it (`fatal`). `sources`, `order`, `scopes`, `linear`,
`errors` are the members of the stack and of the resolver; `toParse` is the list `parse` iterates
over, `pass` and `pos` the place in `analyze`, `ok` its `noErrors`. A step parses one file,
orders the units, or runs one pass on one unit.

*`ControlFlow`.* `flow` is a graph whose nodes carry what a traversal adds to or takes from the
unassigned variables; a step traverses one node of the worklist, any of them. The two stages
are the two loops of `ControlFlowAnalyzer`. `FlowBuilder` is a fold over the statements, as
`ControlFlowBuilder` is; `FlowPaths` runs the statements themselves, each condition free.

*`SmtChecker`.* `b` is the checker: SSA index of every variable, path conditions, assertions of
the solver as the set of valuations of the free symbols that satisfy them, pending overflow
targets. A step is one statement of the root function, what it inlines included, or the end of
the function, where the targets are checked.

*`SymExec`.* `ctxs` is the vector of contexts. No handler looks at two contexts, so their order
does not matter there and the recursion of the C++ code is kept per context, as a continuation
`k`: the statements still to run and, between them, marks for what a handler does after the
statements it has dispatched (`cont`: reset `CONTINUE` after a loop body; `brk`: reset `BREAK`
after the recursive call for the next iteration; `ret`: epilogue of a call). A step is one
handler on one context. `state`, `local`, `goHead`, `code`, `scope`, `depth`, `pc` are the fields
of `ContextInfo` (`stateVarValueZ3ExprMap`, `localVarValueZ3ExprMap`, `goHead`,
`abnormalTerminationCode`, `funcScope`, `funcCallDepthMap`, `pathCondition`); `decls` lists what
the `declare_*` calls recorded. `astNodeVisitMap` of a loop is the number of its `brk` marks below
the statement. `aborted` is a failed assertion or a full stack.

*`Lvalues`.* `terms` are the two value maps, `stores` what Solidity has for each initial store,
`refers` where storage pointers point. A step is one assignment or declaration on both sides.

*`Synthesis`.* `contexts` is what the exploration returned, `g` the outcome of `g_mechanism`, and
a step merges one more path.

*`Mechanism`.* `scopes` is the solver's assertion stack; an assertion is a label whose meaning is
a set of worlds (bids, valuations and mirrored bids of all bidders). `stage`, `i`, `kind` and
`phase` say where in the loops of `check_property` and `check_invariant` the program is; each of
`Push`, `Probe` (the first `solver.check()`), `Refute` (the second) and `Pop` is one call of the
code. A Z3 exception or an `at()` out of range is `crashed`.

*`OlderChecks`.* `stage` is the place in `symbolicExecution` (execute, synthesize, mechanism,
patterns, choice of `current_ctx`, the four loops), `g` the globals, `slv` the solver's scopes. At
every query Z3 may give up or throw. After an exception the loop goes on with the next request;
efficiency and optimality leave their scope on the solver. Out of the queries about patterns and
of the choice an exception ends the program. The histories `undecided` and `thrown` say where
either happened.

Operators marked `Fault:` are plausible mistakes in the definition after them. They are used in no
behaviour; `PROJECT.json` lists which property notices each.

## 3. What TLC checks

| Run | Question | Instance | Distinct states |
|---|---|---|---|
| `frontend` | Does the engine start only on a clean program, with names, order and bases as Solidity has them? | 985 projects of up to 3 files | 21 000 |
| `flow` | Are reports real, complete and independent of the order of the worklist? | 308 functions | 68 000 |
| `smt` | Is every failing run warned about, and every warning (without loops) a run? | 4093 contracts, values 0..2 | 45 000 |
| `paths` | Are paths disjoint, signals local, frames balanced, bounded functions executed to their end? | 8 entry functions, 9 inputs | 5 000 |
| `follows` | Is each path a run? (refinement) | 5 entries, 9 inputs | 36 000 |
| `lvalues` | Does a read get what Solidity stores? | 3 statements out of 48, 2 stores | 29 000 |
| `synthesis` | Has each input the outcome of its path? | up to 3 paths, 3 inputs | 3 500 |
| `ranking` | Does the loop end at the first maximum? | up to 4 amounts in 0..3 | 1 600 |
| `verdicts` | Are verdicts right, complete and independent? | 11 mechanisms, 2 bidders, amounts 0..2 | 9 600 |
| `older` | Are the older checks right, also when Z3 gives up or throws? | 331 programs of one or two functions | 370 000 |

`collusion` and `missed` end in a counterexample; section 5 explains them.

**frontend.** The projects are built from files that import each other in every way three files
can (whole units, single symbols, renamed ones, cycles, missing files, relative paths that step
up, one file under two names), and from single files that vary the bases, overloads, overrides,
modifiers and the passes that object. `OrderRight`: in `m_sourceOrder` a unit comes after those it
imports, cycles apart. `ScopesRight`: without cycles a unit's scope is what its declarations and imports
give when unfolded. `RightFile`: a relative import names the file beside the importing one.
`LinearRight`: a linearization is a C3 linearization, stated by its defining conditions.
`DeclarationsKept`: an accepted function that promises `view` or `pure` does nothing more when it is
run in any contract that has it, with calls bound to what overrides them there (`Executed`); the two
ways around the check are left out (`ByModifier`, section 5).
`NoErrorLeft` and `NothingEscapes` together: when `main` calls the engine, no error was recorded,
and every pass has seen every unit. `Terminates`: cycles do not keep `parse` busy.

**flow.** A function has a declaration of a storage pointer, one of 14 middles and one of 5 ends;
others return, carry modifiers, or start behind a statement nothing is propagated through.
`Settled` is the fixpoint the first search promises. `Connected`: the other two have seen exactly
what is reachable from the entry, and backwards from the ends, and the report of unreachable code
is the difference. `AlarmsReal` and `MissedOnlyAsleep` compare the reports with `FlowPaths`, which
never builds a graph: a report happens, and what is missed is either in an assignment to the very
pointer (`own`) or due to a node never traversed that leaves that pointer unassigned (section 5).
TLC takes the nodes in every order. `Terminates` is the end of the analysis in any order.

**smt.** All sequences of one to three out of sixteen statements, followed by calls of functions that
write the state, recurse or loop; in some the solver gives up. The specification in
`MCSmtChecker` runs the same functions on concrete values. `FailuresFound`: an assertion or a
division that fails in a run is warned about. `OverflowsFound`: so is arithmetic that leaves the
type. `AlarmsReal`: without loops, external calls and a silent solver, each warning has such a run.
`ConstantsRight`: a condition called always true or false is. `CrashesExplained`: the internal
error of `mergeVariables` needs a compound assignment below a branch. `TypeOK` there says that
after each statement scopes, path conditions and the stack of callers are those of the function,
and every index in use has a value. Values 0..2 have an inside and both edges; `Symbols = 4` bounds the unknown values of a
function and is never exceeded (`TypeOK`).

**paths.** `TypeOK`; `DisjointPaths`; `SignalsStayInLoop` (a context halted by continue next meets
the end of a loop body, one halted by break the end of a loop, never that of a function first);
`FramesMatch` (call depth of every function and the scope agree with the calls on the
continuation). The functions are chosen so that the cases meet: loops in loops with `break` inside
`while` inside `for`, a return out of two loops into a caller, recursion of depth two, a callee
whose last statement reverts, the declarations and loops that a second activation cannot execute,
and a loop that never ends, which `StackLimit = 40` (of continuation items) cuts off. 3 x 3 values
of two constants give every branch and every loop exit both outcomes.
`Completes`, the liveness property of the same run, says that the entries (`Bounded`) whose loop
bounds no input can move end, without a failed assertion and within the stack.

**follows.** `FollowsRun` is `SolidityRun!RunSpec` under the mapping of `SymExecRun`: the context
that covers an input, evaluated at it, is the run on that input. `SolidityRun` owns the notion of
an activation, initialises a `for` loop when it is entered, resumes nothing after a revert, and
may give an input up at a loop exit and at an assert only. Locals of a new activation may start
with any value, as the engine gives them a fresh constant. `MaxDepth = 3` bounds nested
activations; the entries reach two. Entries that recurse over state variables or re-enter a loop
are left out: the code does not follow their runs (section 5).
`MCNoRecursion` has TLC evaluate the hypothesis of the theorem `PathsAreRuns` for every entry but
`total`, which recurses over locals.

**lvalues.** `Agrees`: in two initial stores that differ everywhere, each term has the sort of its
variable and the value Solidity has stored. `Supported`: no earlier write leaves a term on which a
later, supported statement trips. Both promise this while `clear` holds, a history variable that two
kinds of statement end (section 5): one that takes a field from the wrong place of a term, decided
by the shape of the term (`Mistaken`), and a tuple that gives another store when it is written from the left with
each index read in turn, decided on Solidity's side alone (`InAnyOrder`). The instance has both, in all
positions: structs copied from elements and from fields, tuples with an index on the left that the
tuple writes; `clear` holds in 21 000 of the 29 000 states. Three statements are enough to write below something, write
above it, and read; two keys, one of them a variable, give equal and different indices.

**synthesis, ranking.** The instances enumerate every way to put three inputs on at most three
paths (or on none), with one or two utilities per path and with the type missing, and every
profile of one to four amounts: all orders and all ties.

**verdicts.** `Balanced`: at the head of the loop the solver holds the declarations and, once
truthfulness is known, that bids are valuations. `VerdictsRight`: a printed verdict equals the
answer found by enumerating all profiles, independently of the solver. `EachAnswered`: when
truthful bidding is possible, with a utility for each of two bidders or more, each requested check
gets one verdict and no other. The mechanisms include ties won by either
bidder, a mechanism with one fixed winner, a posted price, one that only covers some of the bids,
assumptions that exclude truthful bids, one bidder, none, no type and no utility. The requests
are all sequences of at most two checks, the four together and an unknown one, with all sequences
of up to two invariants. Three amounts suffice for below, equal and above.

**older.** One function of six auctions, chosen so that every two choices in them agree and differ, or two of seventeen functions with one directive each,
with paths that declare less, more or nothing, that nothing satisfies, or that are not there;
with `-symexe` and with `-symexe-main`. At every query Z3 may decide, give up or throw.
`ViolationsReal`: a violation printed for the first function happens on its paths.
`NothingMissed`: what is printed as fine is fine on every input the paths cover. Three excuses are
stated exactly: Z3 gave up on this very query (`Unknown`); for efficiency and optimality, one of these two loops
of the same function has thrown and left a scope (`Leaked`); a path of a later function leaves
the compared utility undeclared (`Untainted`; two of the functions make that happen).
`PatternsRight`: a pattern of the first function is printed as holding when each path declares it and it holds on
each, unless Z3 gave up on a path that declares it. `Clean`: truth and collusion always start from
an empty solver, efficiency and optimality unless one of their loops has thrown for this function.

`FollowsRun` would hold of an engine that stops half way, and `VerdictsRight` of a check that never
answers; `Completes`, `Terminates` and `EachAnswered` rule that out.

*Fairness.* One thread runs the program, and a step it can take is taken: weak fairness of the
whole next-state relation, `WF_vars(Next)`. Which path or which node is next is the program's
choice, so no single action gets fairness. `CompilerStack` writes the same condition out with its
final stages in place of ENABLED, whose evaluation is slow there.

`CHECK_DEADLOCK FALSE` appears in `ranking` alone: the loop over the bidders is done when it is
done. The other modules stutter in their final states.

## 4. What is proved

All proofs are for every value of the constants, from the modules' named assumptions.

* **`SymExec_proofs!TypeCorrect`**: `Spec => []TypeOK`, from `AstAssumption`, `WellFormed`,
  `EntriesAssumption`. Every handler keeps the shape of `ContextInfo`, and `goHead` and the
  termination code agree. One lemma per helper (`Touch`, `Update`, `Bind`, the pushes on the
  continuation), one step per handler.
* **`SymExec_proofs!PathsDisjoint`**: `Spec => []DisjointPaths`. The inductive step is
  that the successors of a context have path conditions inside its own and disjoint from each
  other; contexts of different origin stay apart because path conditions only shrink.
* **`SymExec_proofs!FramesCorrect`** and **`SignalsCorrect`**: `Spec => []FramesMatch` and
  `Spec => []SignalsStayInLoop`. Both look at the item the handler has in front of it; what makes
  them inductive, `Framed`, says the same of the whole continuation: at each end of a call the
  function below it is the one to return to, each mark of a loop body lies above the mark of its
  loop, and a statement that may break or continue lies above a loop body. One lemma per way a
  handler changes the continuation (push, pop, unwind), in terms of suffixes. It rests on
  `BreaksInLoops`: a `break` or `continue` stands inside a loop, which the front end has checked
  before the engine runs (`libsolidity/analysis/SyntaxChecker.cpp:162-194`).
* **`SymExecRun_proofs!PathsAreRuns`**: `RSpec /\ NoRecursion(entry) => FollowsRun`, the refinement of
  `SolidityRun` by `SymExecRun`, for every contract, any inputs and any `MaxDepth`. A step of the
  context that covers the probed input is a step of the run or the end of it where the run may end
  (`StepMoves`, one lemma per handler); the steps of all other contexts leave it alone
  (`StepSilent`), and as paths are disjoint no second context covers the input (`MovesOnward`).
  `NoRecursion` gives each statement a height and each function a level which fall from a statement
  to the blocks in it and from a call to the callee. `Stacked` says that the continuation keeps
  them: what is to be done before the end of a call is below the callee, what is to be done before
  the end of a loop is below the loop or is the loop statement itself (so that a `for` statement
  initialises when it is entered and at no other time). With `Framed` it follows that no function is
  active twice (`OneDeep`), and then every name the engine uses is the cell of the run (`StoreView`).
  It rests on `LocalsAssumption` (parameters, return parameter and locals belong to their function),
  which the front end's resolver and syntax establish. The hypothesis is needed: under recursion over state variables the code
  does not follow its runs (section 5); the run `follows` checks, besides entries without, a
  recursion over locals.
* **`Synthesis_proofs!MergeIsFaithful`**, with **`TypeCorrect`**: `Spec => []OutcomeOfItsPath`, any
  number of paths. The property speaks of the end of the loop; the invariant says after `index` paths that
  `preCond` is the union of those paths and that each of their inputs has its path's outcome. A
  later ite changes no earlier input because the paths are disjoint.
* **`Ranking_proofs!TopIsFirstMaximum`**: `Spec => [](TypeOK /\ FirstMaximum)`. The invariant is
  the property for the prefix of `j` bidders, with the first bidder as the initial maximum.
* **`Mechanism_proofs!ChecksLeaveNothing`**: `Spec => []Balanced`, whatever Z3 answers. The
  invariant tracks the stack depth per phase (`DepthOK`) and, in `BaseOK`, that the bottom
  scope is the declarations plus what is known, where a verdict of the current round is still in
  `truthful_flag` only (`BeforeLeak`, `FlagFresh`). TLC checked it before it was proved.
* **`Mechanism_proofs!EveryCheckAnswered`**: `~GivesUp => (Spec => []EachAnswered)`. The invariant
  says which rounds are past (`Past`, `Reached`) and that each of them has its verdict
  (`AnswersOK`), on top of `RoundOK`: a round that is under way is one of the requested, and asserts
  the kind that was requested. A check never gives up because a truthful profile is a
  model of everything the checks assume.
* **`Mechanism_proofs!VerdictsAreAnswers`**: `~GivesUp => (Spec => []VerdictsRight)`. From `BaseOK`
  the worlds the second query is satisfied in are those of the declared profiles, or of the
  truthful ones, that break the property (`QueryModels`); for each kind there is such a world
  exactly when the enumeration finds a counterexample (`TruthfulnessQuery`, `CollusionQuery`,
  `EfficiencyQuery`, `PriceQuery`). The last two need what the ite chains of `Ranked` amount to
  after all bidders, the first maximum (`RankedTop`).
  `~GivesUp` is the hypothesis that Z3 decides: an `unknown` is printed as "True" (section 5).
* **`OlderChecks_proofs!TypeCorrect`** and **`SolverIsFresh`**: `Spec => []Clean`. An exception
  leaves a scope on the solver only in the loops of efficiency and optimality, together with the
  mark of the function and loop it happened in; every other check returns the solver as it got it,
  and the next function gets a new one.
* **`OlderChecks_proofs!ReportedIsViolated`**, **`FineIsFine`**, **`PatternsAreCounted`**:
  `Spec => []ViolationsReal`, `[]NothingMissed`, `[]PatternsRight`, from `HarnessAssumption` (the
  directives are integer expressions over the inputs, no input is on two paths of a function, which
  is `PathsDisjoint`). Nothing is assumed of Z3: it may give up or throw at any query, and what the
  theorems do not promise then is in the statements (`Unknown`, `Leaked`). An answer of a query that
  Z3 gave up on is marked in `undecided` in the same step, so an unmarked answer "fine" is one of an
  empty query. The invariant `DInv` says that after the merge each global has room for what
  every path declares and equals the declared value wherever a path declares one, and everywhere
  when no function ran before (`Holds`); that the requests are those of the first path that happens
  (`CurOK`); and what the counts mean (`CountsOK`). A query on the globals is then a query on the
  paths (`LieQuery`, `LossQuery`). That the folds over directives and paths compute this is proved
  by induction on the number of elements (`AfterOK`, `MergedAll`, `CountedAll`). TLC checked `DInv`
  first.
* **`ControlFlow_proofs!TraversedIsSettled`** and **`SearchIsComplete`**: for every graph and every
  order. A node once traversed is queued again whenever something new arrives at its entry; so
  what it had is with its exits unless it is queued. The invariant of the searches (`Exploring`):
  where a search starts is seen or queued, so is what a seen node leads to, and nothing else is
  (all of it is in `Reachable`). With an empty queue what is seen is closed, and `Reachable` is the least such
  set (`ReachableLeast`); that it is closed itself is a count: each round that finds something adds
  a node, and there are as many rounds as nodes (`ReachableClosed`), which is why the graphs of
  `FlowsAssumption` are finite. Both theorems rest on `TypeCorrect` in the same module.
* **`CompilerStack_proofs!AcceptedIsClean`**: `Spec => []NoErrorLeft`, for every project. The
  invariant relates `ok`, the pass and the errors: an error of a gated pass either ends the
  analysis or is remembered in `ok` until the end.
* **`CompilerStack_proofs!NothingIsMissed`**, with **`TypeCorrect`**: `Spec => []NothingEscapes`.
  `ExaminedOK` says that, while there is no error, each unit behind the current place is cleared of
  what the passes behind the current place look for; the last place is behind all of them, and by
  `AcceptedIsClean` there is no error there. A pass that clears a unit clears it for good, because
  later passes only add linearizations (`ClearedStays`).
* **`CompilerStack_proofs!OrderIsTopological`**: `Spec => []OrderRight`, for every import graph with
  any cycles. `Loaded` says that exactly what `main` leads to is loaded, and that an import of a
  parsed unit is loaded too. The search is by calls, so its specification `Finds` is proved by
  induction on the number of units not seen yet: called for a unit that every unit still being
  searched (`Open`) leads to, it returns with the unit seen, the same units open, and an order in which
  each import stands before its unit or leads back to it (`Sound`).
* **`CompilerStack_proofs!LinearizationIsRight`**: `Spec => []LinearRight`, for any hierarchy over
  any files. The loop of `cThreeMerge` keeps `MergeOK`: what is left of each list is a suffix of it
  without anything taken, and the result keeps the order of each list. It is stuck only when every
  head stands in some other tail: then the heads are a set without a first element, and no order
  exists. `LineOK` carries this over to the contracts: each linearization is what the merge makes of those
  of its bases, which were there before it and do not change.
* **`CompilerStack_proofs!ImportsAreBeside`**: `Spec => []RightFile`, for paths of any length.
  `absolutePath` leaves a path without dots of its own as it is, and takes the steps of the import
  as `canonical` would as long as there is a component to step up from (`NormalClimb`,
  `ClimbIsCanonical`), which the condition on the number of `..` guarantees.
* **`CompilerStack_proofs!ScopesAreRight`**: `Spec => []ScopesRight`, for any files and imports,
  whole, by symbol or renamed. Both halves of `ImportedOK` are kept for the units behind the pass.
  `NoMore`: a unit has nothing that `Seen` has not given it after as many rounds as nodes were
  handled so far (`Handled`, counted as one unit is gone through in `Counts`), since each node costs
  one round. `NoLess`: it has its declarations and what its imports that came before it pass on.
  `OrderIsTopological`'s invariant puts every import before its unit unless it leads back, so outside
  cycles `NoLess` gives all of `Seen`, by induction on the rounds.
* **`CompilerStack_proofs!MutabilityIsKept`**: `Spec => []DeclarationsKept`, for any hierarchy. The
  checker compares a body with the functions it names, never with what overrides them. What makes
  that enough: a linearization begins with its contract and holds the linearizations of all in it
  (in `LineOK`), so what overrides a function in a contract below stands before it in one chain, and
  `IllegalOverride` and `Duplicates` leave it the same mutability (`OverridingIs`). With
  `MutabilityOK`, that the pass found nothing in any contract, the functions and modifiers that keep
  within the declaration (`Tame`) are closed under calls and modifiers, and what is executed is the
  least such set (`ExecutedTame`). The attempt found that `ByModifier` has to count what the modifier
  calls: one that reads `msg.value` and calls a non-payable function passes in an internal view function.

These rest on `PathsAssumption`, `ProjectsAssumption` and `MembersAssumption`: paths, the nodes of a
file, the bases and the members of a contract are sequences, modifiers carry no modifiers, a pass
whose rules are not modelled complains under its own name, and the paths of loaded files are among
those `m_sources` may have as keys.

The library's induction theorems take an operator as a parameter and cannot be used here. Loops
written as a recursive function (`Ranked`) or as a fold (`After`, `MergedInto`) are reasoned about
with sets instead: a set with 0 and, with each number, the next contains all of `Nat`
(`NatSetInduction`, from the well-foundedness of `<`). That gives that the recursive function
exists (`LoopExists`, `FoldExists`) and what holds of each of its values (`LoopLeads`).
The recursive calls of `toposort` and the rounds of `Seen` and `Reachable` are handled the same way (`RoundsExist`).

Only model-checked: `FollowsRun` of entries that recurse, `Agrees`, `Supported`, `AlarmsReal`, `MissedOnlyAsleep` and all
properties of `smt`. `Lvalues`, `SmtChecker`, `FlowBuilder`, `FlowPaths` and the specifications in the `MC` modules use RECURSIVE
operators, which the prover cannot use. Liveness (`Completes`, `Terminates`) is out of its reach as
well.

## 5. Where the code and its documentation differ

Two differences have a run that ends in a counterexample.

| Run | The code | What is said of it |
|---|---|---|
| `collusion` | After a positive truthfulness verdict collusion is vacuously "True". | `src/README.md:133`: "collusion-free" |
| `missed` | An exit is queued only when something new is propagated to it, so with nothing unassigned at a node its successors are never traversed and accesses there are not reported. | `libsolidity/analysis/ControlFlowAnalyzer.cpp:72-74`: "until all paths have been walked" |

Others are stated as properties that the modules keep; adding one as an `INVARIANT` to the
configuration shows the counterexample. Where a row says "without", it is an excuse in a checked
property: taken out, the property fails in the run's own configuration.

| Property, configuration | The code | What is said of it |
|---|---|---|
| `SymExec!LocalMapIsLocal`, `MCPaths` with `Entries <- MCRecursive` | A state variable used in a second activation becomes a local of that activation; updates are lost. | `SolidityExprTranslator.cpp:202` takes a name found in the local map for a local variable. |
| `Ranking!SecondHighest`, `MCRanking` | `SecBid` is compared with the `TopBid` just raised, so it ends at the highest bid. | `src/README.md:144`: "2nd-Price" |
| `Mechanism!InvariantsAnswered`, `MCVerdicts` | `check_invariant` pushes once and pops three times: exception after the first check. | `src/README.md:142-145` offers three invariants. |
| `Mechanism!DeviationsAllowed`, `MCVerdicts` | The deviating bid need not satisfy the assumptions, nor lie on a path. | `src/README.md:85` |
| `Mechanism!CollusionFromTruth`, `MCVerdicts` | The profile printed as "truthful" is one with both bids untruthful. | the output of `mechanism.cpp:163` |
| `Mechanism!TrueIsProved`, `MCVerdicts` with `GivesUp = TRUE` | `unknown` is printed as "True". | `SymExecEngine.cpp:3006` treats it as an error. |
| `OlderChecks!NothingMissed` and `PatternsRight` without `~Unknown(..)`, `MCOlderChecks` | `unknown` is taken for `unsat` (`SymExecEngine.cpp:385, 391, 423, 512, 600, 647, 701`): a violation is printed as fine, a broken pattern as holding. | `SymExecEngine.cpp:3006` treats it as an error. |
| `Lvalues!Agrees` and `Supported` without `clear`, `MCLvalues` | A field of a struct that is a select or projection is the argument at its position: after `c = a[0]` with two fields, `c.1` is the array and `c.2` the index, with three the assert stops the engine (`SolidityExprTranslator.cpp:673-677`, `SymExecEngine.cpp:2914-2919`). | Solidity's meaning of fields |
| `Lvalues!Agrees` without `clear`, `MCLvalues` | The components of a tuple are written one by one and an index on the left is read when its component is written (`SymExecEngine.cpp:1957-1960`): `(x, m[x]) = (1, 0)` writes `m[1]`; of a place written twice the last value stays. | Solidity reads all places first and assigns from the right |
| `MCControlFlow!MissedOnlyAsleep` without `o \in flow.own`, `MCControlFlow` | The left side of an assignment is visited first (`libsolidity/ast/AST_accept.h:636-644`) and recorded as assigned before the right side's accesses: `p = p` with `p` unassigned is not reported. | the right side is evaluated first |
| `Lvalues!Agrees`, `MCLvalues` with `Statements <- MCAliases` | A storage pointer gets a copy of the struct's term; neither sees the other's writes. | Solidity's reference semantics |

The comments at `mechanism.h:24-26` number checks and invariants differently from `src/README.md`
and from the code; the model follows the code.

Met while modelling, where the properties keep out of the way (their definitions say so):

* `m[a][b] = e` for a mapping of mappings stores the inner array under the name of the outer one
  (`SymExecEngine.cpp:2822-2826`).
* The older checks read the globals an earlier function left, and a request that a path does not
  make has the default of the merged expression on it: the value an earlier function left, if there
  is one. A low utility left there hides the gain of a lie: `NothingMissed` without `Untainted` is
  violated in `MCOlderChecks`. The proof attempt of `NothingMissed` showed it.
* In an import cycle, which declarations are seen depends on the names of the files. A path with
  dots before its `..`, or with more `..` than components, loses the wrong component
  (`libdevcore/CommonIO.cpp:131`); one file under two paths is two units with two contracts.
* `ViewPureChecker` looks up the modifier named at the invocation: a function that writes through
  an overriding modifier passes as `view`. Of a modifier only the highest report is kept, and
  `msg.value` is the highest: in an internal `view` function it hides that the modifier writes or
  calls what writes.
* `registerDeclarations` returns true after an error, and `findDuplicateDefinitions` reports only
  the clashes with the first definition; `NoErrorLeft` holds because the pass that follows sees
  the error list.
* `SMTChecker` runs only under `pragma experimental SMTChecker`. It does not forget state that an
  external call or a callee in a branch or a loop changes; a divisor is assumed non-zero on all
  branches (`libsolidity/formal/SMTChecker.cpp:895`); a do-while is merged with the values before the
  loop; `break` and `continue` are ignored; a return does not end the function; the value of a
  recursive call is free; a compound assignment in a branch trips the assertion of
  `mergeVariables` (`:1321`); `++` is not wrapped; after a `for` loop some values are undefined,
  which gives alarms. `FailuresFound` and `AlarmsReal` are about contracts without these
  (`Followed`, `Straight` in `MCSmtChecker`).

## 6. Abstractions

* Names, files, types and values are members of small sets; text, formatting and locations are
  left out. The AST is given; nested expressions of `SymExec` are flattened, casts dropped.
* Passes of the pipeline whose rules are not modelled (`flaws`, `fatal`) may report anything on
  any unit: the gates and the order are modelled, not the rules.
* In `SmtChecker` variables are unsigned integers of one width; in `Lvalues` keys and fields are
  integers.
* Bidders are positions, so `declare_bidder` ids are distinct as `check_property` asserts.
* `OlderChecks` takes the paths of a function as given, with the directives in the order the
  path executes them.

## 7. Not modelled

* **Scanner, parser, AST** (`liblangutil`, `libsolidity/parsing`, `libsolidity/ast`), **type system
  and type checker** (`Types.cpp`, `TypeChecker.cpp`): sequential functions from text to tree and
  from tree to verdict, one case per syntactic form. They keep no state between units and their
  correctness is agreement with the Solidity language, case by case; a model would repeat the cases.
  `SolAst!WellFormed` states what the engine relies on.
* **Code generation and assembler** (`libsolidity/codegen`, `libevmasm`, `libyul`,
  `libsolidity/interface` outputs) and the **command line of solc** (`solc/`): linked into the
  program, never called, since `main` stops after the analysis. They are most of the source.
* **Scripts** (`src/scripts`): run the program on a dataset.
* Of the modelled parts: `transfer`, `send`, `balance` and the other member calls, members of
  `msg`, `block`, `address`; `z3::optimize` queries and the tables printed with them; base
  constructor arguments and library rules of the contract-level checks; arrays, conversions and
  uninterpreted functions of the SMTChecker and the encodings for the solvers; scopes inside a
  function body in name resolution.

## 8. Plan

1. *(done)* Exploration, refinement to runs, merging, verdicts, first proofs.
2. *(done)* The driver's loop and the older checks; l-values; control-flow analysis with its
   specification; the pipeline with name resolution and contract-level checks; SMTChecker.
3. Composition: contexts of `SymExec` as the paths of `OlderChecks` and `Synthesis`, including
   the bidders and requests of the first path only.
4. Parameter naming for helpers called in a recursion; for loops re-entered by recursion;
   default values of locals.
5. *(done)* Proofs of `SignalsStayInLoop`, `FramesMatch`, `VerdictsRight`, `EachAnswered`, of the
   older checks, and of the pipeline: `TypeOK`, `OrderRight`, `RightFile`, `ScopesRight`,
   `LinearRight`, `NothingEscapes`, `DeclarationsKept`; of the refinement `FollowsRun` without recursion.
