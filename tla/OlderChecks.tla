---------------------------- MODULE OlderChecks -----------------------------
(***************************************************************************)
(* SymExecEngine::symbolicExecution: the loop over the functions of a      *)
(* harness.  Each one is executed, its paths are merged into the globals   *)
(* g_*, the mechanism is examined, and if that gives no report the older   *)
(* sse_* directives are: outcome patterns on every path, then truth,       *)
(* collusion, efficiency and optimality on the merged expressions.         *)
(*                                                                         *)
(* An expression is a function of the input, a formula the set of inputs   *)
(* that satisfy it, and a scope of the solver the set of inputs its        *)
(* assertions leave.  Every query is compared with z3::sat: when Z3 gives  *)
(* up, its unknown is taken for unsat.  That makes a difference only to a  *)
(* query that can be satisfied.                                            *)
(***************************************************************************)
EXTENDS Integers, Sequences, SequencesExt

CONSTANTS
    Inputs,              \* assignments of the Z3 constants
    Functions,           \* what may be executed: a name, whether the mechanism reports, paths
    Programs,            \* [main |-> onlyExecuteMain, funcs |-> funcVec], funcs by name
    Keys, Bidders,       \* what is registered under, and who is asked about
    Honest(_),           \* the inputs where these bidders bid their values
    Deviations(_, _)     \* what an input becomes when they do not

VARIABLES
    program,    \* funcVec and onlyExecuteMain
    fn,         \* the function the loop is at
    stage,      \* where symbolicExecution stands
    g,          \* g_utilities, g_collude_utilities, g_benefits, ...
    patterns,   \* pattern_count
    cur,        \* current_ctx: the path the checks are read from
    index,      \* i: the check in hand
    slv,        \* scopes of the solver of the checks
    answers,    \* what has been printed
    thrown,     \* checks, of which functions, that a z3::exception has interrupted
    undecided   \* history: satisfiable queries that Z3 answered with unknown

vars == <<program, fn, stage, g, patterns, cur, index, slv, answers, thrown, undecided>>

-----------------------------------------------------------------------------
(* The directives.  A path keeps each one in the list of its name; a       *)
(* registration keeps the first value that its key gets.                   *)
Utility     == "sse_utility"
Truthful    == "sse_truthful_violate_check"
Collusion   == "sse_collusion_violate_check"
Efficient   == "sse_efficient_violate_check"
Optimal     == "sse_optimal_violate_check"
Expectation == "sse_efficient_expectation_register"
Payment     == "sse_optimal_payment_register"
Postcond    == "sse_validate_outcome_postcondition"

Lists     == {Utility, Truthful, Collusion, Efficient, Optimal}
Registers == {Expectation, Payment, Postcond}

Register(op) == IF op = Efficient THEN Expectation ELSE Payment

\* The calls of the sse_* functions, and the paths that make them.
Directives == [op : Lists \cup Registers, e : [Inputs -> Int],
               key : Keys, who : SUBSET Bidders]
Path == [pc : SUBSET Inputs, does : Seq(Directives)]

\* No input is on two paths of a function: theorem PathsDisjoint of SymExec_proofs.
ASSUME HarnessAssumption ==
    /\ Programs \subseteq [main : BOOLEAN, funcs : Seq(DOMAIN Functions)]
    /\ \A f \in DOMAIN Functions : LET paths == Functions[f].paths IN
           /\ paths \in Seq(Path)
           /\ \A k, l \in DOMAIN paths : k # l => paths[k].pc \cap paths[l].pc = {}
    /\ \A who \in SUBSET Bidders, w \in Inputs : Deviations(who, w) \subseteq Inputs

Blank(pc) == [pc |-> pc, ok |-> TRUE, done |-> [op \in Lists |-> <<>>],
              reg |-> [op \in Registers |-> <<>>]]

Entered(r, d)  == [key \in DOMAIN r \cup {d.key} |-> IF key \in DOMAIN r THEN r[key] ELSE d.e]
Insert(c, d)   == [c EXCEPT !.reg[d.op] = Entered(@, d)]

\* A check whose key is not registered trips an assert.
Directive(c, d) ==
    IF d.op \in Registers THEN Insert(c, d)
    ELSE IF d.op \in {Efficient, Optimal} /\ d.key \notin DOMAIN c.reg[Register(d.op)]
    THEN [c EXCEPT !.ok = FALSE]
    ELSE [c EXCEPT !.done[d.op] = Append(@, d)]

After(path) == FoldLeft(Directive, Blank(path.pc), path.does)

\* What strongestPostcondition returns for each function, and for the one in hand.
Contexts(paths)     == [k \in DOMAIN paths |-> After(paths[k])]
ContextsOf(harness) == [f \in DOMAIN harness |-> Contexts(harness[f].paths)]
Executed == ContextsOf(Functions)
Function == Functions[program.funcs[fn]]
contexts == Executed[program.funcs[fn]]

-----------------------------------------------------------------------------
(* synthesis: what it appends to the globals it never clears, and how the  *)
(* paths are then merged from the front of each vector.                    *)
Ite(p, e, old) == [w \in Inputs |-> IF w \in p THEN e[w] ELSE old[w]]
Zero           == [w \in Inputs |-> 0]

Exprs(c, op) == [j \in DOMAIN c.done[op] |-> c.done[op][j].e]
Optionals(c, op) ==
    [j \in DOMAIN c.done[op] |-> c.reg[Register(op)][c.done[op][j].key]]

Of(c, name) == CASE name = "utilities"         -> Exprs(c, Utility)
                 [] name = "collude_utilities" -> Exprs(c, Collusion)
                 [] name = "benefits"          -> Exprs(c, Efficient)
                 [] name = "optional_benefits" -> Optionals(c, Efficient)
                 [] name = "payments"          -> Exprs(c, Optimal)
                 [] OTHER                      -> Optionals(c, Optimal)

Globals == {"utilities", "collude_utilities", "benefits", "optional_benefits",
            "payments", "optional_payments"}

\* Fault: only the first path is merged in.
FirstPathOnly(name, old, cs) ==
    [j \in DOMAIN old |-> IF j \in DOMAIN Of(cs[1], name)
                          THEN Ite(cs[1].pc, Of(cs[1], name)[j], old[j]) ELSE old[j]]

MergedInto(name, old, cs) ==
    FoldLeft(LAMBDA v, c : [j \in DOMAIN v |->
                 IF j \in DOMAIN Of(c, name) THEN Ite(c.pc, Of(c, name)[j], v[j]) ELSE v[j]],
             old, cs)

Extended(name) == g[name] \o [j \in DOMAIN Of(contexts[1], name) |-> Zero]

Overrun(name) ==
    \E k \in DOMAIN contexts : Len(Of(contexts[k], name)) > Len(Extended(name))

-----------------------------------------------------------------------------
(* The loop over the functions.                                            *)
Goto(s) == stage' = s

Init ==
    /\ program \in Programs
    /\ fn = 1 /\ stage = "execute"
    /\ g = [name \in Globals |-> <<>>]
    /\ patterns = <<>> /\ cur = 0 /\ index = 1 /\ slv = <<>>
    /\ answers = {} /\ thrown = {} /\ undecided = {}

Skip ==
    /\ stage = "execute" /\ fn \in DOMAIN program.funcs
    /\ program.main /\ Function.name # "main"
    /\ fn' = fn + 1
    /\ UNCHANGED <<program, stage, g, patterns, cur, index, slv, answers, thrown, undecided>>

Execute ==
    /\ stage = "execute" /\ fn \in DOMAIN program.funcs
    /\ program.main => Function.name = "main"
    /\ IF \E k \in DOMAIN contexts : ~contexts[k].ok THEN Goto("aborted") ELSE Goto("merge")
    /\ UNCHANGED <<program, fn, g, patterns, cur, index, slv, answers, thrown, undecided>>

\* contexts[0] has to exist, and no path may have more of anything than the
\* vectors hold: what happens otherwise is undefined.
Synthesis ==
    /\ stage = "merge"
    /\ IF contexts = <<>> THEN Goto("undefined") /\ UNCHANGED g
       ELSE IF \E name \in Globals : Overrun(name) THEN Goto("undefined") /\ UNCHANGED g
       ELSE /\ g' = [name \in Globals |-> MergedInto(name, Extended(name), contexts)]
            /\ Goto("mechanism")
    /\ UNCHANGED <<program, fn, patterns, cur, index, slv, answers, thrown, undecided>>

\* g_mechanism.check() with a report ends symbolicExecution.
Examine ==
    /\ stage = "mechanism"
    /\ Goto(IF Function.reports THEN "end" ELSE "patterns")
    /\ UNCHANGED <<program, fn, g, patterns, cur, index, slv, answers, thrown, undecided>>

-----------------------------------------------------------------------------
(* Outcome patterns: one up for a path on which the condition is valid,    *)
(* one down for one on which it is not.                                    *)
Valid(c, desc) == \A w \in c.pc : c.reg[Postcond][desc][w] = 1

\* What Z3 lets the loop see of a path: whether it happens, and which of its
\* patterns it keeps.  lost: paths with an unknown instead of a model; unsure:
\* patterns of a path with an unknown instead of a counterexample.
Heard(k, lost, unsure) ==
    [sat  |-> contexts[k].pc # {} /\ k \notin lost,
     kept |-> [desc \in DOMAIN contexts[k].reg[Postcond] |->
                  Valid(contexts[k], desc) \/ <<k, desc>> \in unsure]]

\* Fault: a violation is not counted.
CountUp(count, h) ==
    [desc \in DOMAIN count \cup DOMAIN h.kept |->
        (IF desc \in DOMAIN count THEN count[desc] ELSE 0) +
        (IF desc \notin DOMAIN h.kept THEN 0 ELSE 1)]

Count(count, h) ==
    [desc \in DOMAIN count \cup DOMAIN h.kept |->
        (IF desc \in DOMAIN count THEN count[desc] ELSE 0) +
        (IF desc \notin DOMAIN h.kept THEN 0 ELSE IF h.kept[desc] THEN 1 ELSE -1)]

\* The paths that happen, and what they declare and do not keep.
Feasible == {k \in DOMAIN contexts : contexts[k].pc # {}}
Broken   == UNION {{<<k, desc>> : desc \in {d \in DOMAIN contexts[k].reg[Postcond] :
                                                ~Valid(contexts[k], d)}} : k \in Feasible}

Unheard(lost, unsure) == {o[2] : o \in unsure}
                         \cup UNION {DOMAIN contexts[k].reg[Postcond] : k \in lost}

Patterns ==
    /\ stage = "patterns"
    /\ IF DOMAIN contexts[1].reg[Postcond] = {} THEN UNCHANGED <<patterns, undecided>>
       ELSE \E lost \in SUBSET Feasible, unsure \in SUBSET Broken :
            /\ patterns' = FoldLeft(LAMBDA n, h : IF h.sat THEN Count(n, h) ELSE n, patterns,
                                    [k \in DOMAIN contexts |-> Heard(k, lost, unsure)])
            /\ undecided' = undecided \cup
                   {[fn |-> fn, op |-> Postcond, i |-> desc] : desc \in Unheard(lost, unsure)}
    /\ Goto("choose")
    /\ UNCHANGED <<program, fn, g, cur, index, slv, answers, thrown>>

\* The checks are read from the first path that Z3 has a model of; the path
\* condition is not given to their solver.
Choose ==
    /\ stage = "choose"
    /\ \/ \E k \in Feasible : cur' = k /\ Goto(Truthful)
       \/ Goto("report") /\ UNCHANGED cur
    /\ index' = 1 /\ slv' = <<>>
    /\ UNCHANGED <<program, fn, g, patterns, answers, thrown, undecided>>

\* Nothing catches an exception out of these queries.
Uncaught ==
    /\ \/ stage = "patterns" /\ DOMAIN contexts[1].reg[Postcond] # {}
       \/ stage = "choose"
    /\ Goto("aborted")
    /\ UNCHANGED <<program, fn, g, patterns, cur, index, slv, answers, thrown, undecided>>

-----------------------------------------------------------------------------
(* The checks on the merged expressions.  An answer names the function,    *)
(* the index of the request and the bidders asked about; bad: it is        *)
(* reported as violated.                                                   *)
Requests(op) == contexts[cur].done[op]
Request      == Requests(stage)[index]
Allowed      == {w \in Inputs : \A k \in DOMAIN slv : w \in slv[k]}
Answer(bad)  == answers' = answers \cup
                    {[fn |-> fn, op |-> stage, i |-> index, who |-> Request.who, bad |-> bad]}

\* Z3 decides the query, or gives up on one that can be satisfied.
Decided(query) ==
    /\ Answer(Allowed \cap query # {})
    /\ UNCHANGED undecided
GivenUp(query) ==
    /\ Allowed \cap query # {}
    /\ Answer(FALSE)
    /\ undecided' = undecided \cup {[fn |-> fn, op |-> stage, i |-> index]}

Following == [op \in {Truthful, Collusion, Efficient, Optimal} |->
                 IF op = Truthful THEN Collusion
                 ELSE IF op = Collusion THEN Efficient
                 ELSE IF op = Efficient THEN Optimal ELSE "report"]

\* Fault: the loops count from -1.
LeaveEarly == Goto(Following[stage]) /\ index' = 0

\* Fault: an answer does not advance the loop.
Stay == UNCHANGED <<index, stage>>

Leave == Goto(Following[stage]) /\ index' = 1
Step  == index' = index + 1 /\ UNCHANGED stage

NoMore ==
    /\ stage \in DOMAIN Following /\ index > Len(Requests(stage))
    /\ Leave
    /\ UNCHANGED <<program, fn, g, patterns, cur, slv, answers, thrown, undecided>>

\* Fault: all four checks pop in front of the catch.
KeptByAll(scope) == Append(slv, scope)

\* The scopes when the catch is left: truth and collusion pop after it, the
\* others before it, where an exception does not pass.
Kept(scope) == IF stage \in {Truthful, Collusion} THEN slv ELSE Append(slv, scope)

Interrupt(scope) == /\ thrown' = thrown \cup {<<fn, stage>>}
                    /\ slv' = Kept(scope)

\* Truth and collusion: can lying pay a bidder (or two) who is honest?
Lied(op) == IF op = Truthful THEN "utilities" ELSE "collude_utilities"
Merged1  == g[Lied(stage)]

\* Fault: that the bidder is honest is not asserted.
Envious == {w \in Inputs :
                \E v \in Deviations(Request.who, w) :
                    Merged1[index][w] < Merged1[index][v]}

Tempted == {w \in Inputs \cap Honest(Request.who) :
                \E v \in Deviations(Request.who, w) :
                    Merged1[index][w] < Merged1[index][v]}

\* What throws is a query, or a look at its model when the answer is printed.
Deviate ==
    /\ stage \in {Truthful, Collusion} /\ index \in DOMAIN Requests(stage)
    /\ IF index \notin DOMAIN Merged1
       THEN Goto("undefined") /\ UNCHANGED <<index, slv, answers, thrown, undecided>>
       ELSE /\ Step
            /\ \/ /\ Decided(Tempted) \/ GivenUp(Tempted)
                  /\ UNCHANGED <<slv, thrown>> \/ Interrupt(Tempted)
               \/ Interrupt(Tempted) /\ UNCHANGED <<answers, undecided>>
    /\ UNCHANGED <<program, fn, g, patterns, cur>>

\* Efficiency and optimality: is there an outcome that gives more?  The loop
\* over the other expressions compares the same two again.
Names == IF stage = Efficient THEN <<"benefits", "optional_benefits">>
                              ELSE <<"payments", "optional_payments">>
Better(i) == {w \in Inputs : g[Names[1]][i][w] < g[Names[2]][i][w]}

Worse == Better(index) \cup UNION {Better(index) : j \in (index + 1)..Len(g[Names[2]])}

\* Where the path itself does not give the registered value.
Differs == {w \in Inputs : Request.e[w] # contexts[cur].reg[Register(stage)][Request.key][w]}

\* A violation ends the loop over the requests.
Compare ==
    /\ stage \in {Efficient, Optimal} /\ index \in DOMAIN Requests(stage)
    /\ \/ Allowed \cap Worse # {} /\ Decided(Worse) /\ Leave
       \/ Allowed \cap Worse = {} /\ Decided(Worse) /\ Step
       \/ GivenUp(Worse) /\ Step
    /\ UNCHANGED <<program, fn, g, patterns, cur, slv, thrown>>

\* An exception out of the first query, out of the model of a violation, or
\* out of the second query when the first one found none.
CompareInterrupted ==
    /\ stage \in {Efficient, Optimal} /\ index \in DOMAIN Requests(stage)
    /\ Step
    /\ \/ Interrupt(Worse) /\ UNCHANGED answers
       \/ Allowed \cap Worse # {} /\ Answer(TRUE) /\ Interrupt(Worse)
       \/ Interrupt(Differs) /\ UNCHANGED answers
    /\ UNCHANGED <<program, fn, g, patterns, cur, undecided>>

Report ==
    /\ stage = "report"
    /\ answers' = answers \cup
           {[fn |-> fn, op |-> Postcond, i |-> desc, who |-> {},
             bad |-> patterns[desc] # Len(contexts)] : desc \in DOMAIN patterns}
    /\ fn' = fn + 1 /\ Goto("execute")
    /\ UNCHANGED <<program, g, patterns, cur, index, slv, thrown, undecided>>

Finish ==
    /\ stage = "execute" /\ fn \notin DOMAIN program.funcs
    /\ Goto("end")
    /\ UNCHANGED <<program, fn, g, patterns, cur, index, slv, answers, thrown, undecided>>

Over == stage \in {"end", "undefined", "aborted"} /\ UNCHANGED vars

Next == \/ Skip \/ Execute \/ Synthesis \/ Examine \/ Patterns \/ Choose \/ Uncaught
        \/ NoMore \/ Deviate \/ Compare \/ CompareInterrupted
        \/ Report \/ Finish \/ Over

Spec     == Init /\ [][Next]_vars
FairSpec == Spec /\ WF_vars(Next)

-----------------------------------------------------------------------------
(* What the paths of a function say of an input, whatever was merged: the  *)
(* value its path declares, and 0 when it reverts.                         *)
Paths(f)   == Executed[program.funcs[f]]
OnPaths(f) == UNION {Paths(f)[k].pc : k \in DOMAIN Paths(f)}

Declared(f, name, i, w) ==
    LET ks == {k \in DOMAIN Paths(f) : w \in Paths(f)[k].pc /\ i \in DOMAIN Of(Paths(f)[k], name)}
    IN  IF ks = {} THEN 0 ELSE Of(Paths(f)[CHOOSE k \in ks : TRUE], name)[i][w]

Violated(f, op, i, who, among) ==
    LET Pays(name) == \E w \in among \cap Honest(who) :
                          \E v \in among \cap Deviations(who, w) :
                              Declared(f, name, i, w) < Declared(f, name, i, v)
        Loses(less, more) == \E w \in among : Declared(f, less, i, w) < Declared(f, more, i, w)
    IN  CASE op = Truthful  -> Pays("utilities")
          [] op = Collusion -> Pays("collude_utilities")
          [] op = Efficient -> Loses("benefits", "optional_benefits")
          [] op = Optimal   -> Loses("payments", "optional_payments")

\* The functions executed before this one leave their globals behind.
First(f) == \A e \in 1..(f - 1) : program.main /\ Functions[program.funcs[e]].name # "main"

(* A violation reported for the first function is one: an input its paths  *)
(* cover (or, for the gain of a lie, may revert) bears it out, also when   *)
(* an exception left scopes on the solver, and although the solver is not  *)
(* given the path conditions.                                              *)
ViolationsReal ==
    \A a \in answers : a.op # Postcond /\ a.bad /\ First(a.fn) =>
        Violated(a.fn, a.op, a.i, a.who, Inputs)

\* On a path that does not declare the utility that is compared, a later
\* function has the one an earlier function left.
Untainted(f, op, i) ==
    \/ First(f) \/ op \in {Efficient, Optimal}
    \/ \A k \in DOMAIN Paths(f) : Paths(f)[k].pc # {} => i \in DOMAIN Of(Paths(f)[k], Lied(op))

\* Z3 had to decide this, and gave up.
Unknown(f, op, i) == [fn |-> f, op |-> op, i |-> i] \in undecided

\* An exception that leaves a scope on the solver of this function.
Leaked(f) == <<f, Efficient>> \in thrown \/ <<f, Optimal>> \in thrown

(* What is reported to be fine is fine on every input that the paths of    *)
(* the function cover, unless Z3 gave up on this very query or, for        *)
(* efficiency and optimality, an exception in one of these two loops is    *)
(* reported with it; what an earlier function left in the globals cannot   *)
(* hide a violation where each path declares what is compared.             *)
NothingMissed ==
    \A a \in answers :
        /\ a.op # Postcond /\ ~a.bad
        /\ ~Unknown(a.fn, a.op, a.i) /\ Untainted(a.fn, a.op, a.i)
        /\ a.op \in {Efficient, Optimal} => ~Leaked(a.fn)
        => ~Violated(a.fn, a.op, a.i, a.who, OnPaths(a.fn))

(* The patterns printed as satisfiable for the first function are the ones *)
(* that each of its paths declares and that hold on each, except where Z3  *)
(* has given up on a path that declares the pattern.                       *)
PatternsRight ==
    \A a \in answers :
        a.op = Postcond /\ First(a.fn) /\ ~Unknown(a.fn, Postcond, a.i) =>
            (~a.bad <=> \A k \in DOMAIN Paths(a.fn) :
                            /\ Paths(a.fn)[k].pc # {}
                            /\ a.i \in DOMAIN Paths(a.fn)[k].reg[Postcond]
                            /\ Valid(Paths(a.fn)[k], a.i))

(* The truth and collusion checks always start from an empty solver, what  *)
(* ever the checks before them have thrown; the others do so unless one of *)
(* their own loops has thrown for the same function.                       *)
Clean == /\ stage \in {Truthful, Collusion} => slv = <<>>
         /\ stage \in {Efficient, Optimal} /\ ~Leaked(fn) => slv = <<>>

(* The loop comes to an end, whatever the solver answers or throws.        *)
Terminates == <>(stage \in {"end", "undefined", "aborted"})

(* Type invariant of the control state and of the solver: a check is in    *)
(* hand only with a path to read it from.                                  *)
Stages == {"execute", "merge", "mechanism", "patterns", "choose", "report",
           "end", "undefined", "aborted"} \cup DOMAIN Following

TypeOK ==
    /\ program \in Programs
    /\ fn \in Nat \ {0}
    /\ stage \in Stages
    /\ index \in Nat \ {0}
    /\ stage \in DOMAIN Following => cur \in DOMAIN contexts
    /\ slv \in Seq(SUBSET Inputs)
    /\ thrown \subseteq Nat \X DOMAIN Following
    /\ \A u \in undecided : u.fn \in Nat /\ u.op \in {Postcond} \cup DOMAIN Following
=============================================================================
