----------------------------- MODULE SmtChecker -----------------------------
(***************************************************************************)
(* SMTChecker of the compiler front end: each function of a contract is    *)
(* executed once over symbolic values, branches are merged, loops forget   *)
(* what they touch, and calls of the contract's own functions are inlined. *)
(*                                                                         *)
(* The solver is the set of valuations of the free symbols that satisfy    *)
(* its assertions.  A definition (newValue(x) == e, expr == e) gives its   *)
(* symbol the values of e, so that only unknown values are free; what a    *)
(* pop of the solver undefines is free from then on, and has no type.      *)
(* Variables are unsigned integers 0..MaxValue; the free symbols range     *)
(* over one value more at either end, for those without a type.            *)
(***************************************************************************)
EXTENDS Integers, Sequences, SequencesExt, TLC

CONSTANTS
    Contracts,   \* [state |-> variables, funcs |-> functions in their order]
    MaxValue,    \* the maximum of the type
    Symbols      \* bound: free symbols one function may use

VARIABLES
    contract,    \* the contract analysed, and whether the solver gives up
    fn,          \* the root function
    pos,         \* its next statement, 0 before it is entered
    b,           \* the checker
    reports      \* warnings: root function, kind, statement

vars == <<contract, fn, pos, b, reports>>

-----------------------------------------------------------------------------
(* Statements carry an id where a warning may point at them.               *)
Num(n)        == [op |-> "num", n |-> n]
Var(v)        == [op |-> "var", v |-> v]
Arith(op, l, r)  == [op |-> op, l |-> l, r |-> r]
Compare(op, l, r) == [op |-> op, l |-> l, r |-> r]

Assign(id, v, e)   == [kind |-> "assign", id |-> id, v |-> v, e |-> e]
Inc(id, v, by)     == [kind |-> "inc", id |-> id, v |-> v, by |-> by]
Compound(id, v)    == [kind |-> "compound", id |-> id, v |-> v]
If(id, c, t, f)    == [kind |-> "if", id |-> id, c |-> c, t |-> t, f |-> f]
While(id, c, body) == [kind |-> "while", id |-> id, c |-> c, body |-> body]
Do(id, c, body)    == [kind |-> "do", id |-> id, c |-> c, body |-> body]
For(id, c, step, body) == [kind |-> "for", id |-> id, c |-> c, step |-> step, body |-> body]
Require(id, c)     == [kind |-> "require", id |-> id, c |-> c]
Assert_(id, c)     == [kind |-> "assert", id |-> id, c |-> c]
Call(id, v, f, args) == [kind |-> "call", id |-> id, v |-> v, f |-> f, args |-> args]
External           == [kind |-> "external"]
Return(e)          == [kind |-> "return", e |-> e]

FunctionOf(f) == contract.funcs[SelectInSeq(contract.funcs, LAMBDA g : g.name = f)]
Locals(f)     == ToSet(f.params) \cup ToSet(f.locals) \cup ToSet(f.returns)

-----------------------------------------------------------------------------
(* Valuations, coded as numbers with one digit for each symbol.            *)
Base       == MaxValue + 3
Power      == [k \in 0..Symbols |-> IF k = 0 THEN 1 ELSE Base ^ k]
Valuations == 0..(Power[Symbols] - 1)
Symbol(k)  == [w \in Valuations |-> ((w \div Power[k - 1]) % Base) - 1]
Typed(x)   == {w \in Valuations : x[w] \in 0..MaxValue}

\* SSA: each variable has a current index, and one that has not been used.
NewValue(c, v, x) == [c EXCEPT !.index[v] = c.next[v], !.next[v] = @ + 1,
                               !.val = (<<v, c.next[v]>> :> x) @@ @]

Assume(c, S) == [c EXCEPT !.asserted[Len(c.asserted)] = @ \cap S]
Path(c)      == IF c.path = <<>> THEN Valuations ELSE Last(c.path)
Possible(c)  == Last(c.asserted)

\* newValue and setUnknownValue.
Unknown(c, v) ==
    LET d == NewValue(c, v, Symbol(c.free))
    IN  [Assume(d, Typed(Symbol(c.free))) EXCEPT !.free = @ + 1]

ResetVariables(c, vs) == FoldLeft(Unknown, c, SetToSeq(vs))

-----------------------------------------------------------------------------
(* Expressions.                                                            *)
Value(c, e) == IF e.op = "num" THEN [w \in Valuations |-> e.n] ELSE c.val[e.v, c.index[e.v]]

Raw(c, e) ==
    IF e.op \in {"num", "var"} THEN Value(c, e)
    ELSE LET l == Value(c, e.l)
             r == Value(c, e.r)
         IN  CASE e.op = "add" -> [w \in Valuations |-> l[w] + r[w]]
               [] e.op = "sub" -> [w \in Valuations |-> l[w] - r[w]]
               [] e.op = "div" -> [w \in Valuations |-> IF r[w] = 0 THEN 0 ELSE l[w] \div r[w]]

\* Out of range a result is taken modulo the size of the type.
Wrapped(e, x) ==
    IF e.op \in {"num", "var"} THEN x
    ELSE [w \in Valuations |-> IF x[w] \in 0..MaxValue THEN x[w] ELSE x[w] % (MaxValue + 1)]

RECURSIVE Holds(_, _)
Holds(c, e) ==
    CASE e.op = "and" -> Holds(c, e.l) \cap Holds(c, e.r)
      [] e.op = "or"  -> Holds(c, e.l) \cup Holds(c, e.r)
      [] e.op = "lt"  -> LET l == Value(c, e.l) r == Value(c, e.r) IN {w \in Valuations : l[w] < r[w]}
      [] e.op = "eq"  -> LET l == Value(c, e.l) r == Value(c, e.r) IN {w \in Valuations : l[w] = r[w]}
      [] e.op = "ne"  -> LET l == Value(c, e.l) r == Value(c, e.r) IN {w \in Valuations : l[w] # r[w]}

-----------------------------------------------------------------------------
(* Queries.                                                                *)
Report(c, kind, id) == [c EXCEPT !.found = @ \cup {<<kind, id>>}]

\* The portfolio answers what a solver that does not give up answers.
Answer(c, S) == IF c.gaveup THEN "unknown" ELSE IF Possible(c) \cap S = {} THEN "unsat" ELSE "sat"

\* Fault: the query leaves out the path to the statement.
CheckAnywhere(c, S, kind, id) == IF Answer(c, S) = "unsat" THEN c ELSE Report(c, kind, id)

\* checkCondition: unknown is reported too.
CheckCondition(c, S, kind, id) ==
    IF Answer(c, Path(c) \cap S) = "unsat" THEN c ELSE Report(c, kind, id)

\* checkBooleanNotConstant, in the root function only.
CheckNotConstant(c, S, id) ==
    LET yes == Answer(c, Path(c) \cap S)
        no  == Answer(c, Path(c) \ S)
    IN  IF Len(c.callers) # 1 \/ yes = "unknown" \/ {yes, no} = {"sat"} THEN c
        ELSE Report(c, IF yes = "sat" THEN "always true"
                       ELSE IF no = "sat" THEN "always false" ELSE "unreachable", id)

\* Fault: a condition of one branch is assumed on the other paths too.
AssumeEverywhere(c, S) == Assume(c, S)

\* addPathImpliedExpression.
AssumeOnPath(c, S) == Assume(c, (Valuations \ Path(c)) \cup S)

\* A target is checked at the end of the root function.  from: the index that
\* the value is read from, when that is a variable's.
Target(c, x, id, from) ==
    [c EXCEPT !.targets = Append(@, [id |-> id, path |-> Path(c), x |-> x, from |-> from, loose |-> FALSE])]

-----------------------------------------------------------------------------
RECURSIVE Touched(_), Accept(_, _)

\* VariableUsage: assigned in these statements, wherever they call.
Touched(body) ==
    UNION {LET s == body[i]
           IN  CASE s.kind \in {"assign", "inc", "compound", "call"} -> {s.v}
                 [] s.kind = "if"  -> Touched(s.t) \cup Touched(s.f)
                 [] s.kind = "for" -> Touched(s.step) \cup Touched(s.body)
                 [] s.kind \in {"while", "do"} -> Touched(s.body)
                 [] OTHER -> {} : i \in DOMAIN body}

AcceptAll(c, body) == FoldLeft(Accept, c, body)

AssignTo(c, id, v, x) == NewValue(Target(c, x, id, <<>>), v, x)

\* Fault: the check looks at the result after it has been brought into range.
OperateWrapped(c, e, id) ==
    LET r == Value(c, e.r)
        d == IF e.op # "div" THEN c
             ELSE Assume(CheckCondition(c, {w \in Valuations : r[w] = 0}, "division", id),
                         {w \in Valuations : r[w] # 0})
    IN  Target(d, Wrapped(e, Raw(d, e)), id, <<>>)

\* endVisit(BinaryOperation): a division by zero is reported and then excluded.
Operate(c, e, id) ==
    LET r == Value(c, e.r)
        d == IF e.op # "div" THEN c
             ELSE Assume(CheckCondition(c, {w \in Valuations : r[w] = 0}, "division", id),
                         {w \in Valuations : r[w] # 0})
    IN  Target(d, Raw(d, e), id, <<>>)

Evaluate(c, e, id) == IF e.op \in {"num", "var"} THEN c ELSE Operate(c, e, id)

AcceptAssign(c, s) == LET d == Evaluate(c, s.e, s.id)
                      IN  AssignTo(d, s.id, s.v, Wrapped(s.e, Raw(d, s.e)))

\* ++ and --: the new value is not wrapped.
AcceptInc(c, s) ==
    LET old == Value(c, Var(s.v))
        x   == [w \in Valuations |-> old[w] + s.by]
    IN  NewValue(Target(c, x, s.id, <<s.v, c.index[s.v]>>), s.v, x)

\* Fault: the condition of the branch stays on the path.
VisitBranchOpen(c, body, S) ==
    LET d == AcceptAll([c EXCEPT !.path = Append(@, Path(c) \cap S)], body)
    IN  [after |-> d.index, c |-> [d EXCEPT !.index = c.index @@ @]]

\* Fault: the indices of the branch are kept for what follows.
VisitBranchOnward(c, body, S) ==
    LET d == AcceptAll([c EXCEPT !.path = Append(@, Path(c) \cap S)], body)
    IN  [after |-> d.index, c |-> [d EXCEPT !.path = Front(@)]]

\* A branch: the indices it ends with, the checker is back at those before.
VisitBranch(c, body, S) ==
    LET d == AcceptAll([c EXCEPT !.path = Append(@, Path(c) \cap S)], body)
    IN  [after |-> d.index, c |-> [d EXCEPT !.path = Front(@), !.index = c.index @@ @]]

\* mergeVariables: the two indices have to differ.
Merge(c, vs, S, ifTrue, ifFalse) ==
    LET One(d, v) ==
            IF ifTrue[v] = ifFalse[v] THEN [d EXCEPT !.crashed = TRUE]
            ELSE NewValue(d, v, [w \in Valuations |->
                     IF w \in S THEN d.val[v, ifTrue[v]][w] ELSE d.val[v, ifFalse[v]][w]])
    IN  FoldLeft(One, c, SetToSeq(vs))

AcceptIf(c, s) ==
    LET S == Holds(c, s.c)
        t == VisitBranch(CheckNotConstant(c, S, s.id), s.t, S)
        f == IF s.f = <<>> THEN [after |-> t.c.index, c |-> t.c]
             ELSE VisitBranch(t.c, s.f, Valuations \ S)
    IN  Merge(f.c, Touched(s.t) \cup Touched(s.f), S, t.after, f.after)

\* Fault: the body is taken with the values before the loop.
WhileRemembers(c, s) ==
    LET S == Holds(c, s.c)
        l == VisitBranch(CheckNotConstant(c, S, s.id), s.body, S)
        e == [l.c EXCEPT !.index = c.index @@ @]
    IN  Merge(e, Touched(s.body), Holds(e, s.c), l.after, c.index)

\* The body is taken once from values the loop has forgotten, then everything
\* is back to before the loop, and the two are merged on the condition there.
AcceptWhile(c, s) ==
    LET touched == Touched(s.body)
        d == ResetVariables(c, touched)
        S == Holds(d, s.c)
        l == VisitBranch(CheckNotConstant(d, S, s.id), s.body, S)
        e == [l.c EXCEPT !.index = c.index @@ @]
    IN  Merge(e, touched, Holds(e, s.c), l.after, c.index)

\* The condition of a do loop is taken on values the loop has forgotten.
AcceptDo(c, s) ==
    LET touched == Touched(s.body)
        d == ResetVariables(c, touched)
        l == VisitBranch(d, s.body, Valuations)
        S == Holds(l.c, s.c)
        e == CheckNotConstant(l.c, S, s.id)
    IN  Merge([e EXCEPT !.index = c.index @@ @], touched, S, l.after, c.index)

\* What a pop undefines: values and conditions from the body are free.
Popped(c, e) ==
    LET Loosen(i) == LET t == e.targets[i]
                     IN  IF i <= Len(c.targets) THEN t
                         ELSE [t EXCEPT !.path = Path(c), !.loose = t.from \notin DOMAIN c.val]
        Free(d, v) == [NewValue(d, v, Symbol(d.free)) EXCEPT !.free = @ + 1]
        kept == [e EXCEPT !.asserted = Front(@), !.targets = [i \in DOMAIN e.targets |-> Loosen(i)]]
    IN  FoldLeft(Free, kept, SetToSeq({v \in DOMAIN c.index : e.index[v] # c.index[v]}))

\* The body of a for loop is taken between push and pop.
AcceptFor(c, s) ==
    LET touched == Touched(s.body) \cup Touched(s.step)
        d == ResetVariables(c, touched)
        S == Holds(d, s.c)
        f == CheckNotConstant(d, S, s.id)
        l == AcceptAll([f EXCEPT !.asserted = Append(@, Possible(f) \cap S)], s.body \o s.step)
        p == Popped(f, l)
        e == [p EXCEPT !.index = c.index @@ @]
    IN  Merge(e, touched, Holds(e, s.c), p.index, c.index)

\* visitRequire, visitAssert.
AcceptRequire(c, s) ==
    LET S == Holds(c, s.c) IN AssumeOnPath(CheckNotConstant(c, S, s.id), S)

AcceptAssert(c, s) ==
    LET S == Holds(c, s.c) IN AssumeOnPath(CheckCondition(c, Valuations \ S, "assertion", s.id), S)

\* inlineFunctionCall: arguments, then zeros, then the body.  A function that
\* is being visited is not entered, and its value is free.
Zero         == [w \in Valuations |-> 0]
Zeroed(c, v) == NewValue(c, v, Zero)

Enter(c, f, args) ==
    LET known == [c EXCEPT !.index = @ @@ [v \in Locals(f) |-> 0],
                           !.next  = @ @@ [v \in Locals(f) |-> 1]]
        bound == FoldLeft(LAMBDA d, i : NewValue(d, f.params[i], args[i]), known,
                          [i \in DOMAIN args |-> i])
    IN  FoldLeft(Zeroed, bound, f.locals \o f.returns)

AcceptCall(c, s) ==
    LET f == FunctionOf(s.f)
        d == Enter(c, f, [i \in DOMAIN s.args |-> Value(c, s.args[i])])
        e == AcceptAll([d EXCEPT !.callers = Append(@, f.name)], f.body)
    IN  IF \E k \in DOMAIN c.callers : c.callers[k] = f.name
        THEN [AssignTo(c, s.id, s.v, Symbol(c.free)) EXCEPT !.free = @ + 1]
        ELSE AssignTo([e EXCEPT !.callers = Front(@)], s.id, s.v,
                      e.val[f.returns[1], e.index[f.returns[1]]])

AcceptReturn(c, s) ==
    LET r == FunctionOf(Last(c.callers)).returns
    IN  IF r = <<>> THEN c ELSE NewValue(c, r[1], Value(c, s.e))

Accept(c, s) ==
    CASE s.kind = "assign"   -> AcceptAssign(c, s)
      [] s.kind = "inc"      -> AcceptInc(c, s)
      [] s.kind = "compound" -> c
      [] s.kind = "if"       -> AcceptIf(c, s)
      [] s.kind = "while"    -> AcceptWhile(c, s)
      [] s.kind = "do"       -> AcceptDo(c, s)
      [] s.kind = "for"      -> AcceptFor(c, s)
      [] s.kind = "require"  -> AcceptRequire(c, s)
      [] s.kind = "assert"   -> AcceptAssert(c, s)
      [] s.kind = "call"     -> AcceptCall(c, s)
      [] s.kind = "external" -> ResetVariables(c, ToSet(contract.state))
      [] s.kind = "return"   -> AcceptReturn(c, s)

-----------------------------------------------------------------------------
(* The functions of the contract, one after the other.                     *)
Root == contract.funcs[fn]

\* visit(ContractDefinition): the state variables, without a value.
Created ==
    [index |-> [v \in ToSet(contract.state) |-> 0], next |-> [v \in ToSet(contract.state) |-> 1],
     val |-> <<>>, asserted |-> <<Valuations>>, path |-> <<>>, targets |-> <<>>, free |-> 1,
     found |-> {}, callers |-> <<>>, gaveup |-> contract.gaveup, crashed |-> FALSE]

Init ==
    /\ contract \in Contracts
    /\ fn = 1 /\ pos = 0 /\ b = Created /\ reports = {}

\* A local variable of the root function starts at index 0.
Initial(c, v, x) == [c EXCEPT !.index = (v :> 0) @@ @, !.next = (v :> 1) @@ @,
                              !.val = (<<v, 0>> :> x) @@ @]

Parameter(c, v) == [Assume(Initial(c, v, Symbol(c.free)), Typed(Symbol(c.free))) EXCEPT !.free = @ + 1]

\* visit(FunctionDefinition): the solver is reset, the variables stay.
VisitFunction ==
    /\ pos = 0 /\ fn \in DOMAIN contract.funcs
    /\ LET fresh == [b EXCEPT !.asserted = <<Valuations>>, !.path = <<>>, !.targets = <<>>,
                              !.val = <<>>, !.free = 1, !.found = {}, !.callers = <<Root.name>>]
           state == ResetVariables(fresh, ToSet(contract.state))
           given == FoldLeft(Parameter, state, Root.params)
       IN  b' = FoldLeft(LAMBDA c, v : Initial(c, v, Zero), given, Root.locals \o Root.returns)
    /\ pos' = 1
    /\ UNCHANGED <<contract, fn, reports>>

Visit ==
    /\ fn \in DOMAIN contract.funcs /\ pos \in DOMAIN Root.body /\ ~b.crashed
    /\ b' = Accept(b, Root.body[pos])
    /\ pos' = pos + 1
    /\ UNCHANGED <<contract, fn, reports>>

\* checkUnderOverflow.
CheckTarget(c, t) ==
    LET low  == IF t.loose THEN t.path ELSE {w \in t.path : t.x[w] < 0}
        high == IF t.loose THEN t.path ELSE {w \in t.path : t.x[w] > MaxValue}
    IN  CheckCondition(CheckCondition(c, low, "underflow", t.id), high, "overflow", t.id)

EndVisitFunction ==
    /\ fn \in DOMAIN contract.funcs /\ pos = Len(Root.body) + 1 /\ ~b.crashed
    /\ LET c == FoldLeft(CheckTarget, b, b.targets)
           keep == ToSet(contract.state)
       IN  /\ reports' = reports \cup {<<Root.name, r[1], r[2]>> : r \in c.found}
           /\ b' = [c EXCEPT !.index = [v \in keep |-> @[v]], !.next = [v \in keep |-> @[v]],
                             !.callers = <<>>]
    /\ fn' = fn + 1 /\ pos' = 0
    /\ UNCHANGED contract

Over == (b.crashed \/ fn \notin DOMAIN contract.funcs) /\ UNCHANGED vars

Next == VisitFunction \/ Visit \/ EndVisitFunction \/ Over

Spec == Init /\ [][Next]_vars
=============================================================================
