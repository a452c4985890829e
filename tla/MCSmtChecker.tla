---------------------------- MODULE MCSmtChecker ----------------------------
(***************************************************************************)
(* The SMT checker on contracts with one state variable x and a function   *)
(* f(p) of up to three statements out of a list, and on contracts with     *)
(* several functions; next to it what the functions do when they are run.  *)
(***************************************************************************)
EXTENDS SmtChecker

Lt(l, r)  == Compare("lt", l, r)
Eq(l, r)  == Compare("eq", l, r)
Ne(l, r)  == Compare("ne", l, r)
X == Var("x")
Y == Var("y")
P == Var("p")

\* The statements, with ids for the place i, and the symbols each one needs.
Listed(i) ==
    LET n == 10 * i
    IN  << Assign(n, "x", Arith("add", P, Num(1))),
           Assign(n, "y", Arith("sub", X, P)),
           Assign(n, "x", Arith("div", X, P)),
           Inc(n, "x", 1),
           Require(n, Lt(X, P)),
           Require(n, Compare("or", Ne(P, Num(0)), Lt(Y, X))),
           Assert_(n, Ne(X, Num(0))),
           Assert_(n, Eq(Y, X)),
           If(n, Lt(X, P), <<Assign(n + 1, "x", P)>>, <<Assign(n + 2, "y", Num(1))>>),
           If(n, Eq(P, Num(0)), <<Require(n + 1, Lt(X, Num(2))), Inc(n + 2, "x", -1)>>, <<>>),
           If(n, Ne(P, Y), <<Assert_(n + 1, Eq(X, Num(0)))>>, <<>>),
           Call(n, "y", "g", <<X>>),
           While(n, Lt(X, Num(2)), <<Inc(n + 1, "x", 1), Assert_(n + 2, Ne(X, P))>>),
           While(n, Ne(Y, P), <<If(n + 1, Lt(Y, P), <<Inc(n + 2, "y", 1)>>, <<Assign(n + 3, "y", P)>>)>>),
           External,
           For(n, Lt(Y, P), <<Inc(n + 1, "y", 1)>>, <<Require(n + 2, Ne(Y, X))>>) >>

Needs == [k \in 1..16 |-> IF k = 16 THEN 2 ELSE IF k \in {13, 14, 15} THEN 1 ELSE 0]

\* g(a) returns r { r = a + 1; assert(r != 0) }
G == [name |-> "g", params |-> <<"a">>, locals |-> <<>>, returns |-> <<"r">>,
      body |-> <<Assign(1, "r", Arith("add", Var("a"), Num(1))), Assert_(2, Ne(Var("r"), Num(0))),
                 Return(Var("r"))>>]

F(body) == [name |-> "f", params |-> <<"p">>, locals |-> <<"y">>, returns |-> <<>>, body |-> body]

Contract(funcs, gaveup) == [state |-> <<"x">>, funcs |-> funcs, gaveup |-> gaveup]

Picks == {s \in UNION {[1..n -> DOMAIN Needs] : n \in 1..3} :
             FoldLeft(LAMBDA m, k : m + Needs[k], 0, s) <= Symbols - 2}

Single == {Contract(<<F([i \in DOMAIN s |-> Listed(i)[s[i]]]), G>>, FALSE) : s \in Picks}

\* Calls of functions that write the state, do loops, a division on a branch,
\* a call of a function from itself, a compound assignment, a solver that
\* gives up.
Bump  == [name |-> "bump", params |-> <<>>, locals |-> <<>>, returns |-> <<"s">>,
          body |-> <<Inc(1, "x", 1), Return(X)>>]
Again == [name |-> "again", params |-> <<>>, locals |-> <<"z">>, returns |-> <<"s">>,
          body |-> <<Call(1, "z", "again", <<>>), Return(Var("z"))>>]
Ends  == {<<>>, <<Assert_(90, Ne(X, Num(0)))>>, <<Assert_(90, Eq(Y, X))>>}

Others ==
    { <<Assign(10, "x", Num(1)), Call(20, "y", "bump", <<>>)>>,
      <<If(10, Eq(P, Num(0)), <<Call(11, "y", "bump", <<>>)>>, <<>>)>>,
      <<Do(10, Lt(X, P), <<Assign(11, "x", Num(1))>>)>>,
      <<If(10, Ne(P, Num(0)), <<Assign(11, "x", Arith("div", X, P))>>, <<>>), Assert_(20, Ne(P, Num(0)))>>,
      <<Call(10, "y", "again", <<>>)>>,
      <<If(20, Lt(X, P), <<Compound(21, "x")>>, <<>>)>>,
      <<Compound(10, "x"), If(20, Lt(X, P), <<Assign(21, "x", P)>>, <<>>)>>,
      <<While(10, Lt(X, P), <<Compound(11, "x")>>)>> }

Mixed == {Contract(<<Bump, F(o \o e), Again>>, gaveup) :
             o \in Others, e \in Ends, gaveup \in BOOLEAN}

MCContracts == Single \cup Mixed

-----------------------------------------------------------------------------
(* What the statements do.  A store has the values of the variables, the   *)
(* operations that have left the range, and whether a ++ or -- has.        *)
Values == 0..MaxValue

Result(go, ret, saw) == [go |-> go, ret |-> ret, saw |-> saw]

Read(st, e) == IF e.op = "num" THEN e.n ELSE st.m[e.v]

Computed(st, e) ==
    CASE e.op = "add" -> Read(st, e.l) + Read(st, e.r)
      [] e.op = "sub" -> Read(st, e.l) - Read(st, e.r)
      [] e.op = "div" -> Read(st, e.l) \div Read(st, e.r)
      [] OTHER -> Read(st, e)

RECURSIVE True(_, _)
True(st, c) ==
    CASE c.op = "and" -> True(st, c.l) /\ True(st, c.r)
      [] c.op = "or"  -> True(st, c.l) \/ True(st, c.r)
      [] c.op = "lt"  -> Read(st, c.l) < Read(st, c.r)
      [] c.op = "eq"  -> Read(st, c.l) = Read(st, c.r)
      [] c.op = "ne"  -> Read(st, c.l) # Read(st, c.r)

Write(st, v, n, id, inc) ==
    [m    |-> [st.m EXCEPT ![v] = n % (MaxValue + 1)],
     left |-> st.left \cup (IF n \in Values THEN {} ELSE {id}),
     odd  |-> st.odd \/ (inc /\ n \notin Values)]

Seen(S, kind, id) == {<<kind, id, st.odd>> : st \in S}
Tested(S, c, id)  == Seen({st \in S : True(st, c)}, "true", id) \cup
                     Seen({st \in S : ~True(st, c)}, "false", id)

RECURSIVE Run(_, _, _), Loop(_, _, _, _, _)
RunAll(f, body, S) ==
    FoldLeft(LAMBDA r, s : LET q == Run(f, s, r.go) IN Result(q.go, r.ret \cup q.ret, r.saw \cup q.saw),
             Result(S, {}, {}), body)

\* All stores at the head of the loop, from S on.
Loop(f, s, body, S, r) ==
    LET new == S \ r.go
        q   == RunAll(f, body, {st \in new : True(st, s.c)})
    IN  IF new = {} THEN r
        ELSE Loop(f, s, body, q.go, Result(r.go \cup new, r.ret \cup q.ret,
                                        r.saw \cup q.saw \cup Tested(new, s.c, s.id)))

Left(s, r) == [r EXCEPT !.go = {st \in @ : ~True(st, s.c)}]

Run(f, s, S) ==
    CASE s.kind = "assign" ->
           LET bad == {st \in S : s.e.op = "div" /\ Read(st, s.e.r) = 0}
           IN  Result({Write(st, s.v, Computed(st, s.e), s.id, FALSE) : st \in S \ bad}, {},
                      Seen(bad, "division", s.id))
      [] s.kind = "inc" -> Result({Write(st, s.v, st.m[s.v] + s.by, s.id, TRUE) : st \in S}, {}, {})
      [] s.kind = "compound" ->
           Result({Write(st, s.v, st.m[s.v] + 1, s.id, FALSE) : st \in S}, {}, {})
      [] s.kind = "if" ->
           LET t == RunAll(f, s.t, {st \in S : True(st, s.c)})
               e == RunAll(f, s.f, {st \in S : ~True(st, s.c)})
           IN  Result(t.go \cup e.go, t.ret \cup e.ret, t.saw \cup e.saw \cup Tested(S, s.c, s.id))
      [] s.kind = "while" -> Left(s, Loop(f, s, s.body, S, Result({}, {}, {})))
      [] s.kind = "for"   -> Left(s, Loop(f, s, s.body \o s.step, S, Result({}, {}, {})))
      [] s.kind = "do"    ->
           LET q == RunAll(f, s.body, S) IN Left(s, Loop(f, s, s.body, q.go, Result({}, q.ret, q.saw)))
      [] s.kind = "require" -> Result({st \in S : True(st, s.c)}, {}, Tested(S, s.c, s.id))
      [] s.kind = "assert"  ->
           Result({st \in S : True(st, s.c)}, {}, Seen({st \in S : ~True(st, s.c)}, "assertion", s.id))
      [] s.kind = "call" ->
           LET g == FunctionOf(s.f)
               given(st) == [v \in DOMAIN st.m |->
                                IF v \in ToSet(g.params) THEN Read(st, s.args[SelectInSeq(g.params, LAMBDA a : a = v)])
                                ELSE IF v \in Locals(g) THEN 0 ELSE st.m[v]]
               q == RunAll(g, g.body, {[st EXCEPT !.m = given(st)] : st \in S})
           IN  Result({Write(st, s.v, st.m[g.returns[1]], s.id, FALSE) : st \in q.go \cup q.ret}, {}, q.saw)
      [] s.kind = "external" ->
           Result({[st EXCEPT !.m["x"] = n] : st \in S, n \in Values}, {}, {})
      [] s.kind = "return" ->
           Result({}, {Write(st, f.returns[1], Read(st, s.e), 0, FALSE) : st \in S}, {})

-----------------------------------------------------------------------------
Names == ToSet(contract.state) \cup UNION {Locals(f) : f \in ToSet(contract.funcs)}

Starts(f) == {[m |-> m, left |-> {}, odd |-> FALSE] :
                 m \in {n \in [Names -> Values] :
                           \A v \in Names \ (ToSet(contract.state) \cup ToSet(f.params)) : n[v] = 0}}

Runs(f)   == RunAll(f, f.body, Starts(f))

\* What the checker does not claim to follow: see the README.
RECURSIVE WritesState(_), Followed(_, _)
WritesState(f) == \/ Touched(f.body) \cap ToSet(contract.state) # {}
                  \/ \E s \in ToSet(f.body) : s.kind = "call" /\ s.f # f.name /\ WritesState(FunctionOf(s.f))

Followed(body, branch) ==
    \A s \in ToSet(body) :
        CASE s.kind = "if"  -> Followed(s.t, TRUE) /\ Followed(s.f, TRUE)
          [] s.kind \in {"while", "for"} -> Followed(s.body, TRUE)
          [] s.kind \in {"do", "compound"} -> FALSE
          [] s.kind = "assign"   -> ~(branch /\ s.e.op = "div")
          [] s.kind = "external" -> ~branch
          [] s.kind = "call"     -> s.f \notin {"again"} /\ ~(branch /\ WritesState(FunctionOf(s.f)))
          [] OTHER -> TRUE

\* The function that has just been analysed.
Analysed(f)  == pos = 0 /\ fn > 1 /\ contract.funcs[fn - 1] = f
Finished(f)  == Analysed(f) /\ f.name # "again" /\ Followed(f.body, FALSE)
Straight(f)  == \A s \in ToSet(f.body) : s.kind \notin {"while", "for"}
Warned(f, kind, id) == <<f.name, kind, id>> \in reports

-----------------------------------------------------------------------------
(* An assertion, or a division by zero, that fails in some run before a ++ *)
(* or -- of that run has left the range is warned about, also after loops  *)
(* and calls, and when the solver gives up.                                *)
FailuresFound ==
    \A f \in ToSet(contract.funcs) : Finished(f) =>
        \A e \in Runs(f).saw : e[1] \in {"assertion", "division"} /\ ~e[3] => Warned(f, e[1], e[2])

(* So is every operation that leaves the range in a run that comes to its  *)
(* end, when no ++ or -- does.                                             *)
OverflowsFound ==
    \A f \in ToSet(contract.funcs) : Finished(f) =>
        \A st \in Runs(f).go \cup Runs(f).ret : ~st.odd =>
            \A id \in st.left : Warned(f, "overflow", id) \/ Warned(f, "underflow", id)

(* Without loops and with a solver that answers, a warned assertion or     *)
(* division fails in some run, or a ++ or -- leaves the range in one.      *)
AlarmsReal ==
    \A f \in ToSet(contract.funcs) : Finished(f) /\ Straight(f) /\ ~contract.gaveup =>
        \A r \in reports : r[1] = f.name /\ r[2] \in {"assertion", "division"} =>
            \/ \E odd \in BOOLEAN : <<r[2], r[3], odd>> \in Runs(f).saw
            \/ \E st \in Runs(f).go \cup Runs(f).ret : st.odd
            \/ \E e \in Runs(f).saw : e[3]

(* A condition that is said to be constant, or out of reach, is so in all  *)
(* runs in which no ++ or -- leaves the range, with loops too.             *)
ConstantsRight ==
    \A f \in ToSet(contract.funcs) : Finished(f) =>
        \A e \in Runs(f).saw : ~e[3] =>
            /\ e[1] = "false" => ~Warned(f, "always true", e[2])
            /\ e[1] = "true"  => ~Warned(f, "always false", e[2])
            /\ e[1] \in {"true", "false"} => ~Warned(f, "unreachable", e[2])

\* Somewhere in these statements x += e stands on a branch.
RECURSIVE CompoundOnBranch(_, _)
CompoundOnBranch(body, branch) ==
    \E s \in ToSet(body) :
        \/ s.kind = "compound" /\ branch
        \/ s.kind = "if" /\ (CompoundOnBranch(s.t, TRUE) \/ CompoundOnBranch(s.f, TRUE))
        \/ s.kind \in {"while", "do", "for"} /\ CompoundOnBranch(s.body, branch)

(* The checker trips its assert on the indices to be merged only for a     *)
(* compound assignment on a branch, which it does not implement.           *)
CrashesExplained == b.crashed => CompoundOnBranch(Root.body, FALSE)

(* Between two statements of a root function the path, the solver's scopes *)
(* and the functions being visited are those of the function itself, and   *)
(* every index in use has a value; the free symbols suffice.               *)
TypeOK ==
    /\ Len(b.asserted) = 1 /\ b.path = <<>>
    /\ b.free \in 1..(Symbols + 1)
    /\ pos > 0 => b.callers = <<Root.name>>
    /\ pos > 0 /\ ~b.crashed => \A v \in DOMAIN b.index : b.index[v] < b.next[v]
                                    /\ (b.index[v] > 0 => <<v, b.index[v]>> \in DOMAIN b.val)
=============================================================================
