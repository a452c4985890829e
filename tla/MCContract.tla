----------------------------- MODULE MCContract -----------------------------
(***************************************************************************)
(* A contract for the model checker.  Each entry function brings out one   *)
(* part of the executor:                                                   *)
(*   bid      branches, revert, require, declare_* (an auction's bid())    *)
(*   scan     nested loops with break and continue                         *)
(*   settle   calls of find (return out of two loops) and of pay (one      *)
(*            branch reverts as the last statement of the callee)          *)
(*   total    self recursion of sum, two activations deep                  *)
(*   raise    a while loop whose exit depends on the input, an assert that *)
(*            holds for some of the inputs only, msg.value set by value()  *)
(*   nest     what the second activation of a function may not do: declare *)
(*            with a value (sink), enter a for loop that declares (cycle),  *)
(*            end without a return (skip)                                   *)
(*   spin     a loop that never ends                                        *)
(*   again    self recursion of bump, which updates a state variable       *)
(***************************************************************************)
EXTENDS SolAst
LOCAL INSTANCE TLC
LOCAL INSTANCE Functions

MCStateVars == {"hb", "refund", "msg.value"}
MCEnvVars   == {"msg.value"}
MCVars      == MCStateVars \cup {"t", "i", "j", "r", "p", "a", "w", "m", "q", "z", "y",
                               "d", "e", "u", "x", "h", "g"}

\* Expressions
None         == [op |-> "none", x |-> NoVar, y |-> NoVar, n |-> 0]
Lit(n)       == [None EXCEPT !.op = "lit", !.n = n]
V(x)         == [None EXCEPT !.op = "val", !.x = x]
N(x, op, n)  == [None EXCEPT !.op = op, !.x = x, !.n = n]
B(x, op, y)  == [None EXCEPT !.op = op, !.x = x, !.y = y]

\* Statements
Blank == [op |-> "throw", e |-> None, x |-> NoVar, body |-> <<>>, alt |-> <<>>,
          init |-> <<>>, step |-> <<>>, f |-> NoFunc, args |-> <<>>,
          tag |-> "declare_type"]
Set(op, x, e)    == [Blank EXCEPT !.op = op, !.x = x, !.e = e]
Do(op, e)        == [Blank EXCEPT !.op = op, !.e = e]
IfElse(e, b, a)  == [Blank EXCEPT !.op = "if", !.e = e, !.body = b, !.alt = a]
Loop(e, b)       == [Blank EXCEPT !.op = "while", !.e = e, !.body = b]
ForLoop(i, e, s, b) == [Blank EXCEPT !.op = "for", !.e = e, !.body = b,
                                     !.init = i, !.step = s]
CallTo(x, f, as) == [Blank EXCEPT !.op = "call", !.x = x, !.f = f, !.args = as]
Tell(tag, e)     == [Blank EXCEPT !.op = "declare", !.tag = tag, !.e = e]

MCTags == {"declare_type", "declare_clearprice", "declare_allocation"}

MCAst == [
  b1 |-> IfElse(B("msg.value", "lt", "hb"), <<"b2">>, <<>>),
  b2 |-> Blank,
  b3 |-> IfElse(N("hb", "eq", 0), <<>>, <<"b4">>),
  b4 |-> Set("assign", "refund", B("refund", "add", "hb")),
  b5 |-> Set("assign", "hb", V("msg.value")),
  b6 |-> Do("require", N("hb", "le", 1)),
  b7 |-> Tell("declare_clearprice", V("hb")),
  b8 |-> IfElse(N("hb", "eq", 1), <<"b9">>, <<"b2">>),
  b9 |-> Tell("declare_allocation", V("refund")),

  s1 |-> Set("decl", "t", Lit(0)),
  s2 |-> ForLoop(<<"s3">>, N("i", "lt", 3), <<"s4">>, <<"s5", "s7", "s9", "s12", "s13">>),
  s3 |-> Set("decl", "i", Lit(0)),
  s4 |-> Set("assign", "i", N("i", "add", 1)),
  s5 |-> IfElse(N("i", "eq", 1), <<"s6">>, <<>>),
  s6 |-> Do("continue", None),
  s7 |-> IfElse(B("hb", "eq", "i"), <<"s8">>, <<>>),
  s8 |-> Do("break", None),
  s9 |-> Loop(B("i", "le", "i"), <<"s10", "s11">>),
  s10 |-> Set("assign", "t", N("t", "add", 1)),
  s11 |-> IfElse(B("i", "lt", "t"), <<"s8">>, <<"s6">>),
  s12 |-> Set("assign", "refund", B("refund", "add", "t")),
  s13 |-> ForLoop(<<"f2">>, N("j", "lt", 1), <<"s15">>, <<"s14">>),
  s14 |-> Set("assign", "refund", N("refund", "add", 1)),
  s15 |-> Set("assign", "j", N("j", "add", 1)),

  c1 |-> CallTo("refund", "find", <<V("hb")>>),
  c2 |-> CallTo("hb", "pay", <<V("msg.value")>>),
  c3 |-> Tell("declare_clearprice", B("hb", "add", "refund")),

  f1 |-> ForLoop(<<"f2">>, N("j", "lt", 2), <<"f3">>, <<"f4">>),
  f2 |-> Set("assign", "j", Lit(0)),
  f3 |-> Set("assign", "j", N("j", "add", 1)),
  f4 |-> Loop(B("j", "le", "w"), <<"f5">>),
  f5 |-> Do("return", V("j")),
  f6 |-> Do("return", Lit(7)),

  p1 |-> IfElse(N("p", "le", 1), <<"p2">>, <<"b2">>),
  p2 |-> Do("return", V("p")),

  t1 |-> CallTo("hb", "sum", <<Lit(2)>>),
  t2 |-> Tell("declare_clearprice", V("hb")),
  m1 |-> IfElse(N("m", "le", 0), <<"m2">>, <<"m3", "m4", "m5">>),
  m2 |-> Do("return", Lit(0)),
  m3 |-> CallTo("q", "sum", <<N("m", "sub", 1)>>),
  m4 |-> Set("assign", "q", B("q", "add", "m")),
  m5 |-> Do("return", V("q")),

  r1 |-> Set("decl", "r", None),
  r2 |-> Loop(N("hb", "lt", 2), <<"r3">>),
  r3 |-> Set("assign", "hb", N("hb", "add", 1)),
  r4 |-> Do("assert", B("msg.value", "le", "hb")),
  r5 |-> Set("env", "msg.value", N("hb", "sub", 1)),
  r6 |-> Do("assert", N("msg.value", "eq", 1)),
  r7 |-> Do("return", None),

  n1 |-> IfElse(N("hb", "eq", 0), <<"n2">>, <<"n3">>),
  n2 |-> CallTo(NoVar, "sink", <<Lit(2)>>),
  n3 |-> IfElse(N("hb", "eq", 1), <<"n4">>, <<"n5">>),
  n4 |-> CallTo(NoVar, "cycle", <<Lit(2)>>),
  n5 |-> CallTo("t", "skip", <<Lit(2)>>),
  k1 |-> IfElse(N("d", "le", 0), <<>>, <<"k2", "k3">>),
  k2 |-> Set("decl", "e", Lit(0)),
  k3 |-> CallTo(NoVar, "sink", <<N("d", "sub", 1)>>),
  o1 |-> IfElse(N("u", "le", 0), <<>>, <<"o2">>),
  o2 |-> ForLoop(<<"o3">>, N("x", "lt", 1), <<"o4">>, <<"o5">>),
  o3 |-> Set("decl", "x", Lit(0)),
  o4 |-> Set("assign", "x", N("x", "add", 1)),
  o5 |-> CallTo(NoVar, "cycle", <<N("u", "sub", 1)>>),
  h1 |-> IfElse(N("h", "le", 1), <<>>, <<"h2">>),
  h2 |-> CallTo("t", "skip", <<N("h", "sub", 1)>>),
  v1 |-> Loop(B("t", "le", "t"), <<>>),

  g1 |-> CallTo(NoVar, "bump", <<Lit(2)>>),
  g2 |-> Tell("declare_clearprice", V("hb")),
  g3 |-> IfElse(N("y", "le", 0), <<"r7">>, <<"g4", "g5">>),
  g4 |-> Set("assign", "hb", N("hb", "add", 1)),
  g5 |-> CallTo(NoVar, "bump", <<N("y", "sub", 1)>>)
]

MCStmt == DOMAIN MCAst

Body(b)  == [body |-> b, params |-> <<>>, ret |-> NoVar, locals |-> {}]
Def(b, ps, r, ls) == [body |-> b, params |-> ps, ret |-> r, locals |-> ls]

MCFun == [
  bid    |-> Body(<<"b1", "b3", "b5", "b6", "b7", "b8">>),
  scan   |-> Body(<<"s1", "s2">>),
  settle |-> Body(<<"c1", "c2", "c3">>),
  find   |-> Def(<<"f1", "f6">>, <<"w">>, "a", {"w", "j", "a"}),
  pay    |-> Def(<<"p1">>, <<"p">>, "z", {"p", "z"}),
  total  |-> Body(<<"t1", "t2">>),
  sum    |-> Def(<<"m1">>, <<"m">>, "r", {"m", "q", "r"}),
  raise  |-> Body(<<"r1", "r2", "r4", "r5", "r6", "r7">>),
  nest   |-> Body(<<"n1">>),
  sink   |-> Def(<<"k1">>, <<"d">>, NoVar, {"d", "e"}),
  cycle  |-> Def(<<"o1">>, <<"u">>, NoVar, {"u", "x"}),
  skip   |-> Def(<<"h1">>, <<"h">>, "g", {"h", "g"}),
  spin   |-> Body(<<"v1">>),
  again  |-> Body(<<"g1", "g2">>),
  bump   |-> Def(<<"g3">>, <<"y">>, NoVar, {"y"})
]

\* The statements of the bodies, and those of the if statements among them.
Below(S) == S \cup UNION {Range(MCAst[s].body) \cup Range(MCAst[s].alt) :
                              s \in {t \in S : MCAst[t].op = "if"}}
MCOutside == Below(Below(UNION {Range(MCFun[f].body) : f \in DOMAIN MCFun}))

MCFuncs   == DOMAIN MCFun
MCEntries   == {"bid", "scan", "settle", "total", "raise", "nest", "spin",
                "again"}
MCBounded   == {"bid", "scan", "settle", "total"}   \* no input moves a loop's bound
MCFollowed  == MCBounded \cup {"raise"}
MCRecursive == {"again"}
MCNone      == {}

\* The inputs: highestBid h and msg.value v; every other constant is 0.
Input(h, v) == (<<"hb", 1>> :> h) @@ (<<"msg.value", 1>> :> v)
MCInputs    == {Input(h, v) : h \in 0..2, v \in 0..2}
=============================================================================
