----------------------------- MODULE FlowPaths ------------------------------
(***************************************************************************)
(* What executions of a function do, statement by statement and without a  *)
(* graph, with every condition free: the reference for the analysis.       *)
(*                                                                         *)
(* A state has the unassigned variables, the accesses to unassigned        *)
(* storage pointers, those of them made in an assignment to the same       *)
(* pointer (p = p), and the accesses made.  A result is a state and the    *)
(* way the statement is left.                                              *)
(***************************************************************************)
EXTENDS FlowBuilder, FiniteSets

Results(out, states) == {[out |-> out, st |-> x] : x \in states}
Left(results, outs)  == {r.st : r \in {q \in results : q.out \in outs}}
Others(results, outs) == {r \in results : r.out \notin outs}

Touch(f, x, v, id) ==
    LET o == [kind |-> "access", var |-> v, id |-> id]
    IN  [x EXCEPT !.ran = @ \cup {o},
                  !.bad = @ \cup (IF v \in x.un \cap f.storage THEN {o} ELSE {})]

RECURSIVE Run(_, _, _, _), RunAll(_, _, _, _), Heads(_, _, _, _)

\* The statements of a sequence, one after the other; k is the modifier they
\* are in, and the body follows the last modifier.
RunAll(f, k, parts, states) ==
    FoldLeft(LAMBDA R, s : Others(R, {"on"}) \cup Run(f, k, s, Left(R, {"on"})),
             Results("on", states), parts)

Inner(f, k, states) ==
    IF k > Len(f.modifiers) THEN Run(f, k, f.body, states)
    ELSE Run(f, k, f.modifiers[k], states)

\* States at the head of a loop whose round is these statements.
Round(f, k, w, states) ==
    LET R == RunAll(f, k, <<w.c, w.body>>, states)
    IN  Left(RunAll(f, k, w.step, Left(R, {"on", "continue"})), {"on"})
Heads(f, k, w, states) ==
    LET all == states \cup Round(f, k, w, states)
    IN  IF all = states THEN states ELSE Heads(f, k, w, all)

Loop(f, k, w, states) ==
    LET heads == Heads(f, k, w, states)
        R     == RunAll(f, k, <<w.c, w.body>>, heads)
    IN  Results("on", Left(RunAll(f, k, <<w.c>>, heads), {"on"}) \cup Left(R, {"break"}))
        \cup Others(R, {"on", "break", "continue"})

Run(f, k, s, states) ==
    CASE s.kind \in {"access", "assembly"} -> Results("on", {Touch(f, x, s.var, s.id) : x \in states})
      [] s.kind = "assign"  ->
           Results("on", UNION {{[y EXCEPT !.un = @ \ {s.var},
                                           !.own = @ \cup {o \in y.bad \ x.bad : o.var = s.var}] :
                                     y \in Left(RunAll(f, k, s.e, {x}), {"on"})} : x \in states})
      [] s.kind = "declare" ->
           LET new == {[x EXCEPT !.un = @ \cup {s.var}] : x \in states}
               R   == Left(RunAll(f, k, s.e, new), {"on"})
           IN  Results("on", IF s.e = <<>> THEN R ELSE {[y EXCEPT !.un = @ \ {s.var}] : y \in R})
      [] s.kind = "block"   -> RunAll(f, k, s.parts, states)
      [] s.kind = "or"      -> LET L == RunAll(f, k, <<s.l>>, states)
                               IN  L \cup RunAll(f, k, <<s.r>>, Left(L, {"on"}))
      [] s.kind = "conditional" ->
           LET C == Left(RunAll(f, k, <<s.c>>, states), {"on"})
           IN  Run(f, k, s.t, C) \cup Run(f, k, s.f, C)
      [] s.kind = "if"      -> LET C == RunAll(f, k, <<s.c>>, states)
                               IN  C \cup Run(f, k, s.t, Left(C, {"on"}))
      [] s.kind = "while"   -> Loop(f, k, [c |-> s.c, body |-> s.body, step |-> <<>>], states)
      [] s.kind = "for"     -> Loop(f, k, [c |-> s.c, body |-> s.body, step |-> <<s.step>>], states)
      [] s.kind = "dowhile" ->
           LET R == Run(f, k, s.body, states)
               S == Run(f, k, s.c, Left(R, {"on", "continue"}))
               T == Loop(f, k, [c |-> Nothing, body |-> s.body, step |-> <<s.c>>], Left(S, {"on"}))
           IN  Results("on", Left(R, {"break"})) \cup Others(R, {"on", "break", "continue"})
               \cup Others(S, {"on"}) \cup T
      [] s.kind = "require" -> LET E == Run(f, k, s.e, states)
                               IN  E \cup Results("revert", Left(E, {"on"}))
      [] s.kind = "return"  ->
           Results("return", {[x EXCEPT !.un = IF s.es = <<>> THEN @ ELSE @ \ ToSet(f.returns)] :
                                  x \in Left(RunAll(f, k, s.es, states), {"on"})})
      [] s.kind = "throw"   -> Results("revert", states)
      [] s.kind = "placeholder" ->
           LET R == Inner(f, k + 1, states)
           IN  Results("on", Left(R, {"on", "return"})) \cup Others(R, {"on", "return"})
      [] OTHER -> Results(s.kind, states)

\* All executions; those that return read the return parameters.
Executions(f) ==
    Inner(f, 1, {[un |-> ToSet(f.returns), bad |-> {}, own |-> {}, ran |-> {}]})

Returned(f) == {FoldLeft(LAMBDA y, v : Touch(f, y, v, 0), x, f.returns) :
                    x \in Left(Executions(f), {"on", "return"})}

Uninitialized(f) == UNION {x.bad : x \in Returned(f)}
Own(f)           == UNION {x.own : x \in Returned(f)}
Executed(f)      == UNION {r.st.ran : r \in Executions(f)} \cup UNION {x.ran : x \in Returned(f)}
=============================================================================
