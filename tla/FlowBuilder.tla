---------------------------- MODULE FlowBuilder -----------------------------
(***************************************************************************)
(* ControlFlowBuilder of the compiler front end: the graph of a function.  *)
(* The builder is a record: the nodes made so far, the current node, and   *)
(* where break, continue, return, revert and the placeholder of a modifier *)
(* lead; 0 is the null pointer.                                            *)
(***************************************************************************)
EXTENDS Naturals, Sequences, SequencesExt

(* Statements and expressions, as the builder tells them apart.            *)
Node(kind)          == [kind |-> kind]
Access(v, id)       == [kind |-> "access", var |-> v, id |-> id]
Assembly(v, id)     == [kind |-> "assembly", var |-> v, id |-> id]
Assignment(v, e)    == [kind |-> "assign", var |-> v, e |-> e]
Declaration(v, e)   == [kind |-> "declare", var |-> v, e |-> e]
Seq_(parts)         == [kind |-> "block", parts |-> parts]
Nothing             == Seq_(<<>>)
Short(l, r)         == [kind |-> "or", l |-> l, r |-> r]
Conditional(c, t, f) == [kind |-> "conditional", c |-> c, t |-> t, f |-> f]
If(c, t)            == [kind |-> "if", c |-> c, t |-> t]
While(c, body)      == [kind |-> "while", c |-> c, body |-> body]
DoWhile(c, body)    == [kind |-> "dowhile", c |-> c, body |-> body]
For(c, step, body)  == [kind |-> "for", c |-> c, step |-> step, body |-> body]
Require(e)          == [kind |-> "require", e |-> e]
Return(es)          == [kind |-> "return", es |-> es]
Break == Node("break")   Continue == Node("continue")
Throw == Node("throw")   Placeholder == Node("placeholder")

-----------------------------------------------------------------------------
Vertex == [exits |-> {}, occurrences |-> <<>>]

connect(b, from, to) == [b EXCEPT !.nodes[from].exits = @ \cup {to}]
NewLabel(b)    == [b EXCEPT !.nodes = Append(@, Vertex)]
Newest(b)      == Len(b.nodes)
At(b, n)       == [b EXCEPT !.cur = n]
Occurs(b, kind, v, id) ==
    [b EXCEPT !.nodes[b.cur].occurrences = Append(@, [kind |-> kind, var |-> v, id |-> id])]

\* createLabelHere, and what follows a jump.
LabelHere(b) == LET c == NewLabel(b) IN At(connect(c, c.cur, Newest(c)), Newest(c))
Unlinked(b)  == LET c == NewLabel(b) IN At(c, Newest(c))
Jump(b, to)  == Unlinked(connect(b, b.cur, to))
Place(b, n)  == At(connect(b, b.cur, n), n)

\* splitFlow<2>: the two nodes are the newest ones.
Split(b) == LET c == NewLabel(NewLabel(b))
            IN  connect(connect(c, b.cur, Newest(c) - 1), b.cur, Newest(c))

-----------------------------------------------------------------------------
RECURSIVE Flow(_, _)

\* A loop body with its own break and continue.
Body(b, body, break, continue) ==
    LET c == Flow([b EXCEPT !.break = break, !.continue = continue], body)
    IN  [c EXCEPT !.break = b.break, !.continue = b.continue]

\* Both branches meet in a new node, or in the second one when it has no code.
IfElse(b, t, f) ==
    LET s  == Split(b)
        n1 == Newest(s) - 1
        c  == Flow(At(s, n1), t)
        d  == Flow(At(c, n1 + 1), f)
        e  == NewLabel(d)
    IN  At(connect(connect(e, c.cur, Newest(e)), d.cur, Newest(e)), Newest(e))

\* Fault: a branch that is taken does not come back.
IfLeaves(b, t) ==
    LET s  == Split(b)
        n1 == Newest(s) - 1
    IN  At(Flow(At(s, n1), t), n1 + 1)

IfOnly(b, t) ==
    LET s  == Split(b)
        n1 == Newest(s) - 1
        c  == Flow(At(s, n1), t)
    IN  At(connect(c, c.cur, n1 + 1), n1 + 1)

WhileFlow(b, w) ==
    LET head == LabelHere(b)
        s    == Split(Flow(head, w.c))
        body == Newest(s) - 1
        c    == Body(At(s, body), w.body, body + 1, head.cur)
    IN  At(connect(c, c.cur, head.cur), body + 1)

DoFlow(b, w) ==
    LET after == NewLabel(b)
        start == LabelHere(after)
        cond  == NewLabel(start)
        c     == Place(Body(cond, w.body, Newest(after), Newest(cond)), Newest(cond))
        d     == Flow(c, w.c)
    IN  Place(connect(d, d.cur, start.cur), Newest(after))

ForFlow(b, w) ==
    LET head == LabelHere(b)
        step == NewLabel(Flow(head, w.c))
        s    == Split(step)
        body == Newest(s) - 1
        c    == Place(Body(At(s, body), w.body, body + 1, Newest(step)), Newest(step))
        d    == Flow(c, w.step)
    IN  At(connect(d, d.cur, head.cur), body + 1)

\* _; : the rest of the function begins here and comes back to a new node.
Rest(b) == LET c == Unlinked(connect(b, b.cur, b.entered)) IN connect(c, b.left, c.cur)

\* Fault: what is returned is not assigned to the return parameters.
ReturnFlowOnly(b, r) == LET c == FoldLeft(Flow, b, r.es) IN Jump(c, b.ret)

ReturnFlow(b, r) ==
    LET c == FoldLeft(Flow, b, r.es)
    IN  Jump(IF r.es = <<>> THEN c
             ELSE FoldLeft(LAMBDA d, v : Occurs(d, "assign", v, 0), c, b.returns), b.ret)

Flow(b, s) ==
    CASE s.kind = "access"      -> Occurs(b, "access", s.var, s.id)
      [] s.kind = "assembly"    -> Occurs(b, "access", s.var, s.id)
      [] s.kind = "assign"      -> FoldLeft(Flow, Occurs(b, "assign", s.var, 0), s.e)
      [] s.kind = "declare"     ->
           LET c == FoldLeft(Flow, Occurs(b, "declare", s.var, 0), s.e)
           IN  IF s.e = <<>> THEN c ELSE Occurs(c, "assign", s.var, 0)
      [] s.kind = "block"       -> FoldLeft(Flow, b, s.parts)
      [] s.kind = "or"          -> IfOnly(Flow(b, s.l), s.r)
      [] s.kind = "conditional" -> IfElse(Flow(b, s.c), s.t, s.f)
      [] s.kind = "if"          -> IfOnly(Flow(b, s.c), s.t)
      [] s.kind = "while"       -> WhileFlow(b, s)
      [] s.kind = "dowhile"     -> DoFlow(b, s)
      [] s.kind = "for"         -> ForFlow(b, s)
      [] s.kind = "require"     ->
           LET c == Flow(b, s.e) IN LabelHere(connect(c, c.cur, b.revert))
      [] s.kind = "return"      -> ReturnFlow(b, s)
      [] s.kind = "throw"       -> Jump(b, b.revert)
      [] s.kind = "break"       -> Jump(b, b.break)
      [] s.kind = "continue"    -> Jump(b, b.continue)
      [] s.kind = "placeholder" -> Rest(b)

-----------------------------------------------------------------------------
(* A function: parameters, return parameters, modifiers and a body, and    *)
(* which of its variables are pointers to storage.                         *)
Function(params, returns, modifiers, storage, body) ==
    [params |-> params, returns |-> returns, modifiers |-> modifiers,
     storage |-> storage, body |-> body]

\* Entry, exit and revert are the first three nodes; the exit reads what is returned.
Fresh(f) ==
    [nodes |-> <<Vertex,
                 [exits |-> {}, occurrences |-> [k \in DOMAIN f.returns |->
                      [kind |-> "access", var |-> f.returns[k], id |-> 0]]],
                 Vertex>>,
     cur |-> 1, ret |-> 2, revert |-> 3, break |-> 0, continue |-> 0,
     entered |-> 0, left |-> 0, returns |-> f.returns]

Parameter(b, v) == Occurs(Occurs(b, "declare", v, 0), "assign", v, 0)
Result(b, v)    == Occurs(b, "declare", v, 0)

\* visit(ModifierInvocation): the modifier returns to where the function does,
\* and the rest of the function lies between its placeholder's two labels.
Modify(b, modifier) ==
    LET e == NewLabel(b)
        l == NewLabel(e)
        c == Flow([l EXCEPT !.entered = Newest(e), !.left = Newest(l)], modifier)
    IN  [connect(c, c.cur, b.ret) EXCEPT !.cur = Newest(e), !.ret = Newest(l),
                                         !.entered = 0, !.left = 0]

Closed(b) == connect(b, b.cur, b.ret)

createFunctionFlow(f) ==
    LET declared == FoldLeft(Result, FoldLeft(Parameter, Fresh(f), f.params), f.returns)
    IN  Closed(Flow(FoldLeft(Modify, declared, f.modifiers), f.body))

-----------------------------------------------------------------------------
(* What the occurrences of a node, in order, make of unassigned variables. *)
SumUp(sum, o) ==
    CASE o.kind = "assign"  -> [sum EXCEPT !.kill = @ \cup {o.var}, !.gen = @ \ {o.var}]
      [] o.kind = "declare" -> [sum EXCEPT !.gen = @ \cup {o.var}]
      [] o.kind = "access"  ->
           IF o.var \in sum.gen THEN [sum EXCEPT !.always = @ \cup {o}]
           ELSE IF o.var \in sum.kill THEN sum ELSE [sum EXCEPT !.uses = @ \cup {o}]

Summary(occurrences) ==
    FoldLeft(SumUp, [gen |-> {}, kill |-> {}, uses |-> {}, always |-> {}], occurrences)

\* Nodes as the analysis reads them.  The accesses stand for the code.
Stored(f, os) == {o \in os : o.var \in f.storage}
Accesses(os)  == {os[k] : k \in {j \in DOMAIN os : os[j].kind = "access"}}

Analysed(f, nodes, sums) ==
    [nodes |-> DOMAIN nodes, entry |-> 1, exit |-> 2, revert |-> 3,
     exits  |-> [n \in DOMAIN nodes |-> nodes[n].exits],
     gen    |-> [n \in DOMAIN nodes |-> sums[n].gen],
     kill   |-> [n \in DOMAIN nodes |-> sums[n].kill],
     uses   |-> [n \in DOMAIN nodes |-> Stored(f, sums[n].uses)],
     always |-> [n \in DOMAIN nodes |-> Stored(f, sums[n].always)],
     code   |-> [n \in DOMAIN nodes |-> Accesses(nodes[n].occurrences)]]

Drawn(f, nodes) == Analysed(f, nodes, [n \in DOMAIN nodes |-> Summary(nodes[n].occurrences)])

Graph(f) == Drawn(f, createFunctionFlow(f).nodes)
=============================================================================
