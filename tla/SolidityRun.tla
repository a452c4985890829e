---------------------------- MODULE SolidityRun -----------------------------
(***************************************************************************)
(* What symbolic execution promises about ONE input: the run of the        *)
(* contract on that input.  Every activation of a function has locals of   *)
(* its own, a for statement runs its initialisation when it is entered,    *)
(* a revert ends the run and nothing resumes it.                           *)
(*                                                                         *)
(* The executor may give an input up, but only where it decides a whole    *)
(* path at once: at a loop exit, and at an assert that other inputs of the *)
(* path violate.  Everywhere else the run must be followed.                *)
(***************************************************************************)
EXTENDS SolAst

CONSTANTS MaxDepth      \* activations of one function that can be nested

VARIABLES
    run,    \* the run, or Gone
    probe,  \* the input: values of the constants, by declaration
    start   \* the function it starts

Gone == [alive |-> FALSE]

\* The d-th nested activation of its function owns <<x, d>>.
Cells == {key \in Vars \X (1..MaxDepth) : key[1] \in StateVars => key[2] = 1}

Given(key) == IF key \in DOMAIN probe THEN probe[key] ELSE 0

Cell(r, x)  == <<x, IF x \in StateVars THEN 1 ELSE r.depth[r.scope]>>
Store(r)    == [x \in Vars |-> IF Cell(r, x)[2] \in 1..MaxDepth
                               THEN r.vals[Cell(r, x)] ELSE 0]
Val(r, e)   == Eval(e, Store(r))
Write(r, x, v) == [r EXCEPT !.vals[Cell(r, x)] = v]

Start(f) == [alive  |-> TRUE,
             vals   |-> [key \in Cells |-> Given(key)],
             goHead |-> TRUE,
             code   |-> "NONE",
             scope  |-> f,
             depth  |-> [g \in Funcs |-> IF g = f THEN 1 ELSE 0],
             decls  |-> <<>>,
             k      |-> Stmts(Fun[f].body)]

RunInit == run = Start(start)

(***************************************************************************)
(* A step takes the run from now to next.                                  *)
(***************************************************************************)
Here(now)     == Ast[Head(now.k).n]
RAt(now, op)  == /\ now.alive /\ now.k # <<>> /\ Head(now.k).t = "stmt"
                 /\ now.goHead /\ Here(now).op = op
RMark(now, t) == now.alive /\ now.k # <<>> /\ Head(now.k).t = t
Advance(r)    == [r EXCEPT !.k = Tail(@)]
Enter(r, items) == [r EXCEPT !.k = items \o Tail(@)]
Signal(r, code) == [r EXCEPT !.goHead = FALSE, !.code = code]
Caught(r, code) == IF r.code = code
                   THEN [r EXCEPT !.goHead = TRUE, !.code = "NONE"] ELSE r

Unwind(now, next) ==
    /\ now.alive /\ now.k # <<>> /\ Head(now.k).t = "stmt" /\ ~now.goHead
    /\ next = Advance(now)

RAssign(now, next) ==
    /\ \/ RAt(now, "assign") \/ RAt(now, "env")
       \/ RAt(now, "decl") /\ Here(now).e.op # "none"
    /\ next = Advance(Write(now, Here(now).x, Val(now, Here(now).e)))

RDeclare(now, next) ==
    /\ RAt(now, "declare")
    /\ next = Advance([now EXCEPT !.decls =
                 Append(@, [tag |-> Here(now).tag, v |-> Val(now, Here(now).e)])])

RNoValue(now, next) ==
    RAt(now, "decl") /\ Here(now).e.op = "none" /\ next = Advance(now)

RIf(now, next) ==
    /\ RAt(now, "if")
    /\ next = Enter(now, IF Val(now, Here(now).e) THEN Stmts(Here(now).body)
                                                  ELSE Stmts(Here(now).alt))

RRequire(now, next) ==
    /\ RAt(now, "require")
    /\ next = IF Val(now, Here(now).e) THEN Advance(now) ELSE Gone

\* An assert that holds here may fail for another input of the path.
RAssert(now, next) ==
    /\ RAt(now, "assert")
    /\ \/ Val(now, Here(now).e) /\ next = Advance(now)
       \/ next = Gone

RThrow(now, next) == RAt(now, "throw") /\ next = Gone

RSignal(now, next) ==
    \/ RAt(now, "break")    /\ next = Advance(Signal(now, "BREAK"))
    \/ RAt(now, "continue") /\ next = Advance(Signal(now, "CONTINUE"))

RReturn(now, next) ==
    /\ RAt(now, "return")
    /\ LET e == Here(now).e
       IN  next = Advance(Signal(IF e.op = "none" THEN now
                            ELSE Write(now, Fun[now.scope].ret, Val(now, e)), "RETURN"))

\* Inside the loop, its own "brk" item follows the loop statement.
Entering(r) == ~(Len(r.k) > 1 /\ r.k[2].t = "brk" /\ r.k[2].n = Head(r.k).n)

RLoop(now, next) ==
    /\ RAt(now, "while") \/ RAt(now, "for")
    /\ LET s     == Head(now.k).n
           n     == Ast[s]
           inits == IF n.op = "for" /\ Entering(now) THEN n.init ELSE <<>>
           after == IF n.op = "for" THEN n.step ELSE <<>>
           first == Ast[inits[1]]
           begun == IF inits = <<>> \/ first.e.op = "none" THEN now
                    ELSE Write(now, first.x, Val(now, first.e))
       IN  IF Val(begun, n.e)
           THEN next = Enter(begun, Stmts(n.body) \o Cont(s) \o Stmts(after)
                                      \o Stmts(<<s>>) \o Brk(s))
           ELSE next = Advance(begun) \/ next = Gone

RLoopMark(now, next) ==
    \/ RMark(now, "cont") /\ next = Advance(Caught(now, "CONTINUE"))
    \/ RMark(now, "brk")  /\ next = Advance(Caught(now, "BREAK"))

(***************************************************************************)
(* A call: the parameters are the arguments; the other locals of the new   *)
(* activation may hold anything; nothing else changes.                     *)
(***************************************************************************)
RCall(now, next) ==
    /\ RAt(now, "call")
    /\ LET n     == Here(now)
           d     == now.depth[n.f] + 1
           ps    == Fun[n.f].params
           fresh == {<<x, d>> : x \in Fun[n.f].locals}
           items == Stmts(Fun[n.f].body) \o Ret(Head(now.k).n, now.scope)
       IN  /\ DOMAIN next = DOMAIN now
           /\ next = [Enter([now EXCEPT !.depth[n.f] = d, !.scope = n.f], items)
                        EXCEPT !.vals = next.vals]
           /\ DOMAIN next.vals = Cells
           /\ \A key \in Cells \ fresh : next.vals[key] = now.vals[key]
           /\ \A j \in DOMAIN ps : d <= MaxDepth =>
                  next.vals[<<ps[j], d>>] = Val(now, n.args[j])

RCallReturn(now, next) ==
    /\ RMark(now, "ret")
    /\ LET m    == Head(now.k)
           n    == Ast[m.n]
           v    == now.vals[<<Fun[n.f].ret, now.depth[n.f]>>]
           back == Caught([now EXCEPT !.scope = m.up, !.depth[n.f] = @ - 1], "RETURN")
       IN  next = Advance(IF n.x = NoVar THEN back ELSE Write(back, n.x, v))

RFinish(now, next) ==
    /\ now.alive /\ now.k = <<>> /\ now.depth[start] > 0
    /\ next = Caught([now EXCEPT !.depth[start] = @ - 1], "RETURN")

RunStep(now, next) ==
    \/ Unwind(now, next)  \/ RAssign(now, next) \/ RDeclare(now, next)
    \/ RNoValue(now, next) \/ RIf(now, next)    \/ RRequire(now, next)
    \/ RAssert(now, next) \/ RThrow(now, next)  \/ RSignal(now, next)
    \/ RReturn(now, next) \/ RLoop(now, next)   \/ RLoopMark(now, next)
    \/ RCall(now, next)   \/ RCallReturn(now, next) \/ RFinish(now, next)

RunNext == /\ \E now \in {run}, next \in {run'} : RunStep(now, next)
           /\ UNCHANGED <<probe, start>>

RunSpec == RunInit /\ [][RunNext]_<<run, probe, start>>
=============================================================================
