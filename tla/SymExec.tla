------------------------------ MODULE SymExec -------------------------------
(***************************************************************************)
(* SymExecEngine::strongestPostcondition: the path exploration of FairCon. *)
(*                                                                         *)
(* The engine carries a vector of contexts (ContextInfo) through the       *)
(* statements of a function.  No handler looks at two contexts, so the     *)
(* recursion over statements is kept per context, as the continuation k:   *)
(* what the C++ stack still has to do with this context.  A step of the    *)
(* specification is one handler applied to one context.                    *)
(*                                                                         *)
(* A symbolic value is the function from the inputs (assignments of the Z3 *)
(* constants) to the value it takes, and a path condition is the set of    *)
(* inputs that satisfy it, so that "satisfiable" is "not empty".           *)
(***************************************************************************)
EXTENDS SolAst, FiniteSets

CONSTANTS
    Inputs,     \* assignments of values to (some of) the Z3 constants
    Entries,    \* the functions symbolicExecution may start
    Bounded,    \* those whose loops and recursion no input can prolong
    StackLimit  \* how deep the recursion over statements may grow

ASSUME EntriesAssumption ==
    Bounded \subseteq Entries /\ Entries \subseteq Funcs /\ StackLimit \in Nat

VARIABLES
    ctxs,       \* the contexts in flight and the finished ones
    entry,      \* the function under execution (funcVec[i])
    aborted     \* an assert of the engine has failed, or its stack is full

vars == <<ctxs, entry, aborted>>

(* A Z3 constant is named after its key: the declaration and the suffix    *)
(* that getVarFullName adds.  Constants outside the inputs are 0.          *)
Symbol(key) == [i \in Inputs |-> IF key \in DOMAIN i THEN i[key] ELSE 0]

\* Insertion into a map: emplace leaves an entry that is there, Put replaces it.
Extend(m, new) == [key \in DOMAIN m \cup DOMAIN new |->
                     IF key \in DOMAIN m THEN m[key] ELSE new[key]]
Put(m, key, v) == [j \in DOMAIN m \cup {key} |-> IF j = key THEN v ELSE m[j]]

(***************************************************************************)
(* Names and values                                                        *)
(***************************************************************************)

\* getVarFullName: suffixed by the call depth of the current function, if > 1.
Key(c, x) == <<x, IF x \in EnvVars \/ c.depth[c.scope] <= 1
                  THEN 1 ELSE c.depth[c.scope]>>

InState(c, x) == x \in StateVars /\ Key(c, x)[2] = 1

\* translate(Identifier): the state map, the local map, or a fresh constant.
Value(c, x) == IF InState(c, x) THEN c.state[x]
               ELSE IF Key(c, x) \in DOMAIN c.local THEN c.local[Key(c, x)]
               ELSE Symbol(Key(c, x))

\* ... and the fresh constant stays in the local map.
Touch(c, xs) ==
    LET new == {Key(c, x) : x \in {y \in xs : ~InState(c, y)}}
    IN  [c EXCEPT !.local = Extend(@, [key \in new |-> Symbol(key)])]

Env(c, i)       == [x \in Vars |-> Value(c, x)[i]]
Translate(c, e) == [i \in Inputs |-> Eval(e, Env(c, i))]
Models(c, e)    == {i \in Inputs : Eval(e, Env(c, i))}

\* updateContextInfo on an identifier; Known is its last assertion.
Known(c, x) == InState(c, x) \/ Key(c, x) \in DOMAIN c.local
Update(c, x, v) ==
    IF InState(c, x) THEN [c EXCEPT !.state[x] = v]
                     ELSE [c EXCEPT !.local = Put(@, Key(c, x), v)]

\* checkSatisfiability and checkValidity
Satisfiable(c, p) == c.code # "THROW" /\ c.pc \cap p # {}
Valid(c, p)       == c.pc \subseteq p

\* Fault: the termination code is left behind.
ResumeGoHead(c) == [c EXCEPT !.goHead = TRUE]

Halt(c, code) == [c EXCEPT !.goHead = FALSE, !.code = code]
Resume(c)     == [c EXCEPT !.goHead = TRUE, !.code = "NONE"]
ResetIf(c, code) == IF ~c.goHead /\ c.code = code THEN Resume(c) ELSE c

Pop(c) == [c EXCEPT !.k = Tail(@)]
Push(c, items) == [c EXCEPT !.k = items \o Tail(@)]

(***************************************************************************)
(* Initial state: symbolicExecution builds initContext for one function,   *)
(* and strongestPostcondition(FunctionDefinition) raises its call depth.   *)
(***************************************************************************)
InitContext(f) ==
    [pc     |-> Inputs,
     state  |-> [x \in StateVars |-> Symbol(<<x, 1>>)],
     local  |-> [key \in (Vars \ StateVars) \X {1} |-> Symbol(key)],
     goHead |-> TRUE,
     code   |-> "NONE",
     scope  |-> f,
     depth  |-> [g \in Funcs |-> IF g = f THEN 1 ELSE 0],
     decls  |-> <<>>,
     k      |-> Stmts(Fun[f].body)]

Init == /\ entry \in Entries
        /\ ctxs = {InitContext(entry)}
        /\ aborted = FALSE

(***************************************************************************)
(* Dispatch                                                                *)
(***************************************************************************)
AtStmt(c)  == c.k # <<>> /\ Head(c.k).t = "stmt"
Node(c)    == Ast[Head(c.k).n]
At(c, op)  == AtStmt(c) /\ c.goHead /\ Node(c).op = op
AtMark(c, t) == c.k # <<>> /\ Head(c.k).t = t

Become(c, succ) == /\ ctxs' = (ctxs \ {c}) \cup succ
                   /\ UNCHANGED <<entry, aborted>>
Abort == aborted' = TRUE /\ UNCHANGED <<ctxs, entry>>

\* The vector version drops the contexts that checkCondPass refuses ...
DropThrown(c) == AtStmt(c) /\ c.code = "THROW" /\ Become(c, {})

\* ... and every handler returns a halted context as it is.
Skip(c) == AtStmt(c) /\ ~c.goHead /\ c.code # "THROW" /\ Become(c, {Pop(c)})

(***************************************************************************)
(* Statements                                                              *)
(***************************************************************************)

\* Assignment without a call, ++ and --: the right side, then the left one.
AssignTo(c, n) ==
    LET d == Touch(c, Reads(n.e) \cup {n.x})
    IN  Update(d, n.x, Translate(c, n.e))

Assign(c) == At(c, "assign") /\ Become(c, {Pop(AssignTo(c, Node(c)))})

\* A declaration with an initial value insists on a name that is known; one
\* without leaves the maps alone, whatever they hold.
Declarable(c, n) == n.e.op = "none" \/ Known(Touch(c, Reads(n.e)), n.x)
Declared(c, n)   == IF n.e.op = "none" THEN c ELSE AssignTo(c, n)

Decl(c) ==
    /\ At(c, "decl")
    /\ IF Declarable(c, Node(c)) THEN Become(c, {Pop(Declared(c, Node(c)))})
                                 ELSE Abort

\* value(e), timestamp(e): the entry of the state map is overwritten.
SetEnv(c) ==
    /\ At(c, "env")
    /\ LET n == Node(c)
           d == Touch(c, Reads(n.e))
       IN  Become(c, {Pop([d EXCEPT !.state[n.x] = Translate(c, n.e)])})

\* declare_*: the mechanism of this context records the value.
Declare(c) ==
    /\ At(c, "declare")
    /\ LET n == Node(c)
           d == Touch(c, Reads(n.e))
       IN  Become(c, {Pop([d EXCEPT !.decls =
                            Append(@, [tag |-> n.tag, v |-> Translate(c, n.e)])])})

\* A branch is a condition on the inputs and a block; both are tried in the
\* context as it was before.
Branch(p, block) == [p |-> p, block |-> block]
Follow(c, b)     == Push([c EXCEPT !.pc = @ \cap b.p], Stmts(b.block))

\* Fault: the negated condition is not added on the else branch.
BranchesOpen(c, n) == {Branch(Models(c, n.e), n.body), Branch(Inputs, n.alt)}

Branches(c, n) == {Branch(Models(c, n.e), n.body),
                   Branch(Inputs \ Models(c, n.e), n.alt)}

If(c) ==
    /\ At(c, "if")
    /\ LET n == Node(c)
           d == Touch(c, Reads(n.e))
       IN  Become(c, {Follow(d, b) :
                        b \in {br \in Branches(c, n) : Satisfiable(c, br.p)}})

Require(c) ==
    /\ At(c, "require")
    /\ LET d == Touch(c, Reads(Node(c).e))
       IN  Become(c, {Pop([d EXCEPT !.pc = @ \cap Models(c, Node(c).e)])})

Assert(c) ==
    /\ At(c, "assert")
    /\ LET d == Touch(c, Reads(Node(c).e))
       IN  Become(c, {Pop(IF Valid(c, Models(c, Node(c).e))
                          THEN d ELSE Halt(d, "THROW"))})

\* throw and revert()
Throw(c)    == At(c, "throw") /\ Become(c, {Pop(Halt(c, "THROW"))})
Break(c)    == At(c, "break") /\ Become(c, {Pop(Halt(c, "BREAK"))})
Continue(c) == At(c, "continue") /\ Become(c, {Pop(Halt(c, "CONTINUE"))})

\* The returned value goes to the return parameter, inserted when unknown.
Return(c) ==
    /\ At(c, "return")
    /\ LET n == Node(c)
           r == Fun[c.scope].ret
           d == Halt(Touch(c, Reads(n.e)), "RETURN")
       IN  Become(c, {Pop(IF n.e.op = "none" \/ r = NoVar THEN d
                          ELSE [d EXCEPT !.local =
                                   Put(@, Key(c, r), Translate(c, n.e))])})

(***************************************************************************)
(* Loops: follow the body while the condition is satisfiable; the negation *)
(* is added only when it is not.                                           *)
(***************************************************************************)
\* Fault: nothing resets CONTINUE between the body and the next visit.
IterateNoReset(c, n, s, after) ==
    LET yes == Models(c, n.e)
        d   == Touch(c, Reads(n.e))
    IN  IF Satisfiable(c, yes)
        THEN Push([d EXCEPT !.pc = @ \cap yes],
                  Stmts(n.body) \o Stmts(after) \o Stmts(<<s>>) \o Brk(s))
        ELSE Pop([d EXCEPT !.pc = @ \ yes])

Iterate(c, n, s, after) ==
    LET yes == Models(c, n.e)
        d   == Touch(c, Reads(n.e))
    IN  IF Satisfiable(c, yes)
        THEN Push([d EXCEPT !.pc = @ \cap yes],
                  Stmts(n.body) \o Cont(s) \o Stmts(after) \o Stmts(<<s>>) \o Brk(s))
        ELSE Pop([d EXCEPT !.pc = @ \ yes])

While(c) == /\ At(c, "while")
            /\ Become(c, {Iterate(c, Node(c), Head(c.k).n, <<>>)})

\* astNodeVisitMap: how many visits of the node are on the C++ stack.
\* Fault: the visits of any loop count, so a nested loop is never initialised.
VisitsOfAny(c, s) == Cardinality({j \in DOMAIN c.k : c.k[j].t = "brk"})
\* Fault: no visit counts, so every iteration is initialised again.
VisitsOfNone(c, s) == 0

Visits(c, s) == Cardinality({j \in DOMAIN c.k : c.k[j].t = "brk" /\ c.k[j].n = s})

For(c) ==
    /\ At(c, "for")
    /\ LET s     == Head(c.k).n
           n     == Ast[s]
           inits == IF Visits(c, s) = 0 THEN n.init ELSE <<>>
           bad   == \E j \in DOMAIN inits :
                       /\ Ast[inits[j]].op = "decl"
                       /\ ~Declarable(c, Ast[inits[j]])
           d     == IF inits = <<>> THEN c ELSE Declared(c, Ast[inits[1]])
       IN  IF bad THEN Abort ELSE Become(c, {Iterate(d, n, s, n.step)})

\* The resets after the body and after the recursive call.
LoopBodyDone(c) == AtMark(c, "cont") /\ Become(c, {Pop(ResetIf(c, "CONTINUE"))})
LoopDone(c)     == AtMark(c, "brk") /\ Become(c, {Pop(ResetIf(c, "BREAK"))})

(***************************************************************************)
(* Calls.  The parameters are named while funcScope is still the caller.   *)
(***************************************************************************)
Bind(c, ps, vs) ==
    LET keys == {Key(c, ps[j]) : j \in DOMAIN ps}
        arg  == [key \in keys |-> vs[CHOOSE j \in DOMAIN ps : Key(c, ps[j]) = key]]
    IN  [c EXCEPT !.local = Extend(arg, @)]

Call(c) ==
    /\ At(c, "call")
    /\ LET n  == Node(c)
           f  == n.f
           vs == [j \in DOMAIN n.args |-> Translate(c, n.args[j])]
           d  == Touch(c, UNION {Reads(n.args[j]) : j \in DOMAIN n.args})
           b  == Bind([d EXCEPT !.depth[f] = @ + 1], Fun[f].params, vs)
       IN  Become(c, {Push([b EXCEPT !.scope = f],
                           Stmts(Fun[f].body) \o Ret(Head(c.k).n, c.scope))})

\* Fault: the depth is lowered only when the callee ended by return.
CallReturnOnReturn(c) ==
    /\ AtMark(c, "ret")
    /\ LET m == Head(c.k)
           n == Ast[m.n]
           d == IF c.goHead THEN [c EXCEPT !.scope = m.up]
                ELSE Resume([c EXCEPT !.scope = m.up, !.depth[n.f] = @ - 1])
           up == [d EXCEPT !.depth[n.f] = @ + 1]
           r == Key(up, Fun[n.f].ret)
       IN  IF n.x = NoVar THEN Become(c, {Pop(d)})
           ELSE IF r \notin DOMAIN c.local THEN Abort
           ELSE Become(c, {Pop(Update(Touch(d, {n.x}), n.x, c.local[r]))})

\* Epilogue of the call; then Assignment reads the return parameter, with the
\* callee's depth raised for the lookup, and updates its target.
CallReturn(c) ==
    /\ AtMark(c, "ret")
    /\ LET m == Head(c.k)
           n == Ast[m.n]
           d == ResetIf([c EXCEPT !.scope = m.up, !.depth[n.f] = @ - 1], "RETURN")
           up == [d EXCEPT !.depth[n.f] = @ + 1]
           r == Key(up, Fun[n.f].ret)
       IN  IF n.x = NoVar THEN Become(c, {Pop(d)})
           ELSE IF r \notin DOMAIN c.local THEN Abort
           ELSE Become(c, {Pop(Update(Touch(d, {n.x}), n.x, c.local[r]))})

\* End of strongestPostcondition(FunctionDefinition).
Finished(c) == c.k = <<>> /\ c.depth[entry] = 0
Finish(c) ==
    /\ c.k = <<>>
    /\ c.depth[entry] > 0
    /\ Become(c, {ResetIf([c EXCEPT !.depth[entry] = @ - 1], "RETURN")})

Step(c) ==
    \/ DropThrown(c) \/ Skip(c)
    \/ Assign(c) \/ Decl(c) \/ SetEnv(c) \/ Declare(c)
    \/ If(c) \/ Require(c) \/ Assert(c)
    \/ Throw(c) \/ Break(c) \/ Continue(c) \/ Return(c)
    \/ While(c) \/ For(c) \/ LoopBodyDone(c) \/ LoopDone(c)
    \/ Call(c) \/ CallReturn(c) \/ Finish(c)

Done == aborted \/ \A c \in ctxs : Finished(c)

\* Every iteration of a loop and every call adds C++ frames.
Overflow(c) == Len(c.k) > StackLimit /\ Abort

Proceed(c) == Len(c.k) <= StackLimit /\ Step(c)

Next == \/ ~aborted /\ \E c \in ctxs : Proceed(c) \/ Overflow(c)
        \/ Done /\ UNCHANGED vars

\* One thread runs the engine to its end: a step that is possible is taken.
Spec     == Init /\ [][Next]_vars
FairSpec == Spec /\ WF_vars(Next)

-----------------------------------------------------------------------------
(* Type invariant: a context is what ContextInfo declares, and goHead is   *)
(* false exactly when a termination code says why.                         *)
Fields == {"pc", "state", "local", "goHead", "code", "scope", "depth", "decls", "k"}

ContextOK(c) ==
    /\ DOMAIN c = Fields
    /\ c.pc \subseteq Inputs
    /\ DOMAIN c.state = StateVars
    /\ DOMAIN c.local \subseteq Vars \X Int
    /\ c.goHead = (c.code = "NONE")
    /\ c.code \in Codes
    /\ c.scope \in Funcs
    /\ c.depth \in [Funcs -> Int]
    /\ c.k \in Seq(Item)

TypeOK == /\ \A c \in ctxs : ContextOK(c)
          /\ entry \in Entries
          /\ aborted \in BOOLEAN

(* Two paths never share an input: the ite chains synthesis builds over    *)
(* the path conditions pick one context whatever their order.              *)
DisjointPaths == \A c, d \in ctxs : c # d => c.pc \cap d.pc = {}

(* break and continue take effect in the loop they are written in: a       *)
(* context halted by continue next meets the end of a loop body, one       *)
(* halted by break meets the end of a loop before that of the function.    *)
Before(c, j, tags) == \A m \in 1..(j - 1) : c.k[m].t \notin tags
SignalsStayInLoop ==
    \A c \in ctxs :
        /\ c.code = "CONTINUE" => \E j \in DOMAIN c.k :
               c.k[j].t = "cont" /\ Before(c, j, {"brk", "ret"})
        /\ c.code = "BREAK" => \E j \in DOMAIN c.k :
               c.k[j].t = "brk" /\ Before(c, j, {"ret"})

(* funcCallDepthMap and funcScope agree with the calls in progress on every *)
(* path, however the callee ended: they decide how variables are named.    *)
Callee(item) == Ast[item.n].f
Calls(c)     == {j \in DOMAIN c.k : c.k[j].t = "ret"}
FramesMatch ==
    \A c \in ctxs :
        /\ \A f \in Funcs :
               c.depth[f] = Cardinality({j \in Calls(c) : Callee(c.k[j]) = f})
                            + (IF f = entry /\ ~Finished(c) THEN 1 ELSE 0)
        /\ IF Calls(c) = {} THEN c.scope = entry
           ELSE \E j \in Calls(c) : Before(c, j, {"ret"}) /\ c.scope = Callee(c.k[j])

(* translate(Identifier) and updateContextInfo take a name found in the    *)
(* local map for the name of a local variable.                             *)
LocalMapIsLocal ==
    \A c \in ctxs : \A key \in DOMAIN c.local : key[1] \notin StateVars

(* Loops with a bound that no input can move are unrolled to their end:    *)
(* the function is executed on all its paths, no assert of the engine      *)
(* fails and the stack is deep enough.                                     *)
Completed == ~aborted /\ \A c \in ctxs : Finished(c)
Completes == entry \in Bounded => <>Completed
=============================================================================
