------------------------------- MODULE SolAst -------------------------------
(***************************************************************************)
(* The vocabulary shared by FairCon's symbolic executor (SymExec) and by   *)
(* the concrete runs it is compared with (SolidityRun): the variables, the *)
(* functions and the AST of a contract, and the value of an expression.    *)
(*                                                                         *)
(* A statement is an AST node with an identity, as in the code             *)
(* (stmt->id()).  Expressions are flattened: one operator over a variable  *)
(* and a variable or a literal.  Z3 integers are mathematical integers, so *)
(* arithmetic does not wrap.                                               *)
(***************************************************************************)
EXTENDS Integers, Sequences

CONSTANTS
    Vars,       \* variables of the contract, each with its own declaration id
    StateVars,  \* those visit(VariableDeclaration) registers as state variables
    EnvVars,    \* msg.value, block.timestamp: state map entries read by bare name
    NoVar,      \* "no variable": a literal operand, a call without a target
    Funcs,      \* the functions of the contract
    NoFunc,     \* the `up' field of items that are not call returns
    Stmt,       \* the statement nodes
    Ast,        \* node -> its description (StmtDesc)
    Fun,        \* function -> its body, parameters and return parameter
    Outside,    \* the statements that stand outside of any loop
    Tags        \* the declare_* directives of the harness

Ops == {"assign", "decl", "env", "declare", "if", "while", "for", "call",
        "require", "assert", "throw", "return", "break", "continue"}

\* "none": a declaration or a return without a value.
Expr == [op : {"none", "lit", "val", "add", "sub", "lt", "le", "eq"},
         x : Vars \cup {NoVar}, y : Vars \cup {NoVar}, n : Int]

(***************************************************************************)
(* e: the right-hand side, condition or argument; x: the target; body and  *)
(* alt: the statements of a block (alt is the else branch); init and step: *)
(* of a for statement; f and args: of a call; tag: of a directive.         *)
(***************************************************************************)
StmtDesc == [op : Ops, e : Expr, x : Vars \cup {NoVar},
             body : Seq(Stmt), alt : Seq(Stmt), init : Seq(Stmt),
             step : Seq(Stmt), f : Funcs \cup {NoFunc}, args : Seq(Expr),
             tag : Tags]

ASSUME AstAssumption ==
    /\ EnvVars \subseteq StateVars
    /\ StateVars \subseteq Vars
    /\ NoVar \notin Vars
    /\ NoFunc \notin Funcs
    /\ Ast \in [Stmt -> StmtDesc]
    /\ Fun \in [Funcs -> [body : Seq(Stmt), params : Seq(Vars),
                          ret : Vars \cup {NoVar}, locals : SUBSET Vars]]

\* What the type checker of the front end guarantees of an accepted contract.
ASSUME WellFormed ==
    \A s \in Stmt :
        /\ Ast[s].op = "call" =>
             /\ Ast[s].f \in Funcs
             /\ Len(Ast[s].args) = Len(Fun[Ast[s].f].params)
             /\ Ast[s].x # NoVar => Fun[Ast[s].f].ret # NoVar
        /\ Ast[s].op \in {"assign", "decl"} => Ast[s].x \in Vars
        /\ Ast[s].op = "decl" => Ast[s].x \notin StateVars
        /\ Ast[s].e.op = "none" => Ast[s].op \notin {"assign", "env", "declare",
                                     "if", "while", "for", "require", "assert"}
        /\ Ast[s].op = "env" => Ast[s].x \in EnvVars
        /\ \A j \in DOMAIN Ast[s].init :
               Ast[Ast[s].init[j]].op \in {"assign", "decl"}
        /\ Len(Ast[s].init) <= 1
        /\ \A j \in DOMAIN Ast[s].step : Ast[Ast[s].step[j]].op \notin
               {"decl", "if", "while", "for", "return", "break", "continue"}

\* What a function declares is its own: no state variable, no name twice.
ASSUME LocalsAssumption ==
    \A f \in Funcs :
        LET ps == Fun[f].params
        IN  /\ Fun[f].locals \cap StateVars = {}
            /\ Fun[f].ret \in Fun[f].locals \cup {NoVar}
            /\ \A j \in DOMAIN ps : ps[j] \in Fun[f].locals
            /\ \A j, l \in DOMAIN ps : ps[j] = ps[l] => j = l

\* What its syntax checker does: break and continue stand in a loop.
ASSUME BreaksInLoops ==
    /\ Outside \subseteq Stmt
    /\ \A f \in Funcs : \A j \in DOMAIN Fun[f].body : Fun[f].body[j] \in Outside
    /\ \A s \in Outside :
           /\ Ast[s].op \notin {"break", "continue"}
           /\ Ast[s].op = "if" =>
                  /\ \A j \in DOMAIN Ast[s].body : Ast[s].body[j] \in Outside
                  /\ \A j \in DOMAIN Ast[s].alt : Ast[s].alt[j] \in Outside

\* The variables that translating e reads.
Reads(e) == {e.x, e.y} \ {NoVar}

\* The value of e when the variables have the values env.
Eval(e, env) ==
    LET left  == env[e.x]
        right == IF e.y = NoVar THEN e.n ELSE env[e.y]
    IN  CASE e.op = "lit" -> e.n
          [] e.op = "val" -> left
          [] e.op = "add" -> left + right
          [] e.op = "sub" -> left - right
          [] e.op = "lt"  -> left < right
          [] e.op = "le"  -> left <= right
          [] e.op = "eq"  -> left = right

(***************************************************************************)
(* A continuation is a sequence of items: a statement still to run, or the *)
(* rest of a handler that waits for the statements it has dispatched: the  *)
(* reset of CONTINUE after a loop body, the reset of BREAK after the       *)
(* recursive call for the next iteration, the epilogue of a function call. *)
(***************************************************************************)
Item == [t : {"stmt", "cont", "brk"}, n : Stmt, up : {NoFunc}]
          \cup [t : {"ret"}, n : Stmt, up : Funcs]

Stmts(seq) == [j \in DOMAIN seq |-> [t |-> "stmt", n |-> seq[j], up |-> NoFunc]]
Cont(s)     == <<[t |-> "cont", n |-> s, up |-> NoFunc]>>
Brk(s)      == <<[t |-> "brk", n |-> s, up |-> NoFunc]>>
Ret(s, g)   == <<[t |-> "ret", n |-> s, up |-> g]>>

Codes == {"NONE", "RETURN", "CONTINUE", "BREAK", "THROW"}
=============================================================================
