----------------------------- MODULE SymExecRun -----------------------------
(***************************************************************************)
(* The symbolic executor next to one input of the contract, and the        *)
(* refinement: the context whose path condition the input satisfies is,    *)
(* evaluated at the input, the concrete run on it.                         *)
(***************************************************************************)
EXTENDS SymExec

CONSTANTS MaxDepth

ASSUME MaxDepthAssumption == MaxDepth \in Nat \ {0}

VARIABLES probe     \* an input, chosen once

Covering(i) == {c \in ctxs : i \in c.pc /\ c.code # "THROW"}

Cells == {key \in Vars \X (1..MaxDepth) : key[1] \in StateVars => key[2] = 1}

CellValue(c, key, i) ==
    IF key[1] \in StateVars THEN c.state[key[1]][i]
    ELSE IF key \in DOMAIN c.local THEN c.local[key][i] ELSE Symbol(key)[i]

AtInput(c, i) ==
    [alive  |-> TRUE,
     vals   |-> [key \in Cells |-> CellValue(c, key, i)],
     goHead |-> c.goHead, code |-> c.code, scope |-> c.scope, depth |-> c.depth,
     decls  |-> [j \in DOMAIN c.decls |->
                    [tag |-> c.decls[j].tag, v |-> c.decls[j].v[i]]],
     k      |-> c.k]

RunOf(i) == IF Covering(i) = {} THEN [alive |-> FALSE]
            ELSE AtInput(CHOOSE c \in Covering(i) : TRUE, i)

Concrete == INSTANCE SolidityRun WITH run <- RunOf(probe), start <- entry

RInit == Init /\ probe \in Inputs
RNext == Next /\ UNCHANGED probe
RSpec == RInit /\ [][RNext]_<<vars, probe>>

(***************************************************************************)
(* Every path is a run: whatever branches, loops, calls, returns and       *)
(* reverts a path goes through, each input in its path condition runs      *)
(* through the same statements to the values the path holds for it, and    *)
(* declares the same mechanism.  An input is given up only where           *)
(* SolidityRun says.                                                       *)
(***************************************************************************)
FollowsRun == Concrete!RunSpec

(***************************************************************************)
(* f starts no function twice at a time: heights of statements and levels  *)
(* of functions that fall from a statement to the blocks it holds, from a  *)
(* call to the callee and from a function to its body, for all that f may  *)
(* reach.  Under recursion the executor names the state variables of a     *)
(* second activation like its locals.                                      *)
(***************************************************************************)
Falls(f, height, level) ==
    /\ \A g \in Funcs : level[g] <= level[f] =>
           \A j \in DOMAIN Fun[g].body : height[Fun[g].body[j]] < level[g]
    /\ \A s \in Stmt : height[s] < level[f] =>
           /\ \A block \in {Ast[s].body, Ast[s].alt, Ast[s].step} :
                  \A j \in DOMAIN block : height[block[j]] < height[s]
           /\ Ast[s].op = "call" => level[Ast[s].f] < height[s]

NoRecursion(f) ==
    \E height \in [Stmt -> Nat], level \in [Funcs -> Nat] : Falls(f, height, level)
=============================================================================
