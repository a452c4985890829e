----------------------------- MODULE Synthesis ------------------------------
(***************************************************************************)
(* SymExecEngine::synthesis: the mechanisms that the paths of a function   *)
(* have declared become one, g_mechanism, whose outcome is an ite over the *)
(* path conditions.  As in SymExec, an expression is a function of the     *)
(* input and a path condition a set of inputs.                             *)
(***************************************************************************)
EXTENDS Integers, Sequences

CONSTANTS
    Inputs,     \* assignments of the Z3 constants
    Values,     \* of allocations, prices and utilities
    Results     \* what strongestPostcondition may return for the function

\* What the merge looks at of a ContextInfo; type -1: declare_type is missing.
Context == [pc : SUBSET Inputs, type : Int, alloc : [Inputs -> Values],
            price : [Inputs -> Values], util : Seq([Inputs -> Values])]

\* PathsDisjoint of SymExec_proofs: no input is on two paths.
Apart(cs) == \A k, l \in DOMAIN cs : k # l => cs[k].pc \cap cs[l].pc = {}

ASSUME ResultsAssumption ==
    \A cs \in Results : cs \in Seq(Context) /\ Apart(cs)

VARIABLES
    contexts,   \* the paths, in the order the executor returns them
    index,      \* paths merged so far
    g,          \* g_mechanism: the outcome
    preCond,    \* g_mechanism.preCond
    crashed     \* undefined behaviour or an exception of std::vector

vars == <<contexts, index, g, preCond, crashed>>

Nothing == [type |-> -1, util |-> <<>>]
Outcome(c) ==
    [type |-> c.type, alloc |-> c.alloc, price |-> c.price, util |-> c.util]

\* Fault: the alternatives of the ite are swapped.
IteSwapped(p, e, old) == [w \in Inputs |-> IF w \in p THEN old[w] ELSE e[w]]

Ite(p, e, old) == [w \in Inputs |-> IF w \in p THEN e[w] ELSE old[w]]

\* Fault: as many utilities as this path declares.
UtilitiesOfPath(p, new, old) ==
    [j \in DOMAIN new |-> IF j \in DOMAIN old THEN Ite(p, new[j], old[j]) ELSE new[j]]

Utilities(p, new, old) ==
    [j \in DOMAIN old |-> IF j \in DOMAIN new THEN Ite(p, new[j], old[j]) ELSE old[j]]

Init == /\ contexts \in Results
        /\ index = 0
        /\ g = Nothing
        /\ preCond = Inputs
        /\ crashed = FALSE

Crash == crashed' = TRUE /\ UNCHANGED <<contexts, index, g, preCond>>

\* g_mechanism = contexts[0].mechanism, which has to exist.
First ==
    /\ ~crashed /\ index = 0
    /\ IF contexts = <<>> THEN Crash
       ELSE /\ g' = Outcome(contexts[1])
            /\ index' = 1
            /\ preCond' = IF g'.type = -1 THEN preCond ELSE contexts[1].pc
            /\ UNCHANGED <<contexts, crashed>>

\* Without a type nothing is merged.  A path may declare fewer utilities than
\* the first one, never more.
Merge ==
    /\ ~crashed /\ index \in 1..(Len(contexts) - 1) /\ g.type # -1
    /\ LET c == contexts[index + 1]
       IN  IF Len(c.util) > Len(g.util) THEN Crash
           ELSE /\ g' = [type  |-> g.type,
                          alloc |-> Ite(c.pc, c.alloc, g.alloc),
                          price |-> Ite(c.pc, c.price, g.price),
                          util  |-> Utilities(c.pc, c.util, g.util)]
                /\ preCond' = preCond \cup c.pc
                /\ index' = index + 1
                /\ UNCHANGED <<contexts, crashed>>

Merged == index > 0 /\ (g.type = -1 \/ index = Len(contexts))

Done == (crashed \/ Merged) /\ UNCHANGED vars

Next == First \/ Merge \/ Done

Spec == Init /\ [][Next]_vars

-----------------------------------------------------------------------------
(* Type invariant: the outcome has the shape the first path gave it.       *)
OutcomeOK == /\ g.alloc \in [Inputs -> Values]
             /\ g.price \in [Inputs -> Values]
             /\ g.util \in Seq([Inputs -> Values])
             /\ g.type = contexts[1].type
             /\ Len(g.util) = Len(contexts[1].util)

TypeOK == /\ contexts \in Results
          /\ index \in 0..Len(contexts)
          /\ preCond \subseteq Inputs
          /\ crashed \in BOOLEAN
          /\ index > 0 => OutcomeOK

(* Every input that preCond admits has the outcome of a path it is on,     *)
(* whatever the order of the paths, and no path is left out: the solver    *)
(* queries of Mechanism are about runs of the contract.                    *)
On(c, w) == /\ g.alloc[w] = c.alloc[w]
            /\ g.price[w] = c.price[w]
            /\ \A j \in DOMAIN c.util : g.util[j][w] = c.util[j][w]

OutcomeOfItsPath ==
    Merged /\ g.type # -1 =>
        /\ \A k \in DOMAIN contexts : contexts[k].pc \subseteq preCond
        /\ \A w \in preCond : \E k \in DOMAIN contexts :
               w \in contexts[k].pc /\ On(contexts[k], w)
=============================================================================
