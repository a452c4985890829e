---------------------------- MODULE ControlFlow -----------------------------
(***************************************************************************)
(* ControlFlowAnalyzer of the compiler front end: on the graph of one      *)
(* function it looks for storage pointers that are accessed before they    *)
(* are assigned, and for code nothing reaches.  Both searches keep the     *)
(* nodes to visit in a set of addresses, so that the order is any.         *)
(*                                                                         *)
(* What a node does to the unassigned variables is summed up: those it     *)
(* leaves unassigned whatever comes in (gen), those it assigns (kill), the *)
(* accesses that depend on what comes in (uses) and those that do not      *)
(* (always), storage pointers only.                                        *)
(***************************************************************************)
EXTENDS Naturals, FiniteSets

CONSTANTS
    Flows      \* graphs: nodes, entry, exit, revert, exits, gen, kill, uses, always, code

VARIABLES
    flow,        \* the graph of the function that is analysed
    stage,       \* which search runs
    atEntry,     \* unassignedVariablesAtEntry
    accesses,    \* uninitializedVariableAccesses
    todo,        \* nodesToTraverse, verticesToTraverse
    seen,        \* nodes traversed, by the stage
    reports      \* errors and warnings: what is accessed, what is unreachable

vars == <<flow, stage, atEntry, accesses, todo, seen, reports>>

Nodes == flow.nodes

ASSUME FlowsAssumption ==
    \A f \in Flows :
        /\ IsFiniteSet(f.nodes)
        /\ {f.entry, f.exit, f.revert} \subseteq f.nodes
        /\ f.exits \in [f.nodes -> SUBSET f.nodes]

-----------------------------------------------------------------------------
\* unassignedVariablesAtExit and the accesses found at a node.
AtExit(n, un) == (un \ flow.kill[n]) \cup flow.gen[n]
Found(n, un)  == flow.always[n] \cup {o \in flow.uses[n] : o.var \in un}

Init ==
    /\ flow \in Flows
    /\ stage = "access"
    /\ atEntry = [n \in Nodes |-> {}] /\ accesses = [n \in Nodes |-> {}]
    /\ todo = {flow.entry}
    /\ seen = [s \in {"access", "forward", "backward"} |-> {}]
    /\ reports = [uninitialized |-> {}, unreachable |-> {}]

Mark(n) == seen' = [seen EXCEPT ![stage] = @ \cup {n}]

\* The accesses of n and of the nodes it leads to.
PassOn(n, bad) == [m \in Nodes |-> accesses[m] \cup (IF m = n \/ m \in flow.exits[n] THEN bad ELSE {})]

\* Fault: what comes in replaces what came in before.
Replace(n, out) == [m \in Nodes |-> IF m \in flow.exits[n] THEN out ELSE atEntry[m]]

Propagate(n, out) == [m \in Nodes |-> IF m \in flow.exits[n] THEN atEntry[m] \cup out ELSE atEntry[m]]

\* An exit is queued only when something is new for it.
Traverse(n) ==
    /\ stage = "access" /\ n \in todo
    /\ LET bad == accesses[n] \cup Found(n, atEntry[n])
           out == AtExit(n, atEntry[n])
       IN  /\ accesses' = PassOn(n, bad)
           /\ atEntry' = Propagate(n, out)
           /\ todo' = (todo \ {n}) \cup
                  {m \in flow.exits[n] : ~(out \subseteq atEntry[m] /\ bad \subseteq accesses[m])}
    /\ Mark(n)
    /\ UNCHANGED <<flow, stage, reports>>

ReportAccesses ==
    /\ stage = "access" /\ todo = {}
    /\ reports' = [reports EXCEPT !.uninitialized = accesses[flow.exit]]
    /\ stage' = "forward" /\ todo' = {flow.entry}
    /\ UNCHANGED <<flow, atEntry, accesses, seen>>

\* BreadthFirstSearch along the exits from the entry, then along the entries
\* from the ends.
Entries(n) == {m \in Nodes : n \in flow.exits[m]}

\* Fault: a vertex that has been visited is queued again.
SearchAgain(n, children) ==
    /\ n \in todo
    /\ Mark(n)
    /\ todo' = (todo \ {n}) \cup children
    /\ UNCHANGED <<flow, stage, atEntry, accesses, reports>>

\* Fault: the children replace what is queued.
SearchOnward(n, children) ==
    /\ n \in todo
    /\ Mark(n)
    /\ todo' = children \ (seen[stage] \cup {n})
    /\ UNCHANGED <<flow, stage, atEntry, accesses, reports>>

Search(n, children) ==
    /\ n \in todo
    /\ Mark(n)
    /\ todo' = (todo \ {n}) \cup (children \ (seen[stage] \cup {n}))
    /\ UNCHANGED <<flow, stage, atEntry, accesses, reports>>

Forward(n)  == stage = "forward" /\ Search(n, flow.exits[n])
Backward(n) == stage = "backward" /\ Search(n, Entries(n))

Ends == {flow.exit, flow.revert}

Turn ==
    /\ stage = "forward" /\ todo = {}
    /\ stage' = "backward" /\ todo' = Ends
    /\ UNCHANGED <<flow, atEntry, accesses, seen, reports>>

Dead == UNION {flow.code[n] : n \in seen["backward"] \ seen["forward"]}

ReportUnreachable ==
    /\ stage = "backward" /\ todo = {}
    /\ reports' = [reports EXCEPT !.unreachable = Dead]
    /\ stage' = "done"
    /\ UNCHANGED <<flow, atEntry, accesses, todo, seen>>

Finished == stage = "done" /\ UNCHANGED vars

Next == \/ \E n \in Nodes : Traverse(n) \/ Forward(n) \/ Backward(n)
        \/ ReportAccesses \/ Turn \/ ReportUnreachable \/ Finished

Spec     == Init /\ [][Next]_vars
FairSpec == Spec /\ WF_vars(Next)

-----------------------------------------------------------------------------
(* Sets of nodes of this graph, and one set of accesses for each.          *)
TypeOK ==
    /\ stage \in {"access", "forward", "backward", "done"}
    /\ DOMAIN atEntry = Nodes /\ DOMAIN accesses = Nodes
    /\ todo \subseteq Nodes
    /\ \A s \in {"access", "forward", "backward"} : seen[s] \subseteq Nodes

(* A node that has been traversed and is not queued has given its exits    *)
(* all it has: whatever the order, the result is closed under the graph.   *)
Settled ==
    \A n \in seen["access"] :
        stage # "access" \/ n \notin todo =>
            /\ Found(n, atEntry[n]) \subseteq accesses[n]
            /\ \A m \in flow.exits[n] : /\ AtExit(n, atEntry[n]) \subseteq atEntry[m]
                                     /\ accesses[n] \subseteq accesses[m]

Onward(ns, edges) == ns \cup UNION {edges[n] : n \in ns}

\* The nodes that a path along the edges reaches from a set, a step at a time.
Reachable(from, edges) ==
    LET within[k \in 0..Cardinality(DOMAIN edges)] ==
            IF k = 0 THEN from ELSE Onward(within[k - 1], edges)
    IN  within[Cardinality(DOMAIN edges)]

Entering == [n \in Nodes |-> Entries(n)]

(* The searches of checkUnreachable end with exactly what is connected:    *)
(* with the nodes that the entry leads to, and with those that lead to an  *)
(* end.  What is reported as unreachable is the code of the nodes that     *)
(* lead to an end and that the entry does not lead to, and all of it.      *)
Connected ==
    /\ stage \in {"backward", "done"} => seen["forward"] = Reachable({flow.entry}, flow.exits)
    /\ stage = "done" =>
         /\ seen["backward"] = Reachable(Ends, Entering)
         /\ reports.unreachable =
               UNION {flow.code[n] : n \in Reachable(Ends, Entering)
                                            \ Reachable({flow.entry}, flow.exits)}

(* The analysis comes to an end in any order.                              *)
Terminates == <>(stage = "done")
=============================================================================
