------------------------- MODULE ControlFlow_proofs -------------------------
(* The searches of the control flow analysis, on every graph and in every  *)
(* order: what has been traversed is settled, and nothing is derived that  *)
(* some solution of the flow equations does not contain.                   *)
EXTENDS ControlFlow, FiniteSetTheorems, WellFoundedInduction, TLAPS

StageNames == {"access", "forward", "backward"}

(* The type invariant with what the code keeps constant: the graph.        *)
Typed ==
    /\ flow \in Flows
    /\ TypeOK
    /\ DOMAIN seen = StageNames
    /\ seen = [s \in StageNames |-> seen[s]]

LEMMA GraphFacts ==
    ASSUME flow \in Flows
    PROVE  /\ flow.entry \in Nodes /\ flow.exit \in Nodes /\ flow.revert \in Nodes
           /\ \A n \in Nodes : flow.exits[n] \subseteq Nodes
BY FlowsAssumption DEF Nodes

LEMMA MarkFacts ==
    ASSUME Typed, NEW n \in Nodes, stage \in StageNames, Mark(n)
    PROVE  /\ DOMAIN seen' = StageNames
           /\ seen' = [s \in StageNames |-> seen'[s]]
           /\ seen'[stage] = seen[stage] \cup {n}
           /\ \A s \in StageNames : s # stage => seen'[s] = seen[s]
BY DEF Typed, Mark, StageNames

LEMMA TypedInit == Init => Typed
<1> SUFFICES ASSUME Init PROVE Typed
  OBVIOUS
<1>1. flow.entry \in Nodes
  BY GraphFacts DEF Init
<1> QED BY <1>1 DEF Init, Typed, TypeOK, StageNames, Nodes

LEMMA SearchTyped ==
    ASSUME Typed, NEW n \in Nodes, NEW children, children \subseteq Nodes,
           stage \in {"forward", "backward"}, Search(n, children)
    PROVE  Typed'
<1>1. UNCHANGED <<flow, stage, atEntry, accesses>> /\ Mark(n) /\ todo' \subseteq Nodes
  BY DEF Search, Typed, TypeOK
<1>2. stage \in StageNames
  BY DEF StageNames
<1>3. \A s \in StageNames : seen'[s] \subseteq Nodes
  BY <1>1, <1>2, MarkFacts DEF Typed, TypeOK, StageNames
<1>4. DOMAIN seen' = StageNames /\ seen' = [s \in StageNames |-> seen'[s]]
  BY <1>1, <1>2, MarkFacts
<1> QED BY <1>1, <1>3, <1>4 DEF Typed, TypeOK, StageNames, Nodes

LEMMA TypedNext == Typed /\ [Next]_vars => Typed'
<1> SUFFICES ASSUME Typed, [Next]_vars PROVE Typed'
  OBVIOUS
<1>1. ASSUME NEW n \in Nodes, Traverse(n) PROVE Typed'
  <2>1. UNCHANGED <<flow, stage>> /\ stage = "access" /\ Mark(n)
    BY <1>1 DEF Traverse
  <2>2. DOMAIN atEntry' = Nodes /\ DOMAIN accesses' = Nodes
    BY <1>1 DEF Traverse, PassOn, Propagate
  <2>3. todo' \subseteq Nodes
    BY <1>1, GraphFacts DEF Traverse, Typed, TypeOK
  <2>4. \A s \in StageNames : seen'[s] \subseteq Nodes
    BY <2>1, MarkFacts DEF Typed, TypeOK, StageNames
  <2>5. DOMAIN seen' = StageNames /\ seen' = [s \in StageNames |-> seen'[s]]
    BY <2>1, MarkFacts DEF StageNames
  <2> QED BY <2>1, <2>2, <2>3, <2>4, <2>5 DEF Typed, TypeOK, StageNames, Nodes
<1>2. ASSUME NEW n \in Nodes, Forward(n) PROVE Typed'
  BY <1>2, SearchTyped, GraphFacts DEF Forward, Typed
<1>3. ASSUME NEW n \in Nodes, Backward(n) PROVE Typed'
  BY <1>3, SearchTyped DEF Backward, Entries
<1>4. ASSUME ReportAccesses PROVE Typed'
  BY <1>4, GraphFacts DEF ReportAccesses, Typed, TypeOK, Nodes
<1>5. ASSUME Turn PROVE Typed'
  BY <1>5, GraphFacts DEF Turn, Ends, Typed, TypeOK, Nodes
<1>6. ASSUME ReportUnreachable PROVE Typed'
  BY <1>6 DEF ReportUnreachable, Typed, TypeOK, Nodes
<1>7. ASSUME UNCHANGED vars PROVE Typed'
  BY <1>7 DEF vars, Typed, TypeOK, Nodes
<1> QED BY <1>1, <1>2, <1>3, <1>4, <1>5, <1>6, <1>7 DEF Next, Finished

(* The state of the analysis has its type on every graph.                  *)
THEOREM TypeCorrect == Spec => []TypeOK
<1>1. Typed => TypeOK
  BY DEF Typed
<1> QED BY TypedInit, TypedNext, <1>1, PTL DEF Spec

-----------------------------------------------------------------------------
SettledAt(n) ==
    /\ Found(n, atEntry[n]) \subseteq accesses[n]
    /\ \A m \in flow.exits[n] : /\ AtExit(n, atEntry[n]) \subseteq atEntry[m]
                                /\ accesses[n] \subseteq accesses[m]

\* A step of the first search settles the node it takes, and leaves those
\* settled whose own information it does not change.
LEMMA TraverseSettles ==
    ASSUME Typed, NEW k \in Nodes, Traverse(k), NEW n \in Nodes, n \notin todo',
           n = k \/ SettledAt(n)
    PROVE  SettledAt(n)'
<1> DEFINE bad == accesses[k] \cup Found(k, atEntry[k])
           out == AtExit(k, atEntry[k])
<1>1. /\ accesses' = [m \in Nodes |-> accesses[m] \cup (IF m = k \/ m \in flow.exits[k] THEN bad ELSE {})]
      /\ atEntry' = [m \in Nodes |-> IF m \in flow.exits[k] THEN atEntry[m] \cup out ELSE atEntry[m]]
      /\ flow' = flow
  BY DEF Traverse, PassOn, Propagate
<1>2. todo' = (todo \ {k}) \cup {m \in flow.exits[k] : ~(out \subseteq atEntry[m] /\ bad \subseteq accesses[m])}
  BY DEF Traverse
<1>3. flow.exits[n] \subseteq Nodes
  BY GraphFacts DEF Typed
<1>4. n \in flow.exits[k] => out \subseteq atEntry[n] /\ bad \subseteq accesses[n]
  BY <1>2
<1>5. atEntry'[n] = atEntry[n]
  BY <1>1, <1>4
<1>6. \A m \in Nodes : atEntry[m] \subseteq atEntry'[m] /\ accesses[m] \subseteq accesses'[m]
  BY <1>1
<1>7. AtExit(n, atEntry[n])' = AtExit(n, atEntry[n]) /\ Found(n, atEntry[n])' = Found(n, atEntry[n])
  BY <1>1, <1>5 DEF AtExit, Found
<1>8. CASE n = k
  <2>1. accesses'[n] = bad
    BY <1>1, <1>8
  <2>2. \A m \in flow.exits[n] : out \subseteq atEntry'[m] /\ bad \subseteq accesses'[m]
    BY <1>1, <1>3, <1>8
  <2> QED BY <2>1, <2>2, <1>7, <1>8, <1>1 DEF SettledAt
<1>9. CASE n # k
  <2>1. accesses'[n] = accesses[n]
    BY <1>1, <1>4, <1>9
  <2>2. /\ Found(n, atEntry[n]) \subseteq accesses[n]
        /\ \A m \in flow.exits[n] : /\ AtExit(n, atEntry[n]) \subseteq atEntry[m]
                                 /\ accesses[n] \subseteq accesses[m]
    BY <1>9 DEF SettledAt
  <2>3. Found(n, atEntry[n])' \subseteq accesses'[n]
    BY <2>1, <2>2, <1>7
  <2>4. flow'.exits[n] = flow.exits[n]
    BY <1>1
  <2>5. ASSUME NEW m \in flow.exits[n]
        PROVE  AtExit(n, atEntry[n])' \subseteq atEntry'[m] /\ accesses'[n] \subseteq accesses'[m]
    <3>1. m \in Nodes
      BY <1>3
    <3>2. atEntry[m] \subseteq atEntry'[m] /\ accesses[m] \subseteq accesses'[m]
      BY <1>6, <3>1
    <3> QED BY <2>1, <2>2, <1>7, <3>2
  <2> QED BY <2>3, <2>4, <2>5 DEF SettledAt
<1> QED BY <1>8, <1>9

LEMMA SettledNext == Typed /\ Settled /\ [Next]_vars => Settled'
<1> SUFFICES ASSUME Typed, Settled, [Next]_vars PROVE Settled'
  OBVIOUS
<1>0. \A n \in seen["access"] : n \in Nodes
  BY DEF Typed, TypeOK
<1>1. ASSUME NEW k \in Nodes, Traverse(k) PROVE Settled'
  <2>1. stage = "access" /\ stage' = "access" /\ Mark(k)
    BY <1>1 DEF Traverse
  <2>2. seen'["access"] = seen["access"] \cup {k}
    BY <2>1, MarkFacts DEF StageNames
  <2>3. SUFFICES ASSUME NEW n \in seen'["access"], n \notin todo' PROVE SettledAt(n)'
    BY <2>1 DEF Settled, SettledAt
  <2>4. n \in Nodes
    BY <2>2, <1>0
  <2>5. n = k \/ (n \in seen["access"] /\ n \notin todo)
    BY <2>2, <2>3, <1>1 DEF Traverse
  <2>6. n = k \/ SettledAt(n)
    BY <2>5 DEF Settled, SettledAt
  <2> QED BY <1>1, <2>3, <2>4, <2>6, TraverseSettles
<1>2. ASSUME NEW n \in Nodes, NEW children, stage \in {"forward", "backward"}, Search(n, children)
      PROVE  Settled'
  <2>1. UNCHANGED <<flow, stage, atEntry, accesses>> /\ Mark(n)
    BY <1>2 DEF Search
  <2>2. seen'["access"] = seen["access"]
    BY <2>1, <1>2, MarkFacts DEF StageNames
  <2> QED BY <1>2, <2>1, <2>2 DEF Settled, Found, AtExit
<1>3. ASSUME ReportAccesses PROVE Settled'
  BY <1>3 DEF ReportAccesses, Settled, Found, AtExit
<1>4. ASSUME Turn PROVE Settled'
  BY <1>4 DEF Turn, Settled, Found, AtExit
<1>5. ASSUME ReportUnreachable PROVE Settled'
  BY <1>5 DEF ReportUnreachable, Settled, Found, AtExit
<1>6. ASSUME UNCHANGED vars PROVE Settled'
  BY <1>6 DEF vars, Settled, Found, AtExit
<1> QED BY <1>1, <1>2, <1>3, <1>4, <1>5, <1>6 DEF Next, Forward, Backward, Finished

(* Whatever the order of the traversal, every node that has been traversed *)
(* and is not queued has passed on all it knows: at the end the result is  *)
(* closed under the flow equations of the nodes traversed.                 *)
THEOREM TraversedIsSettled == Spec => []Settled
<1>1. Init => Settled
  BY DEF Init, Settled
<1> QED BY <1>1, TypedInit, TypedNext, SettledNext, PTL DEF Spec

-----------------------------------------------------------------------------
(* What a path reaches: the rounds of Reachable, and where they end.       *)

LEMMA NatSetInduction ==
    ASSUME NEW S, 0 \in S, \A n \in Nat : n \in S => n + 1 \in S
    PROVE  Nat \subseteq S
<1> DEFINE R == {ss \in Nat \X Nat : ss[1] < ss[2]}
           T == Nat \ S
<1>1. IsWellFoundedOn(R, Nat)
  BY NatLessThanWellFounded DEF OpToRel
<1> SUFFICES ASSUME T # {} PROVE FALSE
  OBVIOUS
<1>2. PICK x \in T : \A y \in T : ~(<<y, x>> \in R)
  <2>1. T \subseteq Nat
    OBVIOUS
  <2> HIDE DEF T, R
  <2> QED
    BY <1>1, <2>1, WFMin
<1>3. x \in Nat /\ x \notin S /\ x # 0
  OBVIOUS
<1>4. x - 1 \in Nat /\ (x - 1) + 1 = x /\ x - 1 < x
  BY <1>3
<1>5. x - 1 \in S
  BY <1>2, <1>4
<1> QED
  BY <1>3, <1>4, <1>5

Round(from, edges, before, k) == IF k = 0 THEN from ELSE Onward(before, edges)

Rounds(f, from, edges, n) == f = [k \in 0..n |-> Round(from, edges, f[k - 1], k)]

LEMMA RoundsExist == ASSUME NEW from, NEW edges PROVE \A n \in Nat : \E f : Rounds(f, from, edges, n)
<1> DEFINE S == {n \in Nat : \E f : Rounds(f, from, edges, n)}
<1>1. 0 \in S
  <2> DEFINE f == [k \in 0..0 |-> from]
  <2>1. \A k \in 0..0 : k = 0
    OBVIOUS
  <2>2. f = [k \in 0..0 |-> Round(from, edges, f[k - 1], k)]
    BY <2>1 DEF Round
  <2>3. Rounds(f, from, edges, 0)
    BY <2>2 DEF Rounds
  <2> QED BY <2>3
<1>2. ASSUME NEW n \in Nat, n \in S PROVE n + 1 \in S
  <2>1. PICK f : Rounds(f, from, edges, n)
    BY <1>2
  <2> DEFINE g == [k \in 0..(n + 1) |-> IF k = n + 1 THEN Onward(f[n], edges) ELSE f[k]]
  <2>2. g = [k \in 0..(n + 1) |-> g[k]] /\ g[n + 1] = Onward(f[n], edges)
    OBVIOUS
  <2>3. \A k \in 0..n : g[k] = f[k]
    OBVIOUS
  <2>4. \A k \in 0..n : f[k] = Round(from, edges, f[k - 1], k)
    BY <2>1 DEF Rounds
  <2> HIDE DEF g
  <2>5. \A k \in 0..(n + 1) : g[k] = Round(from, edges, g[k - 1], k)
    <3> SUFFICES ASSUME NEW k \in 0..(n + 1) PROVE g[k] = Round(from, edges, g[k - 1], k)
      OBVIOUS
    <3>1. CASE k = n + 1
      <4>1. k - 1 = n /\ n \in 0..n /\ k # 0
        BY <3>1
      <4>2. g[k - 1] = f[n]
        BY <2>3, <4>1
      <4> QED BY <2>2, <3>1, <4>1, <4>2 DEF Round
    <3>2. CASE k = 0
      <4>1. g[0] = f[0] /\ f[0] = from
        BY <2>3, <2>4 DEF Round
      <4> QED BY <3>2, <4>1 DEF Round
    <3>3. CASE k \in 1..n
      <4>1. k - 1 \in 0..n /\ k \in 0..n
        BY <3>3
      <4> QED BY <2>3, <2>4, <4>1
    <3> QED BY <3>1, <3>2, <3>3
  <2>6. g = [k \in 0..(n + 1) |-> Round(from, edges, g[k - 1], k)]
    BY <2>2, <2>5
  <2>7. Rounds(g, from, edges, n + 1)
    BY <2>6 DEF Rounds
  <2> QED BY <2>7
<1> HIDE DEF S
<1>3. Nat \subseteq S
  BY <1>1, <1>2, NatSetInduction
<1> QED BY <1>3 DEF S

\* Reachable is the last of its rounds.
LEMMA ReachableIs ==
    ASSUME NEW from, NEW edges, NEW N \in Nat, N = Cardinality(DOMAIN edges)
    PROVE  \E f : /\ Reachable(from, edges) = f[N]
                  /\ f[0] = from
                  /\ \A k \in 0..(N - 1) : f[k + 1] = Onward(f[k], edges)
<1> DEFINE P(f) == f = [k \in 0..N |-> IF k = 0 THEN from ELSE Onward(f[k - 1], edges)]
           f == CHOOSE f : P(f)
<1>1. Reachable(from, edges) = f[N]
  BY Zenon DEF Reachable
<1>2. \A u : P(u) <=> Rounds(u, from, edges, N)
  BY DEF Rounds, Round
<1>3. \E u : P(u)
  BY <1>2, RoundsExist
<1>4. P(f)
  <2> HIDE DEF P
  <2> QED BY <1>3
<1>5. \A k \in 0..N : f[k] = IF k = 0 THEN from ELSE Onward(f[k - 1], edges)
  <2> HIDE DEF f
  <2> QED BY <1>4
<1> HIDE DEF f
<1>6. \A k \in 0..(N - 1) : k + 1 \in 0..N /\ k + 1 # 0 /\ (k + 1) - 1 = k
  OBVIOUS
<1>7. f[0] = from /\ \A k \in 0..(N - 1) : f[k + 1] = Onward(f[k], edges)
  BY <1>5, <1>6
<1> QED BY <1>1, <1>7

\* Edges of a finite graph, and a set of its nodes.
Drawn(from, edges) ==
    /\ IsFiniteSet(DOMAIN edges)
    /\ from \subseteq DOMAIN edges
    /\ \A n \in DOMAIN edges : edges[n] \subseteq DOMAIN edges

ClosedUnder(ns, edges) == \A n \in ns : edges[n] \subseteq ns

\* There are no more rounds that find something than there are nodes.
LEMMA ReachableClosed ==
    ASSUME NEW from, NEW edges, Drawn(from, edges)
    PROVE  /\ from \subseteq Reachable(from, edges)
           /\ Reachable(from, edges) \subseteq DOMAIN edges
           /\ ClosedUnder(Reachable(from, edges), edges)
<1>1. PICK N \in Nat : N = Cardinality(DOMAIN edges) /\ IsFiniteSet(DOMAIN edges)
  BY FS_CardinalityType DEF Drawn
<1>2. PICK f : /\ Reachable(from, edges) = f[N]
               /\ f[0] = from
               /\ \A k \in 0..(N - 1) : f[k + 1] = Onward(f[k], edges)
  BY <1>1, ReachableIs
<1> DEFINE Good(k) == /\ from \subseteq f[k] /\ f[k] \subseteq DOMAIN edges
                      /\ ClosedUnder(f[k], edges) \/ Cardinality(f[k]) >= k
           S == {k \in Nat : k <= N => Good(k)}
<1>3. 0 \in S
  <2>1. from \subseteq DOMAIN edges
    BY DEF Drawn
  <2>2. Cardinality(from) \in Nat
    BY <1>1, <2>1, FS_Subset, FS_CardinalityType
  <2> QED BY <1>2, <2>1, <2>2
<1>4. ASSUME NEW k \in Nat, k \in S PROVE k + 1 \in S
  <2> SUFFICES ASSUME k + 1 <= N PROVE Good(k + 1)
    OBVIOUS
  <2>1. k \in 0..(N - 1) /\ k <= N
    BY <1>1
  <2>2. Good(k)
    BY <1>4, <2>1
  <2>3. f[k + 1] = f[k] \cup UNION {edges[n] : n \in f[k]}
    BY <1>2, <2>1 DEF Onward
  <2>4. from \subseteq f[k + 1] /\ f[k] \subseteq f[k + 1] /\ f[k + 1] \subseteq DOMAIN edges
    BY <2>2, <2>3 DEF Drawn
  <2>5. CASE ClosedUnder(f[k], edges)
    <3>1. f[k + 1] = f[k]
      BY <2>3, <2>5 DEF ClosedUnder
    <3> QED BY <2>4, <2>5, <3>1
  <2>6. CASE ~ClosedUnder(f[k], edges)
    <3>1. f[k + 1] # f[k]
      BY <2>3, <2>6 DEF ClosedUnder
    <3>2. IsFiniteSet(f[k + 1]) /\ IsFiniteSet(f[k])
      BY <1>1, <2>2, <2>4, FS_Subset
    <3>3. Cardinality(f[k]) \in Nat /\ Cardinality(f[k + 1]) \in Nat
      BY <3>2, FS_CardinalityType
    <3>4. Cardinality(f[k]) <= Cardinality(f[k + 1]) /\ Cardinality(f[k]) # Cardinality(f[k + 1])
      BY <2>4, <3>1, <3>2, FS_Subset
    <3>5. Cardinality(f[k]) >= k
      BY <2>2, <2>6
    <3>6. Cardinality(f[k + 1]) >= k + 1
      BY <3>3, <3>4, <3>5
    <3> QED BY <2>4, <3>6
  <2> QED BY <2>5, <2>6
<1> HIDE DEF S
<1>5. Nat \subseteq S
  BY <1>3, <1>4, NatSetInduction
<1>6. Good(N)
  BY <1>1, <1>5 DEF S
<1>7. ClosedUnder(f[N], edges)
  <2>1. CASE Cardinality(f[N]) >= N
    <3>1. f[N] \in SUBSET DOMAIN edges
      BY <1>6
    <3>2. Cardinality(f[N]) <= N /\ Cardinality(f[N]) \in Nat /\ (N = Cardinality(f[N]) => DOMAIN edges = f[N])
      BY <1>1, <3>1, FS_Subset, FS_CardinalityType
    <3>3. f[N] = DOMAIN edges
      BY <1>1, <2>1, <3>2
    <3> QED BY <3>3 DEF ClosedUnder, Drawn
  <2> QED BY <1>6, <2>1
<1> QED BY <1>2, <1>6, <1>7

LEMMA ReachableLeast ==
    ASSUME NEW from, NEW edges, Drawn(from, edges), NEW ns, from \subseteq ns, ClosedUnder(ns, edges)
    PROVE  Reachable(from, edges) \subseteq ns
<1> DEFINE N == Cardinality(DOMAIN edges)
<1>1. N \in Nat
  BY FS_CardinalityType DEF Drawn
<1>2. PICK f : /\ Reachable(from, edges) = f[N]
               /\ f[0] = from
               /\ \A k \in 0..(N - 1) : f[k + 1] = Onward(f[k], edges)
  BY <1>1, ReachableIs
<1> DEFINE S == {k \in Nat : k <= N => f[k] \subseteq ns}
<1>3. 0 \in S
  BY <1>2
<1>4. ASSUME NEW k \in Nat, k \in S PROVE k + 1 \in S
  <2> SUFFICES ASSUME k + 1 <= N PROVE f[k + 1] \subseteq ns
    OBVIOUS
  <2>1. k \in 0..(N - 1) /\ k <= N
    BY <1>1
  <2>2. f[k] \subseteq ns
    BY <1>4, <2>1
  <2>3. f[k + 1] = f[k] \cup UNION {edges[n] : n \in f[k]}
    BY <1>2, <2>1 DEF Onward
  <2> QED BY <2>2, <2>3 DEF ClosedUnder
<1> HIDE DEF S
<1>5. Nat \subseteq S
  BY <1>3, <1>4, NatSetInduction
<1>6. f[N] \subseteq ns
  BY <1>1, <1>5 DEF S
<1> QED BY <1>2, <1>6

-----------------------------------------------------------------------------
(* A search under way: all that is seen or queued is reached, the starts   *)
(* are, and what is seen leads to nothing else.                            *)
Exploring(ns, queue, from, edges) ==
    /\ from \subseteq ns \cup queue
    /\ \A n \in ns : edges[n] \subseteq ns \cup queue
    /\ ns \cup queue \subseteq Reachable(from, edges)

LEMMA ExploringStarts ==
    ASSUME NEW from, NEW edges, Drawn(from, edges)
    PROVE  Exploring({}, from, from, edges)
BY ReachableClosed DEF Exploring

LEMMA ExploringGoesOn ==
    ASSUME NEW from, NEW edges, Drawn(from, edges), NEW ns, NEW queue,
           Exploring(ns, queue, from, edges), NEW n \in queue
    PROVE  Exploring(ns \cup {n}, (queue \ {n}) \cup (edges[n] \ (ns \cup {n})), from, edges)
<1>1. edges[n] \subseteq Reachable(from, edges)
  BY ReachableClosed DEF Exploring, ClosedUnder
<1> QED BY <1>1 DEF Exploring

LEMMA ExploringEnds ==
    ASSUME NEW from, NEW edges, Drawn(from, edges), NEW ns, Exploring(ns, {}, from, edges)
    PROVE  ns = Reachable(from, edges)
<1>1. from \subseteq ns /\ ClosedUnder(ns, edges) /\ ns \subseteq Reachable(from, edges)
  BY DEF Exploring, ClosedUnder
<1> QED BY <1>1, ReachableLeast

\* The two searches of a graph.
Backwards(f) == [n \in f.nodes |-> {m \in f.nodes : n \in f.exits[m]}]
LastOf(f)    == {f.exit, f.revert}

Ahead(f, ns, queue)  == Exploring(ns, queue, {f.entry}, f.exits)
Behind(f, ns, queue) == Exploring(ns, queue, LastOf(f), Backwards(f))

LEMMA GraphDrawn ==
    ASSUME NEW f \in Flows
    PROVE  Drawn({f.entry}, f.exits) /\ Drawn(LastOf(f), Backwards(f))
BY FlowsAssumption DEF Drawn, LastOf, Backwards

LEMMA EnteringIs == Ends = LastOf(flow) /\ Entering = Backwards(flow)
BY DEF Ends, LastOf, Entering, Entries, Backwards, Nodes

(* What the searches have done at each stage.                              *)
Searched ==
    /\ stage = "access" => seen["forward"] = {}
    /\ stage = "forward" => Ahead(flow, seen["forward"], todo)
    /\ stage \in {"backward", "done"} => Ahead(flow, seen["forward"], {})
    /\ stage \in {"access", "forward"} => seen["backward"] = {}
    /\ stage = "backward" => Behind(flow, seen["backward"], todo)
    /\ stage = "done" => Behind(flow, seen["backward"], {}) /\ reports.unreachable = Dead

LEMMA SearchedConnected == Typed /\ Searched => Connected
<1> SUFFICES ASSUME Typed, Searched PROVE Connected
  OBVIOUS
<1>1. flow \in Flows
  BY DEF Typed
<1>2. ASSUME stage \in {"backward", "done"} PROVE seen["forward"] = Reachable({flow.entry}, flow.exits)
  BY <1>1, <1>2, GraphDrawn, ExploringEnds DEF Searched, Ahead
<1>3. ASSUME stage = "done" PROVE seen["backward"] = Reachable(Ends, Entering)
  BY <1>1, <1>3, GraphDrawn, ExploringEnds, EnteringIs DEF Searched, Behind
<1> QED BY <1>2, <1>3 DEF Connected, Searched, Dead

LEMMA SearchedInit == Init => Searched
BY DEF Init, Searched

LEMMA SearchedNext == Typed /\ Searched /\ [Next]_vars => Searched'
<1> SUFFICES ASSUME Typed, Searched, [Next]_vars PROVE Searched'
  OBVIOUS
<1>0. flow \in Flows /\ stage \in StageNames \cup {"done"}
  BY DEF Typed, TypeOK, StageNames
<1>1. ASSUME NEW n \in Nodes, Traverse(n) PROVE Searched'
  <2>1. stage = "access" /\ UNCHANGED <<flow, stage>> /\ Mark(n)
    BY <1>1 DEF Traverse
  <2>2. seen'["forward"] = seen["forward"] /\ seen'["backward"] = seen["backward"]
    BY <2>1, MarkFacts DEF StageNames
  <2> QED BY <2>1, <2>2 DEF Searched
<1>2. ASSUME NEW n \in Nodes, Forward(n) PROVE Searched'
  <2>1. /\ stage = "forward" /\ UNCHANGED <<flow, stage>> /\ Mark(n) /\ n \in todo
        /\ todo' = (todo \ {n}) \cup (flow.exits[n] \ (seen["forward"] \cup {n}))
    BY <1>2 DEF Forward, Search
  <2>2. seen'["forward"] = seen["forward"] \cup {n} /\ seen'["backward"] = seen["backward"]
    BY <2>1, MarkFacts DEF StageNames
  <2>3. Ahead(flow, seen'["forward"], todo')
    BY <1>0, <2>1, <2>2, GraphDrawn, ExploringGoesOn DEF Searched, Ahead
  <2> QED BY <2>1, <2>2, <2>3 DEF Searched
<1>3. ASSUME NEW n \in Nodes, Backward(n) PROVE Searched'
  <2>1. /\ stage = "backward" /\ UNCHANGED <<flow, stage>> /\ Mark(n) /\ n \in todo
        /\ todo' = (todo \ {n}) \cup (Entries(n) \ (seen["backward"] \cup {n}))
    BY <1>3 DEF Backward, Search
  <2>2. seen'["backward"] = seen["backward"] \cup {n} /\ seen'["forward"] = seen["forward"]
    BY <2>1, MarkFacts DEF StageNames
  <2>3. Entries(n) = Backwards(flow)[n]
    BY DEF Entries, Backwards, Nodes
  <2>4. Behind(flow, seen["backward"] \cup {n},
               (todo \ {n}) \cup (Backwards(flow)[n] \ (seen["backward"] \cup {n})))
    <3>1. Drawn(LastOf(flow), Backwards(flow)) /\ n \in todo
      BY <1>0, <2>1, GraphDrawn
    <3>2. Exploring(seen["backward"], todo, LastOf(flow), Backwards(flow))
      BY <2>1 DEF Searched, Behind
    <3> QED BY <3>1, <3>2, ExploringGoesOn DEF Behind
  <2>5. Behind(flow, seen'["backward"], todo')
    BY <2>1, <2>2, <2>3, <2>4
  <2> QED BY <2>1, <2>2, <2>5 DEF Searched
<1>4. ASSUME ReportAccesses PROVE Searched'
  <2>1. stage = "access" /\ stage' = "forward" /\ todo' = {flow.entry} /\ UNCHANGED <<flow, seen>>
    BY <1>4 DEF ReportAccesses
  <2>2. Ahead(flow, {}, {flow.entry})
    BY <1>0, GraphDrawn, ExploringStarts DEF Ahead
  <2> QED BY <2>1, <2>2 DEF Searched
<1>5. ASSUME Turn PROVE Searched'
  <2>1. stage = "forward" /\ todo = {} /\ stage' = "backward" /\ todo' = LastOf(flow) /\ UNCHANGED <<flow, seen>>
    BY <1>5, EnteringIs DEF Turn
  <2>2. Behind(flow, {}, LastOf(flow))
    BY <1>0, GraphDrawn, ExploringStarts DEF Behind
  <2> QED BY <2>1, <2>2 DEF Searched
<1>6. ASSUME ReportUnreachable PROVE Searched'
  <2>1. /\ stage = "backward" /\ todo = {} /\ stage' = "done" /\ UNCHANGED <<flow, seen>>
        /\ reports'.unreachable = Dead
    BY <1>6 DEF ReportUnreachable
  <2> QED BY <2>1 DEF Searched, Dead
<1>7. ASSUME UNCHANGED vars PROVE Searched'
  BY <1>7 DEF vars, Searched, Dead
<1> QED BY <1>1, <1>2, <1>3, <1>4, <1>5, <1>6, <1>7 DEF Next, Finished

(* checkUnreachable, on every finite graph and in every order: the first   *)
(* search has seen what the entry leads to and nothing else, the second    *)
(* what leads to an end, and the code reported as unreachable is that of   *)
(* the nodes that lead to an end and that the entry does not lead to.      *)
THEOREM SearchIsComplete == Spec => []Connected
<1> QED BY SearchedInit, SearchedNext, TypedInit, TypedNext, SearchedConnected, PTL DEF Spec
=============================================================================
