------------------------ MODULE CompilerStack_proofs ------------------------
(* What main and CompilerStack promise, for all projects: no error is left *)
(* when the engine is run, nothing that was loaded escapes the passes, the *)
(* units are in the order of their imports, an import names the file       *)
(* beside its unit, a unit sees what its imports bring, and a              *)
(* linearization is what its bases demand.                                 *)
EXTENDS CompilerStack, TLAPS, SequenceTheorems, FiniteSetTheorems, WellFoundedInduction

-----------------------------------------------------------------------------
(* That no error is left: post examines every unit of what is accepted,    *)
(* and returns whether the list of the errors of all passes is empty; what *)
(* runs after it adds an error only with noErrors cleared.                 *)

Known ==
    /\ stage \in {"start", "parsing", "parsed"} => pass = 1
    /\ pass \in Nat \ {0}
    /\ stage = "analysing" /\ pass > 8 /\ ok => errors = {}
    /\ Accepted => errors = {}

\* The places of the passes that matter.
LEMMA Places ==
    ASSUME Known, NEW p, Running(p)
    PROVE  /\ stage = "analysing"
           /\ pass = 8 => p = "post"
           /\ pass > 8 => p \in {"cfg", "flow", "static", "mutability", "smt"}
           /\ p \in {"register", "import", "resolve"} => pass < 8
<1>1. Len(Passes) = 13
  BY DEF Passes
<1>2. pass \in 1..13 /\ Passes[pass] = p /\ stage = "analysing"
  BY <1>1 DEF Running, Known
<1> QED BY <1>2 DEF Passes

\* To the next unit or the next pass.
LEMMA ForwardKnown ==
    ASSUME Known, Forward, stage = "analysing", pass < 8 \/ (ok' => errors' = {})
    PROVE  Known'
<1>1. stage' = "analysing" /\ (pass' = pass \/ pass' = pass + 1)
  BY DEF Forward
<1>2. pass' \in Nat \ {0} /\ (pass < 8 => ~(pass' > 8))
  BY <1>1 DEF Known
<1> QED BY <1>1, <1>2 DEF Known, Accepted

LEMMA GiveUpKnown == ASSUME Known, GiveUp PROVE Known'
BY DEF Known, GiveUp, Accepted

\* What a check after post returns.
LEMMA CheckKnown ==
    ASSUME Known, NEW p \in Checks, Check(p)
    PROVE  Known'
<1>1. Running(p)
  BY DEF Check
<1>2. stage = "analysing" /\ (pass = 8 => p = "post")
      /\ (pass > 8 => p \in {"cfg", "flow", "static", "mutability", "smt"})
  BY <1>1, Places
<1>3. CASE GiveUp
  BY <1>3, GiveUpKnown
<1>4. CASE Forward
  <2>1. ASSUME pass >= 8, ok' PROVE errors' = {}
    <3>1. PICK wrong : /\ wrong = (Wrong(p) \/ (p = "contracts" /\ \E d \in ContractsOf(Unit) : ContractWrong(Chain(d))))
                       /\ Report(p, wrong)
                       /\ ok' = (ok /\ Returned(p, wrong))
      BY DEF Check
    <3>2. pass \in Nat
      BY DEF Known
    <3>3. p \in {"post", "cfg", "flow", "static", "smt"}
      BY <1>2, <2>1, <3>2 DEF Checks
    <3>4. ok /\ Returned(p, wrong)
      BY <3>1, <2>1
    <3>5. CASE p = "smt"
      <4>1. ~wrong
        BY <3>1, <3>5 DEF Wrong
      <4>2. errors' = errors
        BY <3>1, <4>1 DEF Report
      <4>3. errors = {}
        BY <3>4, <3>5, <1>2, <2>1, <3>2 DEF Known
      <4> QED BY <4>2, <4>3
    <3>6. CASE p # "smt"
      BY <3>3, <3>4, <3>6 DEF Returned
    <3> QED BY <3>5, <3>6
  <2>2. pass < 8 \/ pass >= 8
    BY DEF Known
  <2> QED BY <1>2, <1>4, <2>1, <2>2, ForwardKnown
<1> QED BY <1>3, <1>4 DEF Check

LEMMA KnownNext == Known /\ [Next]_vars => Known'
<1> SUFFICES ASSUME Known, [Next]_vars PROVE Known'
  OBVIOUS
<1>1. CASE ReadMain
  BY <1>1 DEF ReadMain, Known, Accepted
<1>2. CASE Parse
  BY <1>2 DEF Parse, Known, Accepted
<1>3. CASE ParsingDone
  BY <1>3 DEF ParsingDone, Known, Accepted
<1>4. CASE ResolveImports
  BY <1>4 DEF ResolveImports, Known, Accepted
<1>5. ASSUME NEW p \in Checks, Check(p) PROVE Known'
  BY <1>5, CheckKnown
<1>6. CASE RegisterDeclarations
  <2>1. Forward /\ Running("register")
    BY <1>6 DEF RegisterDeclarations
  <2> QED BY <2>1, Places, ForwardKnown
<1>7. CASE PerformImports
  <2>1. Running("import") /\ (Forward \/ GiveUp)
    BY <1>7 DEF PerformImports
  <2> QED BY <2>1, Places, ForwardKnown, GiveUpKnown
<1>8. CASE ResolveNames
  <2>1. Running("resolve") /\ (Forward \/ GiveUp)
    BY <1>8 DEF ResolveNames
  <2> QED BY <2>1, Places, ForwardKnown, GiveUpKnown
<1>9. CASE CheckMutability
  <2>1. Running("mutability") /\ stage' = stage /\ pass' = pass + 1
    BY <1>9 DEF CheckMutability
  <2>2. stage = "analysing" /\ pass \in Nat \ {0}
    BY <2>1, Places DEF Known
  <2>3. pass > 8
    <3>1. Len(Passes) = 13
      BY DEF Passes
    <3>2. pass \in 1..13 /\ Passes[pass] = "mutability"
      BY <2>1, <2>2, <3>1 DEF Running
    <3> QED BY <3>2 DEF Passes
  <2>4. PICK wrong : /\ errors' = errors \cup {<<"mutability", u>> : u \in wrong}
                     /\ ok' = (ok /\ wrong = {})
    BY <1>9 DEF CheckMutability
  <2>5. ok' => errors' = {}
    BY <2>2, <2>3, <2>4 DEF Known
  <2> QED BY <2>1, <2>2, <2>5 DEF Known, Accepted
<1>10. CASE Leave
  <2>1. CASE pass > Len(Passes) /\ stage' = IF ok THEN "analysed" ELSE "rejected"
    <3>1. pass > 8 /\ stage = "analysing" /\ errors' = errors /\ pass' = pass
      BY <1>10, <2>1 DEF Leave, Passes, Known
    <3> QED BY <2>1, <3>1 DEF Known, Accepted
  <2>2. CASE stage' = "rejected"
    BY <1>10, <2>2 DEF Leave, Known, Accepted
  <2> QED BY <1>10, <2>1, <2>2 DEF Leave
<1>11. CASE RunEngine
  BY <1>11 DEF RunEngine, Known, Accepted
<1>12. CASE UNCHANGED vars
  BY <1>12 DEF vars, Known, Accepted
<1> QED BY <1>1, <1>2, <1>3, <1>4, <1>5, <1>6, <1>7, <1>8, <1>9, <1>10, <1>11, <1>12 DEF Next, Over

(* analyze: the engine is only run on projects of which nothing was        *)
(* reported, whatever the files are and whatever the single checks do.     *)
THEOREM AcceptedIsClean == Spec => []NoErrorLeft
<1>1. Init => Known
  BY DEF Init, Known, Accepted
<1>2. Known => NoErrorLeft
  BY DEF Known, NoErrorLeft
<1> QED BY <1>1, <1>2, KnownNext, PTL DEF Spec

-----------------------------------------------------------------------------
(* The folds of the model: what is kept of a sequence, the imports of a    *)
(* unit and the units of the map in the search for their order, the        *)
(* contracts that are resolved, and the merge of linearizations.           *)

LEMMA NatSetInduction ==
    ASSUME NEW S, 0 \in S, \A n \in Nat : n \in S => n + 1 \in S
    PROVE  Nat \subseteq S
<1> DEFINE R == {ss \in Nat \X Nat : ss[1] < ss[2]}
           T == Nat \ S
<1>1. IsWellFoundedOn(R, Nat)
  BY NatLessThanWellFounded DEF OpToRel
<1> SUFFICES ASSUME T # {} PROVE FALSE
  OBVIOUS
<1>2. PICK x \in T : \A y \in T : ~(<<y, x>> \in R)
  <2>1. T \subseteq Nat
    OBVIOUS
  <2> HIDE DEF T, R
  <2> QED
    BY <1>1, <2>1, WFMin
<1>3. x \in Nat /\ x \notin S /\ x # 0
  OBVIOUS
<1>4. x - 1 \in Nat /\ (x - 1) + 1 = x /\ x - 1 < x
  BY <1>3
<1>5. x - 1 \in S
  BY <1>2, <1>4
<1> QED
  BY <1>3, <1>4, <1>5

\* One more import of the unit p.unit, where p.search continues the search.
ImportOne(p, st, node) == IF node.kind = "import" THEN p.search[Target(p.unit, node)][st] ELSE st

\* One more candidate of the merge.
MergeOneMore(st) ==
    LET k == SelectInSeq(st.left, LAMBDA l : AppearsOnlyAtHead(Head(l), st.left))
    IN  IF k = 0 THEN st
        ELSE [left   |-> RemoveCandidate(Head(st.left[k]), st.left),
              result |-> Append(st.result, Head(st.left[k]))]

\* One more import into the scope of u.
Extended(st, node, from) ==
    LET pairs == Imported(node, from)
        fresh == {q \in pairs : q[1] \notin DOMAIN st.scope}
    IN  [scope |-> [n \in DOMAIN st.scope \cup {q[1] : q \in fresh} |->
                       IF n \in DOMAIN st.scope THEN st.scope[n] ELSE (CHOOSE q \in fresh : q[1] = n)[2]],
         error |-> st.error \/ NotFound(node, from) \/ Clashes(st.scope, pairs)]

AddImport(u, sc, target, st, node) ==
    LET from == IF target[node.path] = u THEN st.scope ELSE sc[target[node.path]]
    IN  IF node.kind # "import" THEN st ELSE Extended(st, node, from)

OneMore(what, p, v, x) ==
    IF what = "kept" THEN IF x \in p THEN Append(v, x) ELSE v
    ELSE IF what = "imports" THEN ImportOne(p, v, x)
    ELSE IF what = "units" THEN p[x][v]
    ELSE IF what = "contracts" THEN ResolveContract(v, x)
    ELSE IF what = "absolute" THEN Climb(v, x)
    ELSE IF what = "canonical" THEN Normal(v, x)
    ELSE IF what = "scope" THEN AddImport(p.unit, p.scopes, p.target, v, x)
    ELSE MergeOneMore(v)

\* FoldLeft is defined on the sets of positions; it[1..k] is its value after
\* k elements.
FoldOn(it, what, p, base, seq, n) ==
    it = [s \in SUBSET (1..n) |->
             IF s = {} THEN base
             ELSE OneMore(what, p, it[s \ {Max(s)}], seq[Max(s)])]

LEMMA MaxOf ==
    ASSUME NEW n \in Nat, NEW s, n \in s, \A y \in s : n >= y, s \subseteq Nat
    PROVE  Max(s) = n
<1>1. \A x \in s : (\A y \in s : x >= y) => x = n
  OBVIOUS
<1>2. Max(s) \in s /\ \A y \in s : Max(s) >= y
  BY DEF Max
<1> QED
  BY <1>1, <1>2

LEMMA FoldExists ==
    ASSUME NEW what, NEW p, NEW base, NEW seq
    PROVE  \A n \in Nat : \E it : FoldOn(it, what, p, base, seq, n)
<1> DEFINE S == {n \in Nat : \E it : FoldOn(it, what, p, base, seq, n)}
           val(it, s) == IF s = {} THEN base
                         ELSE OneMore(what, p, it[s \ {Max(s)}], seq[Max(s)])
<1>1. 0 \in S
  <2> DEFINE it == [s \in SUBSET (1..0) |-> base]
  <2>1. \A s \in SUBSET (1..0) : s = {}
    OBVIOUS
  <2>2. it = [s \in SUBSET (1..0) |-> val(it, s)]
    BY <2>1
  <2>3. FoldOn(it, what, p, base, seq, 0)
    BY <2>2 DEF FoldOn
  <2> QED
    BY <2>3
<1>2. ASSUME NEW n \in Nat, n \in S PROVE n + 1 \in S
  <2>1. PICK it : FoldOn(it, what, p, base, seq, n)
    BY <1>2
  <2> DEFINE t == [s \in SUBSET (1..(n + 1)) |->
                      IF n + 1 \in s
                      THEN OneMore(what, p, it[s \ {n + 1}], seq[n + 1]) ELSE it[s]]
  <2>2. ASSUME NEW s \in SUBSET (1..(n + 1)) PROVE t[s] = val(t, s)
    <3>1. CASE n + 1 \in s
      <4>0. n + 1 \in Nat /\ (\A y \in s : n + 1 >= y) /\ s \subseteq Nat
        OBVIOUS
      <4>1. Max(s) = n + 1 /\ s # {}
        BY <3>1, <4>0, MaxOf
      <4>2. s \ {n + 1} \in SUBSET (1..(n + 1)) /\ n + 1 \notin s \ {n + 1}
        OBVIOUS
      <4>3. t[s \ {n + 1}] = it[s \ {n + 1}]
        BY <4>2
      <4>4. t[s] = OneMore(what, p, it[s \ {n + 1}], seq[n + 1])
        BY <3>1
      <4> HIDE DEF t
      <4> QED
        BY <4>1, <4>3, <4>4
    <3>2. CASE n + 1 \notin s
      <4>1. s \in SUBSET (1..n)
        BY <3>2
      <4>2. it[s] = val(it, s)
        BY <2>1, <4>1 DEF FoldOn
      <4>3. s \ {Max(s)} \in SUBSET (1..(n + 1)) /\ n + 1 \notin s \ {Max(s)}
        BY <3>2
      <4>4. t[s] = it[s] /\ t[s \ {Max(s)}] = it[s \ {Max(s)}]
        BY <3>2, <4>3
      <4> HIDE DEF t
      <4> QED
        BY <4>2, <4>4
    <3> QED
      BY <3>1, <3>2
  <2>3. t = [s \in SUBSET (1..(n + 1)) |-> t[s]]
    OBVIOUS
  <2> HIDE DEF t
  <2>4. t = [s \in SUBSET (1..(n + 1)) |-> val(t, s)]
    BY <2>2, <2>3
  <2>5. FoldOn(t, what, p, base, seq, n + 1)
    BY <2>4 DEF FoldOn
  <2> QED
    BY <2>5
<1> HIDE DEF S
<1>3. Nat \subseteq S
  BY <1>1, <1>2, NatSetInduction
<1> QED
  BY <1>3 DEF S

\* The values after 0, 1, ..., n elements.
Loop(it, what, p, base, seq, n) ==
    /\ it[1..0] = base
    /\ \A k \in 0..(n - 1) : it[1..(k + 1)] = OneMore(what, p, it[1..k], seq[k + 1])

LEMMA FoldLoop ==
    ASSUME NEW it, NEW what, NEW p, NEW base, NEW seq, NEW n \in Nat,
           FoldOn(it, what, p, base, seq, n)
    PROVE  Loop(it, what, p, base, seq, n)
<1>1. ASSUME NEW s \in SUBSET (1..n)
      PROVE  it[s] = IF s = {} THEN base
                     ELSE OneMore(what, p, it[s \ {Max(s)}], seq[Max(s)])
  BY DEF FoldOn
<1>2. it[1..0] = base
  <2>1. 1..0 = {} /\ 1..0 \in SUBSET (1..n)
    OBVIOUS
  <2> QED
    BY <1>1, <2>1
<1>3. ASSUME NEW k \in 0..(n - 1)
      PROVE  it[1..(k + 1)] = OneMore(what, p, it[1..k], seq[k + 1])
  <2>1. 1..(k + 1) \in SUBSET (1..n) /\ 1..(k + 1) # {}
    OBVIOUS
  <2>2. Max(1..(k + 1)) = k + 1
    BY MaxOf
  <2>3. (1..(k + 1)) \ {k + 1} = 1..k
    OBVIOUS
  <2> QED
    BY <1>1, <2>1, <2>2, <2>3
<1> QED
  BY <1>2, <1>3 DEF Loop

\* Each fold of the model is such a loop.
LEMMA KeptLoop ==
    ASSUME NEW seq, NEW K, NEW n \in Nat, DOMAIN seq = 1..n
    PROVE  \E it : /\ Loop(it, "kept", K, <<>>, seq, n)
                   /\ Kept(seq, K) = it[1..n]
<1> DEFINE P(it) == it = [s \in SUBSET (1..n) |->
                             IF s = {} THEN <<>>
                             ELSE IF seq[Max(s)] \in K THEN Append(it[s \ {Max(s)}], seq[Max(s)]) ELSE it[s \ {Max(s)}]]
           it == CHOOSE it : P(it)
<1>1. Kept(seq, K) = it[1..n]
  BY Zenon DEF Kept, FoldLeft, MapThenFoldSet
<1>2. \A w : P(w) <=> FoldOn(w, "kept", K, <<>>, seq, n)
  BY DEF FoldOn, OneMore
<1>3. \E w : P(w)
  BY <1>2, FoldExists
<1>4. P(it)
  <2> HIDE DEF P
  <2> QED
    BY <1>3
<1>5. FoldOn(it, "kept", K, <<>>, seq, n)
  <2> HIDE DEF P
  <2> QED
    BY <1>2, <1>4
<1> QED
  BY <1>1, <1>5, FoldLoop

SearchFrom(u, search, st) ==
    FoldLeft(LAMBDA s, node : IF node.kind = "import" THEN search[Target(u, node)][s] ELSE s,
             [st EXCEPT !.seen = @ \cup {u}], NodesOf(u))

LEMMA ImportsLoop ==
    ASSUME NEW u, NEW search, NEW st, NEW n \in Nat, DOMAIN NodesOf(u) = 1..n
    PROVE  \E it : /\ Loop(it, "imports", [unit |-> u, search |-> search], [st EXCEPT !.seen = @ \cup {u}], NodesOf(u), n)
                   /\ SearchFrom(u, search, st) = it[1..n]
<1> DEFINE P(it) == it = [s \in SUBSET (1..n) |->
                             IF s = {} THEN [st EXCEPT !.seen = @ \cup {u}]
                             ELSE IF NodesOf(u)[Max(s)].kind = "import"
                                  THEN search[Target(u, NodesOf(u)[Max(s)])][it[s \ {Max(s)}]] ELSE it[s \ {Max(s)}]]
           it == CHOOSE it : P(it)
<1>1. SearchFrom(u, search, st) = it[1..n]
  BY Zenon DEF SearchFrom, FoldLeft, MapThenFoldSet
<1>2. \A w : P(w) <=> FoldOn(w, "imports", [unit |-> u, search |-> search], [st EXCEPT !.seen = @ \cup {u}], NodesOf(u), n)
  BY DEF FoldOn, OneMore, ImportOne
<1>3. \E w : P(w)
  BY <1>2, FoldExists
<1>4. P(it)
  <2> HIDE DEF P
  <2> QED
    BY <1>3
<1>5. FoldOn(it, "imports", [unit |-> u, search |-> search], [st EXCEPT !.seen = @ \cup {u}], NodesOf(u), n)
  <2> HIDE DEF P
  <2> QED
    BY <1>2, <1>4
<1> QED
  BY <1>1, <1>5, FoldLoop

SearchAll(search, units) ==
    FoldLeft(LAMBDA s, u : search[u][s], [seen |-> {}, order |-> <<>>], units)

LEMMA UnitsLoop ==
    ASSUME NEW search, NEW units, NEW n \in Nat, DOMAIN units = 1..n
    PROVE  \E it : /\ Loop(it, "units", search, [seen |-> {}, order |-> <<>>], units, n)
                   /\ SearchAll(search, units) = it[1..n]
<1> DEFINE P(it) == it = [s \in SUBSET (1..n) |->
                             IF s = {} THEN [seen |-> {}, order |-> <<>>]
                             ELSE search[units[Max(s)]][it[s \ {Max(s)}]]]
           it == CHOOSE it : P(it)
<1>1. SearchAll(search, units) = it[1..n]
  BY Zenon DEF SearchAll, FoldLeft, MapThenFoldSet
<1>2. \A w : P(w) <=> FoldOn(w, "units", search, [seen |-> {}, order |-> <<>>], units, n)
  BY DEF FoldOn, OneMore
<1>3. \E w : P(w)
  BY <1>2, FoldExists
<1>4. P(it)
  <2> HIDE DEF P
  <2> QED
    BY <1>3
<1>5. FoldOn(it, "units", search, [seen |-> {}, order |-> <<>>], units, n)
  <2> HIDE DEF P
  <2> QED
    BY <1>2, <1>4
<1> QED
  BY <1>1, <1>5, FoldLoop

Resolved(contracts) ==
    FoldLeft(ResolveContract, [linear |-> linear, failed |-> FALSE, clash |-> FALSE], contracts)

LEMMA ContractsLoop ==
    ASSUME NEW contracts, NEW n \in Nat, DOMAIN contracts = 1..n
    PROVE  \E it : /\ Loop(it, "contracts", {}, [linear |-> linear, failed |-> FALSE, clash |-> FALSE], contracts, n)
                   /\ Resolved(contracts) = it[1..n]
<1> DEFINE P(it) == it = [s \in SUBSET (1..n) |->
                             IF s = {} THEN [linear |-> linear, failed |-> FALSE, clash |-> FALSE]
                             ELSE ResolveContract(it[s \ {Max(s)}], contracts[Max(s)])]
           it == CHOOSE it : P(it)
<1>1. Resolved(contracts) = it[1..n]
  BY Zenon DEF Resolved, FoldLeft, MapThenFoldSet
<1>2. \A w : P(w) <=> FoldOn(w, "contracts", {}, [linear |-> linear, failed |-> FALSE, clash |-> FALSE], contracts, n)
  BY DEF FoldOn, OneMore
<1>3. \E w : P(w)
  BY <1>2, FoldExists
<1>4. P(it)
  <2> HIDE DEF P
  <2> QED
    BY <1>3
<1>5. FoldOn(it, "contracts", {}, [linear |-> linear, failed |-> FALSE, clash |-> FALSE], contracts, n)
  <2> HIDE DEF P
  <2> QED
    BY <1>2, <1>4
<1> QED
  BY <1>1, <1>5, FoldLoop

LEMMA ClimbLoop ==
    ASSUME NEW base, NEW path, NEW n \in Nat, DOMAIN path = 1..n
    PROVE  \E it : /\ Loop(it, "absolute", {}, base, path, n)
                   /\ FoldLeft(Climb, base, path) = it[1..n]
<1> DEFINE P(it) == it = [s \in SUBSET (1..n) |->
                             IF s = {} THEN base ELSE Climb(it[s \ {Max(s)}], path[Max(s)])]
           it == CHOOSE it : P(it)
<1>1. FoldLeft(Climb, base, path) = it[1..n]
  BY Zenon DEF FoldLeft, MapThenFoldSet
<1>2. \A w : P(w) <=> FoldOn(w, "absolute", {}, base, path, n)
  BY DEF FoldOn, OneMore
<1>3. \E w : P(w)
  BY <1>2, FoldExists
<1>4. P(it)
  <2> HIDE DEF P
  <2> QED
    BY <1>3
<1>5. FoldOn(it, "absolute", {}, base, path, n)
  <2> HIDE DEF P
  <2> QED
    BY <1>2, <1>4
<1> QED
  BY <1>1, <1>5, FoldLoop

LEMMA CanonicalLoop ==
    ASSUME NEW path, NEW n \in Nat, DOMAIN path = 1..n
    PROVE  \E it : /\ Loop(it, "canonical", {}, <<>>, path, n)
                   /\ Canonical(path) = it[1..n]
<1> DEFINE P(it) == it = [s \in SUBSET (1..n) |->
                             IF s = {} THEN <<>> ELSE Normal(it[s \ {Max(s)}], path[Max(s)])]
           it == CHOOSE it : P(it)
<1>1. Canonical(path) = it[1..n]
  BY Zenon DEF Canonical, FoldLeft, MapThenFoldSet
<1>2. \A w : P(w) <=> FoldOn(w, "canonical", {}, <<>>, path, n)
  BY DEF FoldOn, OneMore
<1>3. \E w : P(w)
  BY <1>2, FoldExists
<1>4. P(it)
  <2> HIDE DEF P
  <2> QED
    BY <1>3
<1>5. FoldOn(it, "canonical", {}, <<>>, path, n)
  <2> HIDE DEF P
  <2> QED
    BY <1>2, <1>4
<1> QED
  BY <1>1, <1>5, FoldLoop

Merged(left, seq) ==
    FoldLeft(LAMBDA st, i : MergeOneMore(st), [left |-> left, result |-> <<>>], seq)

LEMMA MergeLoop ==
    ASSUME NEW left, NEW seq, NEW n \in Nat, DOMAIN seq = 1..n
    PROVE  \E it : /\ Loop(it, "merge", {}, [left |-> left, result |-> <<>>], seq, n)
                   /\ Merged(left, seq) = it[1..n]
<1> DEFINE P(it) == it = [s \in SUBSET (1..n) |->
                             IF s = {} THEN [left |-> left, result |-> <<>>]
                             ELSE MergeOneMore(it[s \ {Max(s)}])]
           it == CHOOSE it : P(it)
<1>1. Merged(left, seq) = it[1..n]
  BY Zenon DEF Merged, FoldLeft, MapThenFoldSet
<1>2. \A w : P(w) <=> FoldOn(w, "merge", {}, [left |-> left, result |-> <<>>], seq, n)
  BY DEF FoldOn, OneMore
<1>3. \E w : P(w)
  BY <1>2, FoldExists
<1>4. P(it)
  <2> HIDE DEF P
  <2> QED
    BY <1>3
<1>5. FoldOn(it, "merge", {}, [left |-> left, result |-> <<>>], seq, n)
  <2> HIDE DEF P
  <2> QED
    BY <1>2, <1>4
<1> QED
  BY <1>1, <1>5, FoldLoop

-----------------------------------------------------------------------------
(* What is kept of a sequence.                                             *)

LEMMA AppendSet ==
    ASSUME NEW T, NEW seq \in Seq(T), NEW x \in T
    PROVE  /\ Append(seq, x) \in Seq(T)
           /\ ToSet(Append(seq, x)) = ToSet(seq) \cup {x}
<1>1. /\ Append(seq, x) \in Seq(T) /\ Len(Append(seq, x)) = Len(seq) + 1
      /\ \A i \in 1..Len(seq) : Append(seq, x)[i] = seq[i]
      /\ Append(seq, x)[Len(seq) + 1] = x
  BY AppendProperties
<1>2. DOMAIN seq = 1..Len(seq) /\ DOMAIN Append(seq, x) = 1..(Len(seq) + 1) /\ Len(seq) \in Nat
  BY <1>1, LenProperties
<1>3. 1..(Len(seq) + 1) = 1..Len(seq) \cup {Len(seq) + 1}
  BY <1>2
<1> DEFINE n == Len(seq)
           t == Append(seq, x)
<1>4. {t[i] : i \in 1..n} = {seq[i] : i \in 1..n}
  BY <1>1
<1>5. {t[i] : i \in 1..(n + 1)} = {t[i] : i \in 1..n} \cup {t[n + 1]}
  <2> HIDE DEF t, n
  <2> QED
    BY <1>3 DEF n
<1> QED
  BY <1>1, <1>2, <1>4, <1>5, Zenon DEF ToSet

LEMMA KeptIs ==
    ASSUME NEW T, NEW seq \in Seq(T), NEW K
    PROVE  /\ Kept(seq, K) \in Seq(T)
           /\ ToSet(Kept(seq, K)) = ToSet(seq) \cap K
<1> DEFINE n == Len(seq)
           Upto(k) == {seq[i] : i \in 1..k}
<1>1. n \in Nat /\ DOMAIN seq = 1..n /\ \A i \in 1..n : seq[i] \in T
  BY LenProperties, ElementOfSeq
<1>2. PICK it : Loop(it, "kept", K, <<>>, seq, n) /\ Kept(seq, K) = it[1..n]
  BY <1>1, KeptLoop
<1> DEFINE P(k) == it[1..k] \in Seq(T) /\ ToSet(it[1..k]) = Upto(k) \cap K
           S == {k \in Nat : k <= n => P(k)}
<1>3. 0 \in S
  <2>1. it[1..0] = <<>>
    BY <1>2 DEF Loop
  <2>2. ToSet(<<>>) = {} /\ Upto(0) = {} /\ <<>> \in Seq(T)
    BY DEF ToSet
  <2> QED
    BY <2>1, <2>2
<1>4. ASSUME NEW k \in Nat, k \in S PROVE k + 1 \in S
  <2> SUFFICES ASSUME k + 1 <= n PROVE P(k + 1)
    OBVIOUS
  <2>1. P(k)
    BY <1>1, <1>4
  <2>2. k \in 0..(n - 1) /\ k + 1 \in 1..n
    BY <1>1
  <2> HIDE DEF n
  <2>3. it[1..(k + 1)] = IF seq[k + 1] \in K THEN Append(it[1..k], seq[k + 1]) ELSE it[1..k]
    BY <1>2, <2>2, Zenon DEF Loop, OneMore
  <2>4. Upto(k + 1) = Upto(k) \cup {seq[k + 1]}
    <3>1. 1..(k + 1) = 1..k \cup {k + 1}
      OBVIOUS
    <3> QED
      BY <3>1
  <2>5. seq[k + 1] \in T
    BY <1>1, <2>2
  <2> HIDE DEF Upto
  <2>6. CASE seq[k + 1] \in K
    BY <2>1, <2>3, <2>4, <2>5, <2>6, AppendSet
  <2>7. CASE seq[k + 1] \notin K
    BY <2>1, <2>3, <2>4, <2>7
  <2> QED
    BY <2>6, <2>7
<1> HIDE DEF S
<1>5. Nat \subseteq S
  BY <1>3, <1>4, NatSetInduction
<1>6. P(n)
  <2>1. n \in S /\ n <= n
    BY <1>1, <1>5
  <2> HIDE DEF P, n
  <2> QED
    BY <2>1 DEF S
<1>7. Upto(n) = ToSet(seq)
  BY <1>1 DEF ToSet
<1> QED
  BY <1>2, <1>6, <1>7
-----------------------------------------------------------------------------
(* What is loaded.                                                         *)

Begun == stage \notin {"start", "unreadable"}

FilesOK ==
    /\ project \in Projects
    /\ Units \subseteq ToSet(PathOrder)
    /\ \A u \in Units : /\ OnDisk(u)
                        /\ sources[u] = [file |-> FileAt(u), parsed |-> sources[u].parsed]
                        /\ sources[u].parsed \in BOOLEAN
    /\ toParse \in Seq(Units)
    /\ Begun => project.main \in Units

\* Every unit but those that wait is parsed and what it imports is there.
Whole(u) == sources[u].parsed /\ "parse" \notin sources[u].file.flaws /\ Targets(u) \subseteq Units

WholeOK ==
    /\ stage = "parsing" /\ errors = {} => \A u \in Units : u \in ToSet(toParse) \/ Whole(u)
    /\ stage \in {"parsed", "analysing", "analysed", "running"} => \A u \in Units : Whole(u)

\* Only what imports lead to is loaded.
Led(us) == \A w \in us : Targets(w) \cap Units \subseteq us
LedOK == \A us \in SUBSET Units : project.main \in us /\ Led(us) => us = Units

Loaded == FilesOK /\ WholeOK /\ LedOK

LEMMA MapPaths ==
    ASSUME NEW paths, paths \subseteq ToSet(PathOrder)
    PROVE  InMapOrder(paths) \in Seq(paths) /\ ToSet(InMapOrder(paths)) = paths
<1>1. /\ InMapOrder(paths) \in Seq(ToSet(PathOrder))
      /\ ToSet(InMapOrder(paths)) = ToSet(PathOrder) \cap paths
  BY KeptIs, PathsAssumption DEF InMapOrder
<1>2. ToSet(InMapOrder(paths)) = paths
  BY <1>1
<1>3. \A i \in 1..Len(InMapOrder(paths)) : InMapOrder(paths)[i] \in paths
  BY <1>1, <1>2, LenProperties DEF ToSet
<1> QED
  BY <1>1, <1>2, <1>3, LenProperties, SeqDef

LEMMA NodesAre ==
    ASSUME FilesOK, NEW u \in Units
    PROVE  /\ NodesOf(u) \in Seq(ToSet(NodesOf(u)))
           /\ sources[u].file = project.disk[Canonical(u)] /\ Canonical(u) \in DOMAIN project.disk
           /\ sources[u].file.flaws \subseteq Complaining
           /\ sources[u].file.fatal \subseteq Complaining \ {"parse"}
<1>1. sources[u].file = project.disk[Canonical(u)] /\ Canonical(u) \in DOMAIN project.disk
  <2>1. OnDisk(u) /\ sources[u] = [file |-> FileAt(u), parsed |-> sources[u].parsed]
    BY Zenon DEF FilesOK
  <2>2. sources[u].file = FileAt(u)
    BY <2>1
  <2> QED
    BY <2>1, <2>2 DEF OnDisk, FileAt
<1> QED
  BY <1>1, ProjectsAssumption DEF NodesOf, FilesOK

LEMMA TargetsInMap ==
    ASSUME FilesOK, NEW u \in Units, NEW p \in Targets(u), OnDisk(p)
    PROVE  p \in ToSet(PathOrder)
<1>1. PICK n \in ToSet(NodesOf(u)) : n.kind = "import" /\ p = AbsolutePath(n.path, u)
  BY DEF Targets, Target, ImportsOf
<1>2. NodesOf(u) = project.disk[Canonical(u)].nodes /\ Canonical(u) \in DOMAIN project.disk
  BY NodesAre DEF NodesOf
<1>3. u \in ToSet(PathOrder) /\ project \in Projects
  BY DEF FilesOK
<1> QED
  BY <1>1, <1>2, <1>3, ProjectsAssumption DEF OnDisk

\* A unit imports the same when more is loaded.
LEMMA TargetsStay ==
    ASSUME NEW u, sources'[u].file = sources[u].file
    PROVE  Targets(u)' = Targets(u) /\ NodesOf(u)' = NodesOf(u)
BY DEF Targets, Target, ImportsOf, NodesOf

LEMMA ReadLoaded == ASSUME Loaded, ReadMain PROVE Loaded'
<1>1. CASE ~OnDisk(project.main)
  <2>1. stage = "start" /\ stage' = "unreadable" /\ UNCHANGED <<project, sources, toParse, errors>>
    BY <1>1 DEF ReadMain
  <2>2. FilesOK'
    BY <2>1 DEF Loaded, FilesOK, Units, OnDisk, FileAt, Begun
  <2>3. WholeOK'
    BY <2>1 DEF WholeOK
  <2>4. LedOK'
    BY <2>1 DEF Loaded, LedOK, Led, Targets, Target, ImportsOf, NodesOf, Units
  <2> QED
    BY <2>2, <2>3, <2>4 DEF Loaded
<1>2. CASE OnDisk(project.main)
  <2>0. PICK m : m = project.main
    OBVIOUS
  <2>1. /\ stage' = "parsing" /\ toParse' = <<m>> /\ UNCHANGED <<project, errors>>
        /\ sources' = [p \in {m} |-> Unread(p)]
    BY <1>2, <2>0 DEF ReadMain
  <2>2. Units' = {m} /\ sources'[m] = [file |-> FileAt(m), parsed |-> FALSE]
    BY <2>1 DEF Units, Unread
  <2>3. m \in ToSet(PathOrder)
    BY <2>0, ProjectsAssumption DEF Loaded, FilesOK
  <2>4. FilesOK'
    <3>1. OnDisk(m)' /\ FileAt(m)' = FileAt(m)
      BY <1>2, <2>0, <2>1 DEF OnDisk, FileAt
    <3>2. \A u \in Units' : /\ OnDisk(u)'
                            /\ sources'[u] = [file |-> FileAt(u)', parsed |-> sources'[u].parsed]
                            /\ sources'[u].parsed \in BOOLEAN
      <4> SUFFICES /\ OnDisk(m)'
                   /\ sources'[m] = [file |-> FileAt(m)', parsed |-> sources'[m].parsed]
                   /\ sources'[m].parsed \in BOOLEAN
        BY <2>2
      <4>1. sources'[m].parsed = FALSE
        BY <2>2
      <4> QED
        BY <2>2, <3>1, <4>1
    <3>3. project' \in Projects /\ project'.main \in Units' /\ Units' \subseteq ToSet(PathOrder)
      BY <2>0, <2>1, <2>2, <2>3 DEF Loaded, FilesOK
    <3>4. toParse' \in Seq(Units')
      BY <2>1, <2>2
    <3> QED
      BY <3>2, <3>3, <3>4 DEF FilesOK
  <2>5. WholeOK'
    <3>1. m \in ToSet(<<m>>)
      BY DEF ToSet
    <3> QED
      BY <2>1, <2>2, <3>1 DEF WholeOK
  <2>6. LedOK'
    BY <2>0, <2>1, <2>2 DEF LedOK
  <2> QED
    BY <2>4, <2>5, <2>6 DEF Loaded
<1> QED
  BY <1>1, <1>2

LEMMA HeadTail ==
    ASSUME NEW T, NEW seq \in Seq(T), seq # <<>>
    PROVE  Head(seq) \in T /\ Tail(seq) \in Seq(T) /\ ToSet(seq) = {Head(seq)} \cup ToSet(Tail(seq))
<1>1. /\ Len(seq) \in Nat \ {0} /\ Head(seq) \in T /\ Head(seq) = seq[1]
      /\ Tail(seq) \in Seq(T) /\ Len(Tail(seq)) = Len(seq) - 1
      /\ \A i \in 1..Len(Tail(seq)) : Tail(seq)[i] = seq[i + 1]
  BY HeadTailProperties, EmptySeq, LenProperties
<1>2. DOMAIN seq = 1..Len(seq) /\ DOMAIN Tail(seq) = 1..(Len(seq) - 1)
  BY <1>1, LenProperties
<1>3. \A i \in 2..Len(seq) : i - 1 \in 1..(Len(seq) - 1) /\ seq[i] = Tail(seq)[i - 1]
  BY <1>1
<1>4. \A i \in 1..(Len(seq) - 1) : i + 1 \in 1..Len(seq) /\ Tail(seq)[i] = seq[i + 1]
  BY <1>1
<1>5. \A i \in 1..Len(seq) : i = 1 \/ i \in 2..Len(seq)
  OBVIOUS
<1> DEFINE t == Tail(seq)
           n == Len(seq)
<1>6. 1 \in 1..n
  BY <1>1
<1>7. {seq[i] : i \in 1..n} \subseteq {seq[1]} \cup {t[i] : i \in 1..(n - 1)}
  BY <1>3, <1>5
<1>8. {seq[1]} \cup {t[i] : i \in 1..(n - 1)} \subseteq {seq[i] : i \in 1..n}
  BY <1>4, <1>6
<1>9. {seq[1]} \cup {t[i] : i \in 1..(n - 1)} = {seq[i] : i \in 1..n}
  BY <1>7, <1>8
<1> QED
  BY <1>1, <1>2, <1>9, Zenon DEF ToSet

LEMMA ConcatSet ==
    ASSUME NEW T, NEW s \in Seq(T), NEW t \in Seq(T)
    PROVE  s \o t \in Seq(T) /\ ToSet(s \o t) = ToSet(s) \cup ToSet(t)
<1> DEFINE m == Len(s)
           n == Len(t)
           c == s \o t
<1>1. /\ c \in Seq(T) /\ Len(c) = m + n /\ m \in Nat /\ n \in Nat
      /\ \A i \in 1..(m + n) : c[i] = IF i <= m THEN s[i] ELSE t[i - m]
  BY ConcatProperties, LenProperties
<1>2. DOMAIN s = 1..m /\ DOMAIN t = 1..n /\ DOMAIN c = 1..(m + n)
  BY <1>1, LenProperties
<1> HIDE DEF m, n, c
<1>3. {c[i] : i \in 1..(m + n)} \subseteq {s[i] : i \in 1..m} \cup {t[i] : i \in 1..n}
  <2> SUFFICES ASSUME NEW x, x \in {c[i] : i \in 1..(m + n)}
               PROVE  x \in {s[i] : i \in 1..m} \cup {t[i] : i \in 1..n}
    BY Zenon
  <2>1. PICK i \in 1..(m + n) : x = c[i]
    OBVIOUS
  <2>2. CASE i <= m
    BY <1>1, <2>1, <2>2
  <2>3. CASE i > m
    <3>1. i - m \in 1..n /\ x = t[i - m]
      BY <1>1, <2>1, <2>3
    <3> QED
      BY <3>1
  <2> QED
    BY <1>1, <2>2, <2>3
<1>4. {s[i] : i \in 1..m} \subseteq {c[i] : i \in 1..(m + n)}
  <2>1. \A i \in 1..m : i \in 1..(m + n) /\ c[i] = s[i]
    BY <1>1
  <2> QED
    BY <2>1
<1>5. {t[i] : i \in 1..n} \subseteq {c[i] : i \in 1..(m + n)}
  <2>1. \A i \in 1..n : i + m \in 1..(m + n) /\ c[i + m] = t[i]
    BY <1>1
  <2> QED
    BY <2>1
<1> QED
  BY <1>1, <1>2, <1>3, <1>4, <1>5 DEF ToSet, c
LEMMA ParseLoaded == ASSUME Loaded, Parse PROVE Loaded'
<1> USE DEF Loaded
<1> DEFINE head == Head(toParse)
           faulty == "parse" \in sources[head].file.flaws
           load == IF faulty THEN {} ELSE Loadable(head)
<1>a. /\ sources' = [p \in Units \cup load |->
                        IF p \in load THEN Unread(p)
                        ELSE IF p = head THEN [sources[head] EXCEPT !.parsed = ~faulty] ELSE sources[p]]
      /\ toParse' = Tail(toParse) \o InMapOrder(load)
      /\ errors' = errors \cup (IF faulty \/ Missing(head) # Loadable(head)
                                THEN {<<"parse", head>>} ELSE {})
  BY Zenon DEF Parse
<1>b. stage = "parsing" /\ toParse # <<>> /\ stage' = stage /\ project' = project
  BY DEF Parse
<1>c. PICK u : u = head
  OBVIOUS
<1>d. PICK broken : broken = faulty
  OBVIOUS
<1>e. PICK new : new = load
  OBVIOUS
<1>0. /\ u = Head(toParse) /\ broken = ("parse" \in sources[u].file.flaws)
      /\ new = IF broken THEN {} ELSE Loadable(u)
      /\ sources' = [p \in Units \cup new |->
                        IF p \in new THEN Unread(p)
                        ELSE IF p = u THEN [sources[u] EXCEPT !.parsed = ~broken] ELSE sources[p]]
      /\ toParse' = Tail(toParse) \o InMapOrder(new)
      /\ errors' = errors \cup (IF broken \/ Missing(u) # Loadable(u) THEN {<<"parse", u>>} ELSE {})
      /\ stage = "parsing" /\ toParse # <<>> /\ stage' = stage /\ project' = project
  BY <1>a, <1>b, <1>c, <1>d, <1>e
<1> HIDE DEF head, faulty, load
<1>1. /\ u \in Units /\ Tail(toParse) \in Seq(Units)
      /\ ToSet(toParse) = {u} \cup ToSet(Tail(toParse))
  BY <1>0, HeadTail DEF FilesOK
<1>2. broken \in BOOLEAN
  BY <1>0
<1>3. /\ new \subseteq Targets(u) /\ new \cap Units = {}
      /\ \A p \in new : OnDisk(p) /\ p \in ToSet(PathOrder)
  BY <1>0, <1>1, TargetsInMap DEF Loadable, Missing
<1>4. Units' = Units \cup new
  BY <1>0 DEF Units
<1>5. \A p \in new : sources'[p] = [file |-> FileAt(p), parsed |-> FALSE]
  BY <1>0 DEF Unread
<1>6. \A p \in Units \ {u} : sources'[p] = sources[p]
  BY <1>0, <1>3
<1>7. sources'[u] = [file |-> FileAt(u), parsed |-> ~broken]
  <2>1. sources'[u] = [sources[u] EXCEPT !.parsed = ~broken]
    BY <1>0, <1>1, <1>3
  <2>2. sources[u] = [file |-> FileAt(u), parsed |-> sources[u].parsed]
    BY <1>1, Zenon DEF FilesOK
  <2> QED
    BY <2>1, <2>2
<1>8. \A p : OnDisk(p)' = OnDisk(p) /\ FileAt(p)' = FileAt(p)
  BY <1>0 DEF OnDisk, FileAt
<1>9. \A p \in Units : /\ OnDisk(p) /\ sources[p] = [file |-> FileAt(p), parsed |-> sources[p].parsed]
                       /\ sources[p].parsed \in BOOLEAN
  BY Zenon DEF FilesOK
<1>10. \A p \in Units : sources'[p].file = sources[p].file
  <2> SUFFICES ASSUME NEW p \in Units PROVE sources'[p].file = sources[p].file
    OBVIOUS
  <2>1. CASE p = u
    <3>1. sources[u].file = FileAt(u)
      <4>1. sources[u] = [file |-> FileAt(u), parsed |-> sources[u].parsed]
        BY <1>1, <1>9, Zenon
      <4> QED
        BY <4>1
    <3> QED
      BY <2>1, <1>7, <3>1
  <2>2. CASE p # u
    BY <2>2, <1>6
  <2> QED
    BY <2>1, <2>2
<1>11. \A p \in Units : Targets(p)' = Targets(p)
  BY <1>10, TargetsStay
<1>12. /\ InMapOrder(new) \in Seq(Units \cup new) /\ ToSet(InMapOrder(new)) = new
  <2>1. InMapOrder(new) \in Seq(new) /\ ToSet(InMapOrder(new)) = new
    BY <1>3, MapPaths
  <2> QED
    BY <2>1, SeqMonotonic
<1>13. toParse' \in Seq(Units \cup new) /\ ToSet(toParse') = ToSet(Tail(toParse)) \cup new
  <2>1. Tail(toParse) \in Seq(Units \cup new)
    BY <1>1, SeqMonotonic
  <2>2. toParse' = Tail(toParse) \o InMapOrder(new)
    BY <1>0
  <2>3. /\ Tail(toParse) \o InMapOrder(new) \in Seq(Units \cup new)
        /\ ToSet(Tail(toParse) \o InMapOrder(new)) = ToSet(Tail(toParse)) \cup ToSet(InMapOrder(new))
    <3>1. PICK T : T = Units \cup new
      OBVIOUS
    <3>2. PICK s, t : s = Tail(toParse) /\ t = InMapOrder(new)
      OBVIOUS
    <3>3. s \in Seq(T) /\ t \in Seq(T)
      BY <1>12, <2>1, <3>1, <3>2
    <3>4. s \o t \in Seq(T) /\ ToSet(s \o t) = ToSet(s) \cup ToSet(t)
      BY <3>3, ConcatSet
    <3> QED
      BY <3>1, <3>2, <3>4
  <2> QED
    BY <1>12, <2>2, <2>3, Zenon
<1>14. FilesOK'
  <2>1. project' \in Projects /\ Units' \subseteq ToSet(PathOrder) /\ toParse' \in Seq(Units')
    BY <1>0, <1>3, <1>4, <1>13 DEF FilesOK
  <2>2. Begun' => project'.main \in Units'
    BY <1>0, <1>4 DEF FilesOK, Begun
  <2>3. ASSUME NEW p \in Units'
        PROVE  /\ OnDisk(p)' /\ sources'[p] = [file |-> FileAt(p)', parsed |-> sources'[p].parsed]
               /\ sources'[p].parsed \in BOOLEAN
    <3>1. CASE p \in new
      <4>1. OnDisk(p)' /\ FileAt(p)' = FileAt(p)
        BY <1>3, <1>8, <3>1
      <4>2. sources'[p] = [file |-> FileAt(p), parsed |-> FALSE] /\ sources'[p].parsed = FALSE
        BY <1>5, <3>1
      <4> QED
        BY <4>1, <4>2
    <3>2. CASE p = u
      <4>1. OnDisk(p)' /\ FileAt(p)' = FileAt(p)
        BY <1>1, <1>8, <1>9, <3>2
      <4>2. sources'[p] = [file |-> FileAt(p), parsed |-> ~broken] /\ sources'[p].parsed = ~broken
        BY <1>7, <3>2
      <4> QED
        BY <1>2, <4>1, <4>2
    <3>3. CASE p \in Units \ {u}
      <4>1. OnDisk(p)' /\ FileAt(p)' = FileAt(p)
        BY <1>8, <1>9, <3>3
      <4>2. sources'[p] = sources[p]
        BY <1>6, <3>3
      <4>3. /\ sources[p] = [file |-> FileAt(p), parsed |-> sources[p].parsed]
            /\ sources[p].parsed \in BOOLEAN
        BY <1>9, <3>3
      <4> QED
        BY <4>1, <4>2, <4>3
    <3> QED
      BY <1>4, <3>1, <3>2, <3>3
  <2> QED
    BY <2>1, <2>2, <2>3 DEF FilesOK
<1>15. WholeOK'
  <2> SUFFICES ASSUME errors' = {}, NEW p \in Units'
               PROVE  p \in ToSet(toParse') \/ Whole(p)'
    BY <1>0 DEF WholeOK
  <2>1. errors = {} /\ ~broken /\ Missing(u) = new
    BY <1>0
  <2>2. CASE p \in new
    BY <1>13, <2>2
  <2>3. CASE p = u
    <3>1. Targets(u) \subseteq Units'
      BY <1>4, <2>1 DEF Missing
    <3>2. sources'[u].parsed = TRUE /\ sources'[u].file = sources[u].file
      <4>1. sources'[u].parsed = ~broken
        BY <1>7
      <4> QED
        BY <1>1, <1>10, <2>1, <4>1
    <3> QED
      BY <1>0, <1>1, <1>11, <2>1, <2>3, <3>1, <3>2 DEF Whole
  <2>4. CASE p \in Units \ {u}
    <3>1. p \in ToSet(toParse) \/ Whole(p)
      BY <1>0, <2>1, <2>4 DEF WholeOK
    <3>2. p \in ToSet(toParse) => p \in ToSet(toParse')
      BY <1>1, <1>13, <2>4
    <3>3. Whole(p) => Whole(p)'
      BY <1>4, <1>6, <1>11, <2>4 DEF Whole
    <3> QED
      BY <3>1, <3>2, <3>3
  <2> QED
    BY <1>4, <2>2, <2>3, <2>4
<1>16. LedOK'
  <2> SUFFICES ASSUME NEW us \in SUBSET Units', project'.main \in us, Led(us)'
               PROVE  us = Units'
    BY DEF LedOK
  <2> DEFINE old == us \cap Units
  <2>1. project.main \in old
    BY <1>0 DEF FilesOK, Begun
  <2>2. \A w \in us : Targets(w)' \cap Units' \subseteq us
    BY DEF Led
  <2>3. Led(old)
    BY <1>4, <1>11, <2>2 DEF Led
  <2>4. old = Units
    BY <2>1, <2>3 DEF LedOK
  <2>5. Targets(u)' = Targets(u) /\ u \in us
    BY <1>1, <1>11, <2>4
  <2>6. new \subseteq us
    BY <1>3, <1>4, <2>2, <2>5
  <2> QED
    BY <1>4, <2>4, <2>6
<1> QED
  BY <1>14, <1>15, <1>16

LEMMA LoadedNext == ASSUME Loaded, [Next]_vars PROVE Loaded'
<1>1. ASSUME UNCHANGED <<project, sources, toParse>>,
             stage' = "parsing" => stage = "parsing" /\ errors' = errors,
             stage' \in {"parsed", "analysing", "analysed", "running"} =>
                 stage \in {"parsed", "analysing", "analysed", "running"},
             Begun' => Begun
      PROVE  Loaded'
  <2>1. \A p : OnDisk(p)' = OnDisk(p) /\ FileAt(p)' = FileAt(p) /\ Targets(p)' = Targets(p)
    BY <1>1 DEF OnDisk, FileAt, Targets, Target, ImportsOf, NodesOf
  <2>2. Units' = Units
    BY <1>1 DEF Units
  <2>3. FilesOK'
    BY <1>1, <2>1, <2>2, Zenon DEF Loaded, FilesOK
  <2>4. WholeOK'
    BY <1>1, <2>1, <2>2 DEF Loaded, WholeOK, Whole
  <2>5. LedOK'
    BY <1>1, <2>1, <2>2 DEF Loaded, LedOK, Led
  <2> QED
    BY <2>3, <2>4, <2>5 DEF Loaded
<1>2. CASE ReadMain
  BY <1>2, ReadLoaded
<1>3. CASE Parse
  BY <1>3, ParseLoaded
<1>4. CASE ParsingDone
  <2>1. CASE errors # {}
    BY <1>1, <1>4, <2>1 DEF ParsingDone, Begun
  <2>2. CASE errors = {}
    <3>1. /\ stage = "parsing" /\ stage' = "parsed" /\ toParse = <<>>
          /\ UNCHANGED <<project, sources, toParse, errors>>
      BY <1>4, <2>2 DEF ParsingDone
    <3>2. \A p : OnDisk(p)' = OnDisk(p) /\ FileAt(p)' = FileAt(p) /\ Targets(p)' = Targets(p)
      BY <3>1 DEF OnDisk, FileAt, Targets, Target, ImportsOf, NodesOf
    <3>3. Units' = Units
      BY <3>1 DEF Units
    <3>4. ToSet(toParse) = {}
      BY <3>1 DEF ToSet
    <3>5. FilesOK'
      BY <3>1, <3>2, <3>3 DEF Loaded, FilesOK, Begun
    <3>6. WholeOK'
      BY <2>2, <3>1, <3>2, <3>3, <3>4 DEF Loaded, WholeOK, Whole
    <3>7. LedOK'
      BY <3>1, <3>2, <3>3 DEF Loaded, LedOK, Led
    <3> QED
      BY <3>5, <3>6, <3>7 DEF Loaded
  <2> QED
    BY <2>1, <2>2
<1>5. CASE ResolveImports
  BY <1>1, <1>5 DEF ResolveImports, Begun
<1>6. ASSUME NEW p \in Checks, Check(p) PROVE Loaded'
  BY <1>1, <1>6 DEF Check, Running, GiveUp, Forward, Begun
<1>7. CASE RegisterDeclarations
  BY <1>1, <1>7 DEF RegisterDeclarations, Running, Forward, Begun
<1>8. CASE PerformImports
  BY <1>1, <1>8 DEF PerformImports, Running, GiveUp, Forward, Begun
<1>9. CASE ResolveNames
  BY <1>1, <1>9 DEF ResolveNames, Running, GiveUp, Forward, Begun
<1>10. CASE CheckMutability
  BY <1>1, <1>10 DEF CheckMutability, Running, Begun
<1>11. CASE Leave
  BY <1>1, <1>11 DEF Leave, Begun
<1>12. CASE RunEngine
  BY <1>1, <1>12 DEF RunEngine, Begun
<1>13. CASE UNCHANGED vars
  BY <1>1, <1>13 DEF vars, Begun
<1> QED
  BY <1>2, <1>3, <1>4, <1>5, <1>6, <1>7, <1>8, <1>9, <1>10, <1>11, <1>12, <1>13 DEF Next, Over
-----------------------------------------------------------------------------
(* The order of the units.                                                 *)

\* A search that finds at most n units, given those that find one less.
Level(search, n) ==
    [u \in Units |-> [st \in Searches |->
        IF u \in st.seen \/ n = 0 THEN st
        ELSE [SearchFrom(u, search, st) EXCEPT !.order = Append(@, u)]]]

\* The scopes before imports, and what the units see when all pass on once more.
Start == UNION {{u} \X Pairs(Declared(u, NodesOf(u))) : u \in Units}
Spread(seen) ==
    seen \cup UNION {UNION {{u} \X PassedOn(m, SeenBy(Target(u, m), seen)) : m \in ImportsOf(u)} : u \in Units}

Round(what, before, n) ==
    IF what = "search" THEN Level(before, n)
    ELSE IF n = 0 THEN Start ELSE Spread(before)

Rounds(what, f, n) == f = [k \in 0..n |-> Round(what, f[k - 1], k)]

LEMMA RoundZero == ASSUME NEW what, NEW f, NEW g PROVE Round(what, f, 0) = Round(what, g, 0)
BY DEF Round, Level

LEMMA RoundsExist == ASSUME NEW what PROVE \A n \in Nat : \E f : Rounds(what, f, n)
<1> DEFINE S == {n \in Nat : \E f : Rounds(what, f, n)}
<1>1. 0 \in S
  <2> DEFINE f == [k \in 0..0 |-> Round(what, {}, 0)]
  <2>1. \A k \in 0..0 : k = 0
    OBVIOUS
  <2>2. f = [k \in 0..0 |-> Round(what, f[k - 1], k)]
    <3>1. \A k \in 0..0 : Round(what, {}, 0) = Round(what, f[k - 1], k)
      <4> HIDE DEF f
      <4> QED
        BY <2>1, RoundZero
    <3>2. f = [k \in 0..0 |-> f[k]] /\ \A k \in 0..0 : f[k] = Round(what, {}, 0)
      OBVIOUS
    <3> HIDE DEF f
    <3> QED
      BY <3>1, <3>2
  <2>3. Rounds(what, f, 0)
    BY <2>2 DEF Rounds
  <2> QED
    BY <2>3
<1>2. ASSUME NEW n \in Nat, n \in S PROVE n + 1 \in S
  <2>1. PICK f : Rounds(what, f, n)
    BY <1>2
  <2> DEFINE g == [k \in 0..(n + 1) |-> IF k = n + 1 THEN Round(what, f[n], n + 1) ELSE f[k]]
  <2>2. g = [k \in 0..(n + 1) |-> g[k]] /\ g[n + 1] = Round(what, f[n], n + 1)
    OBVIOUS
  <2>3. \A k \in 0..n : g[k] = f[k]
    OBVIOUS
  <2>4. \A k \in 0..n : f[k] = Round(what, f[k - 1], k)
    BY <2>1 DEF Rounds
  <2> HIDE DEF g
  <2>5. \A k \in 0..(n + 1) : g[k] = Round(what, g[k - 1], k)
    <3> SUFFICES ASSUME NEW k \in 0..(n + 1) PROVE g[k] = Round(what, g[k - 1], k)
      OBVIOUS
    <3>1. CASE k = n + 1
      <4>1. k - 1 = n /\ n \in 0..n
        BY <3>1
      <4>2. g[k - 1] = f[n]
        BY <2>3, <4>1
      <4> QED
        BY <2>2, <3>1, <4>2
    <3>2. CASE k = 0
      <4>1. g[0] = Round(what, f[0 - 1], 0)
        BY <2>3, <2>4
      <4> QED
        BY <3>2, <4>1, RoundZero
    <3>3. CASE k \in 1..n
      <4>1. k - 1 \in 0..n /\ k \in 0..n
        BY <3>3
      <4> QED
        BY <2>3, <2>4, <4>1
    <3> QED
      BY <3>1, <3>2, <3>3
  <2>6. g = [k \in 0..(n + 1) |-> Round(what, g[k - 1], k)]
    BY <2>2, <2>5
  <2>7. Rounds(what, g, n + 1)
    BY <2>6 DEF Rounds
  <2> QED
    BY <2>7
<1> HIDE DEF S
<1>3. Nat \subseteq S
  BY <1>1, <1>2, NatSetInduction
<1> QED
  BY <1>3 DEF S

LEMMA SortIs ==
    ASSUME NEW N \in Nat, N = Cardinality(Units)
    PROVE  \A n \in 0..N : Sort[n] = Level(Sort[n - 1], n)
<1>1. Sort = CHOOSE f : f = [k \in 0..N |-> Level(f[k - 1], k)]
  BY Zenon DEF Sort, Level, SearchFrom
<1>2. \A f : Rounds("search", f, N) <=> f = [k \in 0..N |-> Level(f[k - 1], k)]
  BY DEF Rounds, Round
<1>3. \E f : f = [k \in 0..N |-> Level(f[k - 1], k)]
  BY <1>2, RoundsExist
<1>4. Sort = [k \in 0..N |-> Level(Sort[k - 1], k)]
  BY <1>1, <1>3, Zenon
<1> QED
  BY <1>4, Zenon
AllWhole == \A u \in Units : Targets(u) \subseteq Units

\* What waits for the searches that it has started.
Open(st) == st.seen \ ToSet(st.order)

\* What an element imports comes before it, or leads back to it.
ImportsFirst(seq) ==
    \A i \in DOMAIN seq : \A v \in Targets(seq[i]) :
        (\E j \in 1..(i - 1) : seq[j] = v) \/ seq[i] \in Reach(v)

Sound(st) ==
    /\ st \in Searches
    /\ ToSet(st.order) \subseteq st.seen
    /\ IsInjective(st.order) /\ ImportsFirst(st.order)

\* The search with n calls left finds u, and all it enters it leaves.
Finds(search, n) ==
    \A u \in Units : \A st \in Searches :
        Sound(st) /\ Cardinality(Units \ st.seen) <= n /\ (\A o \in Open(st) : u \in Reach(o)) =>
            /\ Sound(search[u][st]) /\ Open(search[u][st]) = Open(st)
            /\ st.seen \cup {u} \subseteq search[u][st].seen

LEMMA ReachTargets ==
    ASSUME AllWhole, NEW u \in Units, NEW v \in Targets(u)
    PROVE  /\ v \in Reach(u)
           /\ \A o \in Units : u \in Reach(o) => v \in Reach(o)
<1>1. v \in Units
  BY DEF AllWhole
<1>2. v \in Reach(u)
  BY <1>1 DEF Reach
<1>3. ASSUME NEW o \in Units, u \in Reach(o) PROVE v \in Reach(o)
  BY <1>1, <1>3 DEF Reach
<1> QED
  BY <1>2, <1>3

LEMMA EnterSound ==
    ASSUME NEW st, Sound(st), NEW u \in Units, u \notin st.seen, NEW st0,
           st0 = [st EXCEPT !.seen = @ \cup {u}]
    PROVE  Sound(st0) /\ Open(st0) = Open(st) \cup {u} /\ st0.seen = st.seen \cup {u}
<1>1. st \in Searches /\ st0.seen = st.seen \cup {u} /\ st0.order = st.order
  BY DEF Sound, Searches
<1>2. st0 \in Searches
  BY <1>1 DEF Searches
<1>3. u \notin ToSet(st.order)
  BY DEF Sound
<1> QED
  BY <1>1, <1>2, <1>3 DEF Sound, Open

\* When all it imports has been seen, u is put into the order.
LEMMA LeaveSound ==
    ASSUME AllWhole, NEW st, Sound(st), NEW u \in Open(st), Targets(u) \subseteq st.seen,
           \A o \in Open(st) \ {u} : u \in Reach(o),
           NEW r, r = [st EXCEPT !.order = Append(@, u)]
    PROVE  Sound(r) /\ Open(r) = Open(st) \ {u} /\ r.seen = st.seen
<1>1. /\ st \in Searches /\ r.seen = st.seen /\ r.order = Append(st.order, u)
      /\ st.order \in Seq(Units) /\ st.seen \subseteq Units
  BY DEF Sound, Searches
<1>2. u \in Units /\ u \in st.seen /\ u \notin ToSet(st.order)
  BY <1>1 DEF Open
<1>3. r.order \in Seq(Units) /\ ToSet(r.order) = ToSet(st.order) \cup {u}
  BY <1>1, <1>2, AppendSet
<1>4. r \in Searches /\ ToSet(r.order) \subseteq r.seen /\ Open(r) = Open(st) \ {u}
  BY <1>1, <1>2, <1>3 DEF Searches, Sound, Open
<1> DEFINE n == Len(st.order)
<1>5. /\ n \in Nat /\ DOMAIN st.order = 1..n /\ DOMAIN r.order = 1..(n + 1)
      /\ r.order[n + 1] = u /\ \A i \in 1..n : r.order[i] = st.order[i]
  BY <1>1, <1>2, AppendProperties, LenProperties
<1> HIDE DEF n
<1>6. \A i \in 1..n : st.order[i] # u
  BY <1>2, <1>5 DEF ToSet
<1>7. IsInjective(r.order)
  <2> SUFFICES ASSUME NEW i \in 1..(n + 1), NEW j \in 1..(n + 1), r.order[i] = r.order[j]
               PROVE  i = j
    BY <1>5 DEF IsInjective
  <2>1. CASE i \in 1..n /\ j \in 1..n
    <3>1. st.order[i] = st.order[j]
      BY <1>5, <2>1
    <3> QED
      BY <1>5, <2>1, <3>1 DEF Sound, IsInjective
  <2>2. CASE i = n + 1 \/ j = n + 1
    BY <1>5, <1>6, <2>2
  <2> QED
    BY <1>5, <2>1, <2>2
<1>8. ImportsFirst(r.order)
  <2> SUFFICES ASSUME NEW i \in 1..(n + 1), NEW v \in Targets(r.order[i])
               PROVE  (\E j \in 1..(i - 1) : r.order[j] = v) \/ r.order[i] \in Reach(v)
    BY <1>5 DEF ImportsFirst
  <2>1. CASE i \in 1..n
    <3>1. r.order[i] = st.order[i]
      BY <1>5, <2>1
    <3>2. (\E j \in 1..(i - 1) : st.order[j] = v) \/ st.order[i] \in Reach(v)
      BY <1>5, <2>1, <3>1 DEF Sound, ImportsFirst
    <3>3. \A j \in 1..(i - 1) : j \in 1..n
      BY <1>5, <2>1
    <3> QED
      BY <1>5, <3>1, <3>2, <3>3
  <2>2. CASE i = n + 1
    <3>1. r.order[i] = u /\ v \in Targets(u) /\ v \in st.seen
      BY <1>5, <2>2
    <3>2. CASE v \in ToSet(st.order)
      <4>1. PICK j \in 1..n : st.order[j] = v
        BY <1>5, <3>2 DEF ToSet
      <4> QED
        BY <1>5, <2>2, <4>1
    <3>3. CASE v = u
      BY <1>2, <3>1, <3>3, ReachTargets
    <3>4. CASE v \in Open(st) \ {u}
      BY <3>1, <3>4
    <3> QED
      BY <3>1, <3>2, <3>3, <3>4 DEF Open
  <2> QED
    BY <1>5, <2>1, <2>2
<1> QED
  BY <1>1, <1>4, <1>7, <1>8 DEF Sound
LEMMA FindsOne ==
    ASSUME FilesOK, AllWhole, IsFiniteSet(Units), NEW n \in Nat, NEW search, Finds(search, n)
    PROVE  Finds(Level(search, n + 1), n + 1)
<1> SUFFICES ASSUME NEW u \in Units, NEW st \in Searches, Sound(st),
                    Cardinality(Units \ st.seen) <= n + 1, \A o \in Open(st) : u \in Reach(o),
                    NEW r, r = Level(search, n + 1)[u][st]
             PROVE  Sound(r) /\ Open(r) = Open(st) /\ st.seen \cup {u} \subseteq r.seen
  BY DEF Finds
<1>1. r = IF u \in st.seen THEN st ELSE [SearchFrom(u, search, st) EXCEPT !.order = Append(@, u)]
  <2>1. Level(search, n + 1)[u] = [s \in Searches |->
          IF u \in s.seen \/ n + 1 = 0 THEN s ELSE [SearchFrom(u, search, s) EXCEPT !.order = Append(@, u)]]
    BY DEF Level
  <2>2. n + 1 # 0
    OBVIOUS
  <2> QED
    BY <2>1, <2>2, Zenon
<1>2. CASE u \in st.seen
  BY <1>1, <1>2
<1>3. CASE u \notin st.seen
  <2>0. PICK st0 : st0 = [st EXCEPT !.seen = @ \cup {u}]
    OBVIOUS
  <2>1. Sound(st0) /\ Open(st0) = Open(st) \cup {u} /\ st0.seen = st.seen \cup {u}
    BY <1>3, <2>0, EnterSound
  <2>2. Cardinality(Units \ st0.seen) <= n /\ IsFiniteSet(Units \ st0.seen)
    <3>1. IsFiniteSet(Units \ st.seen)
      BY FS_Subset
    <3>2. /\ Cardinality((Units \ st.seen) \ {u}) = Cardinality(Units \ st.seen) - 1
          /\ IsFiniteSet((Units \ st.seen) \ {u}) /\ Cardinality(Units \ st.seen) \in Nat
      BY <1>3, <3>1, FS_RemoveElement, FS_CardinalityType
    <3>3. (Units \ st.seen) \ {u} = Units \ st0.seen
      BY <2>1
    <3>4. PICK a : a = Cardinality(Units \ st.seen)
      OBVIOUS
    <3>5. a \in Nat /\ a <= n + 1 /\ a - 1 <= n
      BY <3>2, <3>4
    <3>6. Cardinality(Units \ st0.seen) = a - 1 /\ IsFiniteSet(Units \ st0.seen)
      BY <3>2, <3>3, <3>4, Zenon
    <3> QED
      BY <3>5, <3>6
  <2>3. \A o \in Open(st0) : \A t \in Targets(u) : t \in Units /\ t \in Reach(o)
    <3>1. Open(st) \subseteq Units
      BY DEF Open, Searches
    <3> QED
      BY <2>1, <3>1, ReachTargets DEF AllWhole
  <2> DEFINE m == Len(NodesOf(u))
             p == [unit |-> u, search |-> search]
             nodes == NodesOf(u)
  <2>4. m \in Nat /\ DOMAIN NodesOf(u) = 1..m
    BY NodesAre, LenProperties
  <2>5. PICK it : /\ Loop(it, "imports", p, st0, NodesOf(u), m)
                  /\ SearchFrom(u, search, st) = it[1..m]
    BY <2>0, <2>4, ImportsLoop
  <2> HIDE DEF m
  <2> DEFINE P(k) == /\ Sound(it[1..k]) /\ st0.seen \subseteq it[1..k].seen
                     /\ Open(it[1..k]) = Open(st0)
                     /\ \A j \in 1..k : nodes[j].kind = "import" =>
                            Target(u, nodes[j]) \in it[1..k].seen
             S == {k \in Nat : k <= m => P(k)}
  <2>6. 0 \in S
    <3>1. it[1..0] = st0
      BY <2>5 DEF Loop
    <3> QED
      BY <2>1, <3>1
  <2>7. ASSUME NEW k \in Nat, k \in S PROVE k + 1 \in S
    <3> SUFFICES ASSUME k + 1 <= m PROVE P(k + 1)
      OBVIOUS
    <3>0. PICK cur, next : cur = it[1..k] /\ next = it[1..(k + 1)]
      OBVIOUS
    <3>1. /\ Sound(cur) /\ st0.seen \subseteq cur.seen /\ Open(cur) = Open(st0)
          /\ \A j \in 1..k : nodes[j].kind = "import" => Target(u, nodes[j]) \in cur.seen
      BY <2>4, <2>7, <3>0
    <3>2. k \in 0..(m - 1) /\ k + 1 \in 1..m
      BY <2>4
    <3>3. next = IF nodes[k + 1].kind = "import" THEN search[Target(u, nodes[k + 1])][cur] ELSE cur
      <4>1. next = OneMore("imports", p, cur, nodes[k + 1])
        BY <2>5, <3>0, <3>2 DEF Loop
      <4>2. p.unit = u /\ p.search = search
        OBVIOUS
      <4> HIDE DEF p, nodes
      <4> QED
        BY <4>1, <4>2 DEF OneMore, ImportOne
    <3>4. CASE nodes[k + 1].kind = "import"
      <4>1. PICK t : t = Target(u, nodes[k + 1])
        OBVIOUS
      <4>2. t \in Targets(u)
        BY <2>4, <3>2, <3>4, <4>1 DEF Targets, ImportsOf, ToSet
      <4>3. t \in Units /\ \A o \in Open(cur) : t \in Reach(o)
        BY <2>1, <2>3, <3>1, <4>2
      <4>4. Cardinality(Units \ cur.seen) <= n
        <5>1. Units \ cur.seen \in SUBSET (Units \ st0.seen)
          BY <3>1
        <5>2. /\ Cardinality(Units \ cur.seen) <= Cardinality(Units \ st0.seen)
              /\ IsFiniteSet(Units \ cur.seen)
          BY <2>2, <5>1, FS_Subset
        <5>3. Cardinality(Units \ cur.seen) \in Nat /\ Cardinality(Units \ st0.seen) \in Nat
          BY <2>2, <5>2, FS_CardinalityType
        <5> QED
          BY <2>2, <5>2, <5>3
      <4>5. cur \in Searches
        BY <3>1 DEF Sound
      <4>6. next = search[t][cur]
        BY <3>3, <3>4, <4>1
      <4>7. Sound(next) /\ Open(next) = Open(cur) /\ cur.seen \cup {t} \subseteq next.seen
        BY <3>1, <4>3, <4>4, <4>5, <4>6 DEF Finds
      <4>8. \A j \in 1..(k + 1) : j \in 1..k \/ j = k + 1
        OBVIOUS
      <4> HIDE DEF nodes
      <4> QED
        BY <3>0, <3>1, <4>1, <4>7, <4>8
    <3>5. CASE nodes[k + 1].kind # "import"
      <4>1. next = cur
        BY <3>3, <3>5
      <4>2. \A j \in 1..(k + 1) : j \in 1..k \/ j = k + 1
        OBVIOUS
      <4> HIDE DEF nodes
      <4> QED
        BY <3>0, <3>1, <3>5, <4>1, <4>2
    <3> QED
      BY <3>4, <3>5
  <2> HIDE DEF S
  <2>8. Nat \subseteq S
    BY <2>6, <2>7, NatSetInduction
  <2>9. PICK end : end = it[1..m]
    OBVIOUS
  <2>10. /\ Sound(end) /\ st0.seen \subseteq end.seen /\ Open(end) = Open(st0)
         /\ \A j \in 1..m : nodes[j].kind = "import" => Target(u, nodes[j]) \in end.seen
    <3>1. m \in S /\ m <= m
      BY <2>4, <2>8
    <3> QED
      BY <2>9, <3>1 DEF S
  <2>11. Targets(u) \subseteq end.seen
    BY <2>4, <2>10 DEF Targets, ImportsOf, ToSet
  <2>12. r = [end EXCEPT !.order = Append(@, u)]
    BY <1>1, <1>3, <2>5, <2>9
  <2>13. u \in Open(end) /\ \A o \in Open(end) \ {u} : u \in Reach(o)
    BY <2>1, <2>10
  <2>14. Sound(r) /\ Open(r) = Open(end) \ {u} /\ r.seen = end.seen
    BY <2>10, <2>11, <2>12, <2>13, LeaveSound
  <2>15. u \notin Open(st)
    BY <1>3 DEF Open
  <2> QED
    BY <2>1, <2>10, <2>14, <2>15
<1> QED
  BY <1>2, <1>3
LEMMA SortFinds ==
    ASSUME FilesOK, AllWhole, IsFiniteSet(Units), NEW N, N = Cardinality(Units)
    PROVE  Finds(Sort[N], N)
<1>1. N \in Nat
  BY FS_CardinalityType
<1>2. \A n \in 0..N : Sort[n] = Level(Sort[n - 1], n)
  BY <1>1, SortIs
<1> DEFINE S == {n \in Nat : n <= N => Finds(Sort[n], n)}
<1>3. 0 \in S
  <2> SUFFICES Finds(Sort[0], 0)
    OBVIOUS
  <2>1. Sort[0] = Level(Sort[0 - 1], 0)
    BY <1>1, <1>2
  <2>2. ASSUME NEW u \in Units, NEW st \in Searches PROVE Sort[0][u][st] = st
    BY <2>1, <2>2 DEF Level
  <2>3. ASSUME NEW st \in Searches, Cardinality(Units \ st.seen) <= 0, NEW u \in Units
        PROVE  u \in st.seen
    <3>1. IsFiniteSet(Units \ st.seen)
      BY FS_Subset
    <3>2. Cardinality(Units \ st.seen) \in Nat
      BY <3>1, FS_CardinalityType
    <3>3. Units \ st.seen = {}
      BY <2>3, <3>1, <3>2, FS_EmptySet
    <3> QED
      BY <3>3
  <2> QED
    BY <2>2, <2>3 DEF Finds
<1>4. ASSUME NEW n \in Nat, n \in S PROVE n + 1 \in S
  <2> SUFFICES ASSUME n + 1 <= N PROVE Finds(Sort[n + 1], n + 1)
    OBVIOUS
  <2>1. Finds(Sort[n], n)
    BY <1>1, <1>4
  <2>2. Sort[n + 1] = Level(Sort[n], n + 1)
    <3>1. n + 1 \in 0..N /\ (n + 1) - 1 = n
      BY <1>1
    <3> QED
      BY <1>2, <3>1
  <2> QED
    BY <2>1, <2>2, FindsOne
<1> HIDE DEF S
<1>5. Nat \subseteq S
  BY <1>3, <1>4, NatSetInduction
<1> QED
  BY <1>1, <1>5 DEF S

\* All units, each once, after what it imports.
LEMMA SourceOrderIs ==
    ASSUME FilesOK, AllWhole
    PROVE  /\ SourceOrder \in Seq(Units) /\ ToSet(SourceOrder) = Units
           /\ IsInjective(SourceOrder) /\ ImportsFirst(SourceOrder)
<1>1. IsFiniteSet(Units)
  <2>1. PathOrder \in Seq(ToSet(PathOrder)) /\ Units \subseteq ToSet(PathOrder)
    BY PathsAssumption DEF FilesOK
  <2>2. ToSet(PathOrder) = {PathOrder[i] : i \in 1..Len(PathOrder)} /\ Len(PathOrder) \in Nat
    BY <2>1, LenProperties DEF ToSet
  <2>3. IsFiniteSet(ToSet(PathOrder))
    <3>1. IsFiniteSet(1..Len(PathOrder))
      BY <2>2, FS_Interval
    <3>2. PathOrder \in Surjection(1..Len(PathOrder), ToSet(PathOrder))
      BY <2>1, <2>2, SeqDef DEF Surjection
    <3> QED
      BY <3>1, <3>2, FS_Surjection
  <2> QED
    BY <2>1, <2>3, FS_Subset
<1>2. PICK N : N = Cardinality(Units)
  OBVIOUS
<1>3. PICK search : search = Sort[N]
  OBVIOUS
<1>4. Finds(search, N)
  BY <1>1, <1>2, <1>3, SortFinds
<1> DEFINE units == InMapOrder(Units)
           n == Len(units)
           st0 == [seen |-> {}, order |-> <<>>]
<1>5. units \in Seq(Units) /\ ToSet(units) = Units
  BY MapPaths DEF FilesOK
<1>6. n \in Nat /\ DOMAIN units = 1..n /\ \A i \in 1..n : units[i] \in Units
  BY <1>5, LenProperties, ElementOfSeq
<1>7. PICK it : Loop(it, "units", search, st0, units, n) /\ SearchAll(search, units) = it[1..n]
  BY <1>6, UnitsLoop
<1>8. SourceOrder = SearchAll(search, units).order
  <2>1. SourceOrder = SearchAll(Sort[Cardinality(Units)], units).order
    BY Zenon DEF SourceOrder, SearchAll
  <2> QED
    BY <1>2, <1>3, <2>1
<1> HIDE DEF units, n
<1> DEFINE P(k) == /\ Sound(it[1..k]) /\ Open(it[1..k]) = {}
                   /\ \A j \in 1..k : units[j] \in it[1..k].seen
           S == {k \in Nat : k <= n => P(k)}
<1>9. 0 \in S
  <2>1. it[1..0] = st0
    BY <1>7 DEF Loop
  <2>2. Sound(st0) /\ Open(st0) = {}
    BY DEF Sound, Open, Searches, ToSet, IsInjective, ImportsFirst
  <2> QED
    BY <2>1, <2>2
<1>10. ASSUME NEW k \in Nat, k \in S PROVE k + 1 \in S
  <2> SUFFICES ASSUME k + 1 <= n PROVE P(k + 1)
    OBVIOUS
  <2>0. PICK cur, next : cur = it[1..k] /\ next = it[1..(k + 1)]
    OBVIOUS
  <2>1. Sound(cur) /\ Open(cur) = {} /\ \A j \in 1..k : units[j] \in cur.seen
    BY <1>6, <1>10, <2>0
  <2>2. k \in 0..(n - 1) /\ k + 1 \in 1..n
    BY <1>6
  <2>3. next = search[units[k + 1]][cur]
    BY <1>7, <2>0, <2>2 DEF Loop, OneMore
  <2>4. PICK u \in Units : u = units[k + 1]
    BY <1>6, <2>2
  <2>5. cur \in Searches /\ Cardinality(Units \ cur.seen) <= N
    <3>1. Units \ cur.seen \in SUBSET Units
      OBVIOUS
    <3> QED
      BY <1>1, <1>2, <2>1, <3>1, FS_Subset DEF Sound
  <2>6. Sound(next) /\ Open(next) = Open(cur) /\ cur.seen \cup {u} \subseteq next.seen
    BY <1>4, <2>1, <2>3, <2>4, <2>5 DEF Finds
  <2>7. \A j \in 1..(k + 1) : j \in 1..k \/ j = k + 1
    OBVIOUS
  <2> QED
    BY <2>0, <2>1, <2>4, <2>6, <2>7
<1> HIDE DEF S
<1>11. Nat \subseteq S
  BY <1>9, <1>10, NatSetInduction
<1>12. PICK end : end = it[1..n]
  OBVIOUS
<1>13. Sound(end) /\ Open(end) = {} /\ \A j \in 1..n : units[j] \in end.seen
  <2>1. n \in S /\ n <= n
    BY <1>6, <1>11
  <2> QED
    BY <1>12, <2>1 DEF S
<1>14. end.seen = Units
  BY <1>5, <1>6, <1>13 DEF ToSet, Sound, Searches
<1>15. end.order \in Seq(Units) /\ ToSet(end.order) = Units
  BY <1>13, <1>14 DEF Sound, Searches, Open
<1> QED
  BY <1>7, <1>8, <1>12, <1>13, <1>15 DEF Sound
-----------------------------------------------------------------------------
(* resolveImports.                                                         *)

Analysing == stage \in {"analysing", "analysed", "running"}

OrderOK ==
    /\ order \in Seq(Units)
    /\ stage \in {"start", "unreadable", "parsing", "parsed"} => order = <<>>
    /\ Analysing => ToSet(order) = Units /\ IsInjective(order) /\ ImportsFirst(order)

LEMMA WholeIs == ASSUME Loaded, stage = "parsed" \/ Analysing PROVE AllWhole
BY DEF Loaded, WholeOK, Whole, AllWhole, Analysing

LEMMA ReachStays == ASSUME sources' = sources PROVE \A p : Reach(p)' = Reach(p)
BY DEF Reach, Units, Targets, Target, ImportsOf, NodesOf

LEMMA OrderNext == ASSUME Loaded, OrderOK, [Next]_vars PROVE OrderOK'
<1>1. ASSUME UNCHANGED <<sources, order>>, Analysing' => Analysing,
             stage' \in {"start", "unreadable", "parsing", "parsed"} =>
                 stage \in {"start", "unreadable", "parsing", "parsed"}
      PROVE  OrderOK'
  <2>1. Units' = Units
    BY <1>1 DEF Units
  <2>2. \A p : Targets(p)' = Targets(p)
    BY <1>1 DEF Targets, Target, ImportsOf, NodesOf
  <2>3. \A p : Reach(p)' = Reach(p)
    BY <1>1, ReachStays
  <2>4. ImportsFirst(order)' = ImportsFirst(order)
    BY <1>1, <2>2, <2>3 DEF ImportsFirst
  <2> QED
    BY <1>1, <2>1, <2>4 DEF OrderOK
<1>2. ASSUME order = <<>>, order' = <<>>, ~Analysing' PROVE OrderOK'
  BY <1>2 DEF OrderOK
<1>3. CASE ReadMain
  BY <1>2, <1>3 DEF ReadMain, OrderOK, Analysing
<1>4. CASE Parse
  BY <1>2, <1>4 DEF Parse, OrderOK, Analysing
<1>5. CASE ParsingDone
  BY <1>2, <1>5 DEF ParsingDone, OrderOK, Analysing
<1>6. CASE ResolveImports
  <2>1. /\ stage = "parsed" /\ stage' = "analysing" /\ order' = SourceOrder
        /\ UNCHANGED <<project, sources>>
    BY <1>6 DEF ResolveImports
  <2>2. AllWhole /\ FilesOK
    BY <2>1, WholeIs DEF Loaded
  <2>3. /\ order' \in Seq(Units) /\ ToSet(order') = Units
        /\ IsInjective(order') /\ ImportsFirst(SourceOrder)
    BY <2>1, <2>2, SourceOrderIs
  <2>4. Units' = Units
    BY <2>1 DEF Units
  <2>5. \A p : Targets(p)' = Targets(p)
    BY <2>1 DEF Targets, Target, ImportsOf, NodesOf
  <2>6. \A p : Reach(p)' = Reach(p)
    BY <2>1, ReachStays
  <2>7. ImportsFirst(order)'
    BY <2>1, <2>3, <2>5, <2>6 DEF ImportsFirst
  <2> QED
    BY <2>1, <2>3, <2>4, <2>7 DEF OrderOK
<1>7. ASSUME NEW p \in Checks, Check(p) PROVE OrderOK'
  BY <1>1, <1>7 DEF Check, Running, GiveUp, Forward, Analysing
<1>8. CASE RegisterDeclarations
  BY <1>1, <1>8 DEF RegisterDeclarations, Running, Forward, Analysing
<1>9. CASE PerformImports
  BY <1>1, <1>9 DEF PerformImports, Running, GiveUp, Forward, Analysing
<1>10. CASE ResolveNames
  BY <1>1, <1>10 DEF ResolveNames, Running, GiveUp, Forward, Analysing
<1>11. CASE CheckMutability
  BY <1>1, <1>11 DEF CheckMutability, Running, Analysing
<1>12. CASE Leave
  BY <1>1, <1>12 DEF Leave, Analysing
<1>13. CASE RunEngine
  BY <1>1, <1>13 DEF RunEngine, Analysing
<1>14. CASE UNCHANGED vars
  BY <1>1, <1>14 DEF vars, Analysing
<1> QED
  BY <1>3, <1>4, <1>5, <1>6, <1>7, <1>8, <1>9, <1>10, <1>11, <1>12, <1>13, <1>14 DEF Next, Over

LEMMA PlaceIs ==
    ASSUME IsInjective(order), NEW i \in DOMAIN order
    PROVE  Place(order[i]) = i
<1>1. \A j \in DOMAIN order : order[j] = order[i] => j = i
  BY DEF IsInjective
<1> QED
  BY <1>1 DEF Place

LEMMA OrderIsRight == ASSUME Loaded, OrderOK PROVE OrderRight
<1> SUFFICES ASSUME Analysing PROVE
        /\ ToSet(order) = Units /\ IsInjective(order)
        /\ Units = {project.main} \cup Reach(project.main)
        /\ \A u \in Units : \A v \in Targets(u) : u \notin Reach(v) => Place(v) < Place(u)
  BY DEF OrderRight, Analysing
<1>1. ToSet(order) = Units /\ IsInjective(order) /\ ImportsFirst(order) /\ AllWhole
  BY WholeIs DEF OrderOK
<1>2. project.main \in Units
  BY DEF Loaded, FilesOK, Begun, Analysing
<1>3. Units = {project.main} \cup Reach(project.main)
  <2> DEFINE us == {project.main} \cup Reach(project.main)
  <2>1. us \in SUBSET Units
    BY <1>2 DEF Reach
  <2>2. Led(us)
    <3>1. \A w \in us : \A v \in Targets(w) : v \in us
      BY <1>1, <1>2, <2>1, ReachTargets
    <3> QED
      BY <3>1 DEF Led
  <2> QED
    BY <2>1, <2>2 DEF Loaded, LedOK
<1>4. ASSUME NEW u \in Units, NEW v \in Targets(u), u \notin Reach(v) PROVE Place(v) < Place(u)
  <2>1. DOMAIN order = 1..Len(order) /\ Len(order) \in Nat
    BY LenProperties DEF OrderOK
  <2>2. PICK i \in 1..Len(order) : order[i] = u
    BY <1>1, <2>1 DEF ToSet
  <2>3. PICK j \in 1..(i - 1) : order[j] = v
    BY <1>1, <1>4, <2>1, <2>2 DEF ImportsFirst
  <2>4. j \in 1..Len(order) /\ j < i
    BY <2>1
  <2>5. Place(u) = i /\ Place(v) = j
    BY <1>1, <2>1, <2>2, <2>3, <2>4, PlaceIs
  <2> QED
    BY <2>4, <2>5
<1> QED
  BY <1>1, <1>3, <1>4

LEMMA LoadedInit == Init => Loaded /\ OrderOK
<1> SUFFICES ASSUME Init PROVE Loaded /\ OrderOK
  OBVIOUS
<1>1. Units = {} /\ toParse = <<>> /\ order = <<>> /\ stage = "start" /\ project \in Projects
  BY DEF Init, Units
<1> QED
  BY <1>1 DEF Loaded, FilesOK, WholeOK, LedOK, OrderOK, Begun, Analysing

(* resolveImports: for every set of files and every way they import each   *)
(* other, all that main leads to and nothing else is analysed, each unit   *)
(* once, and after what it imports unless that leads back to it.           *)
THEOREM OrderIsTopological == Spec => []OrderRight
<1> DEFINE I == Loaded /\ OrderOK
<1>1. Init => I
  BY LoadedInit
<1>2. I /\ [Next]_vars => I'
  BY LoadedNext, OrderNext
<1>3. I => OrderRight
  BY OrderIsRight
<1> QED
  BY <1>1, <1>2, <1>3, PTL DEF Spec
-----------------------------------------------------------------------------
(* cThreeMerge.                                                            *)

LEMMA SeqRange ==
    ASSUME NEW T, NEW seq \in Seq(T)
    PROVE  /\ Len(seq) \in Nat /\ DOMAIN seq = 1..Len(seq)
           /\ ToSet(seq) \subseteq T
           /\ \A i \in 1..Len(seq) : seq[i] \in ToSet(seq)
           /\ \A x \in ToSet(seq) : \E i \in 1..Len(seq) : seq[i] = x
BY LenProperties, ElementOfSeq DEF ToSet

LEMMA MinIs == ASSUME NEW I, I \subseteq Nat, I # {} PROVE Min(I) \in I /\ \A y \in I : Min(I) <= y
<1> DEFINE R == {ss \in Nat \X Nat : ss[1] < ss[2]}
<1>1. IsWellFoundedOn(R, Nat)
  BY NatLessThanWellFounded DEF OpToRel
<1>2. PICK x \in I : \A y \in I : ~(<<y, x>> \in R)
  <2> HIDE DEF R
  <2> QED
    BY <1>1, WFMin
<1>3. ASSUME NEW y \in I PROVE x <= y
  <2>1. x \in Nat /\ y \in Nat /\ <<y, x>> \in Nat \X Nat
    OBVIOUS
  <2>2. ~(y < x)
    BY <1>2, <2>1
  <2> QED
    BY <2>1, <2>2
<1> QED
  BY <1>3 DEF Min

LEMMA KeptAll ==
    ASSUME NEW T, NEW seq \in Seq(T), NEW K, ToSet(seq) \subseteq K
    PROVE  Kept(seq, K) = seq
<1> DEFINE n == Len(seq)
<1>1. n \in Nat /\ DOMAIN seq = 1..n /\ \A i \in 1..n : seq[i] \in T /\ seq[i] \in K
  BY SeqRange, ElementOfSeq
<1>2. PICK it : Loop(it, "kept", K, <<>>, seq, n) /\ Kept(seq, K) = it[1..n]
  BY <1>1, KeptLoop
<1> HIDE DEF n
<1> DEFINE P(k) == it[1..k] \in Seq(T) /\ Len(it[1..k]) = k /\ \A i \in 1..k : it[1..k][i] = seq[i]
           S == {k \in Nat : k <= n => P(k)}
<1>3. 0 \in S
  <2>1. it[1..0] = <<>>
    BY <1>2 DEF Loop
  <2>2. <<>> \in Seq(T) /\ Len(<<>>) = 0 /\ \A i \in 1..0 : FALSE
    OBVIOUS
  <2>3. P(0)
    BY <2>1, <2>2
  <2> QED
    BY <2>3
<1>4. ASSUME NEW k \in Nat, k \in S PROVE k + 1 \in S
  <2> SUFFICES ASSUME k + 1 <= n PROVE P(k + 1)
    OBVIOUS
  <2>0. PICK cur, next : cur = it[1..k] /\ next = it[1..(k + 1)]
    OBVIOUS
  <2>1. cur \in Seq(T) /\ Len(cur) = k /\ \A i \in 1..k : cur[i] = seq[i]
    BY <1>1, <1>4, <2>0
  <2>2. k \in 0..(n - 1) /\ k + 1 \in 1..n
    BY <1>1
  <2>3. next = Append(cur, seq[k + 1])
    BY <1>1, <1>2, <2>0, <2>2 DEF Loop, OneMore
  <2>4. seq[k + 1] \in T
    BY <1>1, <2>2
  <2>5. /\ next \in Seq(T) /\ Len(next) = k + 1 /\ next[k + 1] = seq[k + 1]
        /\ \A i \in 1..k : next[i] = cur[i]
    BY <2>1, <2>3, <2>4, AppendProperties
  <2>6. \A i \in 1..(k + 1) : i \in 1..k \/ i = k + 1
    OBVIOUS
  <2> QED
    BY <2>0, <2>1, <2>5, <2>6
<1> HIDE DEF S
<1>5. Nat \subseteq S
  BY <1>3, <1>4, NatSetInduction
<1>6. P(n)
  <2>1. n \in S /\ n <= n
    BY <1>1, <1>5
  <2> QED
    BY <2>1 DEF S
<1> QED
  BY <1>2, <1>6, SeqEqual DEF n

LEMMA KeptTail ==
    ASSUME NEW T, NEW seq \in Seq(T), seq # <<>>, NEW K, Head(seq) \notin K, ToSet(Tail(seq)) \subseteq K
    PROVE  Kept(seq, K) = Tail(seq)
<1> DEFINE n == Len(seq)
           t == Tail(seq)
<1>1. /\ n \in Nat /\ n # 0 /\ DOMAIN seq = 1..n /\ seq[1] \notin K
      /\ t \in Seq(T) /\ Len(t) = n - 1
      /\ \A i \in 1..(n - 1) : t[i] = seq[i + 1] /\ t[i] \in T /\ t[i] \in K
  <2>1. n \in Nat /\ DOMAIN seq = 1..n /\ n # 0
    BY LenProperties, EmptySeq
  <2>2. /\ Head(seq) = seq[1] /\ t \in Seq(T) /\ Len(t) = n - 1
        /\ \A i \in 1..Len(t) : t[i] = seq[i + 1]
    BY HeadTailProperties
  <2> HIDE DEF t
  <2>3. \A i \in 1..(n - 1) : t[i] \in T /\ t[i] \in ToSet(t)
    BY <2>2, SeqRange, ElementOfSeq
  <2> QED
    BY <2>1, <2>2, <2>3 DEF t
<1> HIDE DEF n, t
<1>2. PICK it : Loop(it, "kept", K, <<>>, seq, n) /\ Kept(seq, K) = it[1..n]
  <2>1. n \in Nat /\ DOMAIN seq = 1..n
    BY <1>1
  <2> QED
    BY <2>1, KeptLoop, Zenon
<1> DEFINE P(k) == it[1..k] \in Seq(T) /\ Len(it[1..k]) = k - 1 /\ \A i \in 1..(k - 1) : it[1..k][i] = t[i]
           S == {k \in Nat : k <= n /\ k # 0 => P(k)}
<1>3. 0 \in S
  OBVIOUS
<1>4. ASSUME NEW k \in Nat, k \in S PROVE k + 1 \in S
  <2> SUFFICES ASSUME k + 1 <= n PROVE P(k + 1)
    OBVIOUS
  <2>0. PICK cur, next : cur = it[1..k] /\ next = it[1..(k + 1)]
    OBVIOUS
  <2>1. k \in 0..(n - 1) /\ k + 1 \in 1..n
    BY <1>1
  <2>2. next = IF seq[k + 1] \in K THEN Append(cur, seq[k + 1]) ELSE cur
    BY <1>2, <2>0, <2>1 DEF Loop, OneMore
  <2>3. CASE k = 0
    <3>1. cur = <<>>
      BY <1>2, <2>0, <2>3 DEF Loop
    <3>2. next = <<>>
      BY <1>1, <2>2, <2>3, <3>1
    <3>3. (k + 1) - 1 = 0 /\ <<>> \in Seq(T) /\ Len(<<>>) = 0 /\ 1..0 = {}
      BY <2>3
    <3> QED
      BY <2>0, <3>2, <3>3
  <2>4. CASE k # 0
    <3>1. cur \in Seq(T) /\ Len(cur) = k - 1 /\ \A i \in 1..(k - 1) : cur[i] = t[i]
      BY <1>1, <1>4, <2>0, <2>4
    <3>2. k \in 1..(n - 1) /\ t[k] = seq[k + 1] /\ t[k] \in T /\ t[k] \in K
      BY <1>1, <2>4
    <3>3. next = Append(cur, t[k])
      BY <2>2, <3>2
    <3>4. /\ next \in Seq(T) /\ Len(next) = k /\ next[k] = t[k]
          /\ \A i \in 1..(k - 1) : next[i] = cur[i]
      <4>1. (k - 1) + 1 = k
        OBVIOUS
      <4> QED
        BY <3>1, <3>2, <3>3, <4>1, AppendProperties
    <3>5. \A i \in 1..k : i \in 1..(k - 1) \/ i = k
      OBVIOUS
    <3>6. (k + 1) - 1 = k
      OBVIOUS
    <3> QED
      BY <2>0, <3>1, <3>4, <3>5, <3>6
  <2> QED
    BY <2>3, <2>4
<1> HIDE DEF S
<1>5. Nat \subseteq S
  BY <1>3, <1>4, NatSetInduction
<1>6. P(n)
  <2>1. n \in S /\ n <= n
    BY <1>1, <1>5
  <2> QED
    BY <1>1, <2>1 DEF S
<1> QED
  BY <1>1, <1>2, <1>6, SeqEqual DEF t
\* The lists without a candidate that is in no tail.
LEMMA Removed ==
    ASSUME NEW T, NEW lists \in Seq(Seq(T)), NEW c \in T,
           \A l \in ToSet(lists) : l # <<>>, AppearsOnlyAtHead(c, lists),
           NEW new, new = RemoveCandidate(c, lists)
    PROVE  /\ new \in Seq(Seq(T))
           /\ \A l \in ToSet(new) :
                  l # <<>> /\ \/ l \in ToSet(lists) /\ Head(l) # c
                              \/ \E m \in ToSet(lists) : Head(m) = c /\ l = Tail(m)
           /\ \A l \in ToSet(lists) : Head(l) # c => l \in ToSet(new)
           /\ \A l \in ToSet(lists) : Head(l) = c /\ Tail(l) # <<>> => Tail(l) \in ToSet(new)
<1> DEFINE n == Len(lists)
           cut(l) == IF Head(l) = c THEN Tail(l) ELSE l
           without == [i \in DOMAIN lists |-> Kept(lists[i], ToSet(lists[i]) \ {c})]
<1>1. n \in Nat /\ DOMAIN lists = 1..n /\ \A i \in 1..n : lists[i] \in ToSet(lists) /\ lists[i] \in Seq(T)
  BY SeqRange, ElementOfSeq
<1>2. ASSUME NEW l \in Seq(T), l \in ToSet(lists)
      PROVE  Kept(l, ToSet(l) \ {c}) = cut(l) /\ cut(l) \in Seq(T)
  <2>1. /\ Tail(l) \in Seq(T) /\ l # <<>> /\ c \notin ToSet(Tail(l))
        /\ ToSet(l) = {Head(l)} \cup ToSet(Tail(l))
    BY <1>2, HeadTail DEF AppearsOnlyAtHead
  <2>2. CASE Head(l) = c
    <3>1. ToSet(Tail(l)) \subseteq ToSet(l) \ {c} /\ Head(l) \notin ToSet(l) \ {c}
      BY <2>1, <2>2
    <3>2. Kept(l, ToSet(l) \ {c}) = Tail(l)
      BY <2>1, <3>1, KeptTail
    <3> QED
      BY <2>1, <2>2, <3>2
  <2>3. CASE Head(l) # c
    <3>1. ToSet(l) \subseteq ToSet(l) \ {c}
      BY <2>1, <2>3
    <3>2. Kept(l, ToSet(l) \ {c}) = l
      BY <3>1, KeptAll
    <3> QED
      BY <2>3, <3>2
  <2> QED
    BY <2>2, <2>3
<1> HIDE DEF n
<1>3. \A i \in 1..n : without[i] = cut(lists[i]) /\ without[i] \in Seq(T)
  <2> SUFFICES ASSUME NEW i \in 1..n PROVE without[i] = cut(lists[i]) /\ without[i] \in Seq(T)
    OBVIOUS
  <2>1. without[i] = Kept(lists[i], ToSet(lists[i]) \ {c})
    BY <1>1
  <2>2. lists[i] \in Seq(T) /\ lists[i] \in ToSet(lists)
    BY <1>1
  <2> HIDE DEF cut, without
  <2> QED
    BY <2>1, <2>2, <1>2
<1>4. DOMAIN without = 1..n
  BY <1>1
<1>5. new = Kept(without, ToSet(without) \ {<<>>})
  BY DEF RemoveCandidate
<1> HIDE DEF without
<1>6. without \in Seq(Seq(T))
  <2>1. without = [i \in 1..n |-> without[i]]
    BY <1>4 DEF without
  <2>2. without \in [1..n -> Seq(T)]
    BY <1>3, <2>1
  <2> QED
    BY <1>1, <2>2, SeqDef
<1>7. new \in Seq(Seq(T)) /\ ToSet(new) = ToSet(without) \cap (ToSet(without) \ {<<>>})
  BY <1>5, <1>6, KeptIs
<1>8. \A l : l \in ToSet(new) <=> l # <<>> /\ \E i \in 1..n : l = cut(lists[i])
  <2>1. ToSet(without) = {without[i] : i \in 1..n}
    BY <1>4 DEF ToSet
  <2> HIDE DEF cut
  <2> QED
    BY <1>3, <1>7, <2>1
<1>9. \A l \in ToSet(lists) : \E i \in 1..n : lists[i] = l
  BY <1>1 DEF ToSet
<1>10. \A l \in ToSet(lists) : l # <<>>
  OBVIOUS
<1>11. ASSUME NEW l \in ToSet(new)
       PROVE  l # <<>> /\ \/ l \in ToSet(lists) /\ Head(l) # c
                          \/ \E m \in ToSet(lists) : Head(m) = c /\ l = Tail(m)
  <2>1. PICK i \in 1..n : l = cut(lists[i])
    BY <1>8
  <2>2. lists[i] \in ToSet(lists) /\ l # <<>>
    BY <1>1, <1>8
  <2> QED
    BY <2>1, <2>2
<1>12. ASSUME NEW l \in ToSet(lists)
       PROVE  cut(l) # <<>> => cut(l) \in ToSet(new)
  <2> HIDE DEF cut
  <2> QED
    BY <1>8, <1>9
<1> QED
  BY <1>7, <1>10, <1>11, <1>12
Precedes(seq, x, y) == \E a, b \in DOMAIN seq : a < b /\ seq[a] = x /\ seq[b] = y

Suffix(r, l, q) == Len(r) + q = Len(l) /\ \A i \in 1..Len(r) : r[i] = l[i + q]

\* No candidate is left although there are lists.
Stuck(left) == \A l \in ToSet(left) : ~AppearsOnlyAtHead(Head(l), left)

\* What is left of each list are the elements that are not in the result.
LeftOK(lists, st) ==
    \A l \in ToSet(st.left) : /\ l # <<>> /\ ToSet(l) \cap ToSet(st.result) = {}
                              /\ \E m \in ToSet(lists) : \E q \in Nat : Suffix(l, m, q)
TakenOK(lists, st) ==
    \A m \in ToSet(lists) : \E q \in 0..Len(m) :
        /\ \A i \in 1..Len(m) : m[i] \in ToSet(st.result) <=> i <= q
        /\ q < Len(m) => \E l \in ToSet(st.left) : Suffix(l, m, q)

\* The result keeps the order of each list.
KeepsOrder(lists, seq) ==
    \A m \in ToSet(lists) : \A i, k \in 1..Len(m) :
        i < k /\ m[k] \in ToSet(seq) => Precedes(seq, m[i], m[k])

MergeOK(T, lists, st) ==
    /\ st.left \in Seq(Seq(T)) /\ st.result \in Seq(T) /\ IsInjective(st.result)
    /\ LeftOK(lists, st) /\ TakenOK(lists, st) /\ KeepsOrder(lists, st.result)
    /\ ToSet(st.result) \subseteq UNION {ToSet(m) : m \in ToSet(lists)}

LEMMA AppendOneToOne ==
    ASSUME NEW T, NEW seq \in Seq(T), NEW x \in T, IsInjective(seq), x \notin ToSet(seq),
           NEW t, t = Append(seq, x)
    PROVE  IsInjective(t)
<1> DEFINE n == Len(seq)
<1>2. /\ n \in Nat /\ DOMAIN seq = 1..n /\ DOMAIN t = 1..(n + 1)
      /\ t[n + 1] = x /\ \A i \in 1..n : t[i] = seq[i] /\ seq[i] # x
  BY AppendProperties, LenProperties, SeqRange
<1> HIDE DEF n
<1>3. ASSUME NEW i \in DOMAIN t, NEW j \in DOMAIN t, t[i] = t[j] PROVE i = j
  <2>1. i \in 1..(n + 1) /\ j \in 1..(n + 1)
    BY <1>2
  <2>2. CASE i \in 1..n /\ j \in 1..n
    <3>1. seq[i] = seq[j]
      BY <1>2, <1>3, <2>2
    <3> QED
      BY <1>2, <2>2, <3>1 DEF IsInjective
  <2>3. CASE i = n + 1 \/ j = n + 1
    BY <1>2, <1>3, <2>1, <2>3
  <2> QED
    BY <1>2, <2>1, <2>2, <2>3
<1>4. IsInjective(t)
  BY <1>3, Zenon DEF IsInjective
<1> QED
  BY <1>4

LEMMA PrecedesMore ==
    ASSUME NEW T, NEW seq \in Seq(T), NEW c \in T
    PROVE  /\ \A x, y : Precedes(seq, x, y) => Precedes(Append(seq, c), x, y)
           /\ \A x \in ToSet(seq) : Precedes(Append(seq, c), x, c)
<1> DEFINE n == Len(seq)
<1>1. PICK t : t = Append(seq, c)
  OBVIOUS
<1>2. /\ n \in Nat /\ DOMAIN seq = 1..n /\ DOMAIN t = 1..(n + 1)
      /\ t[n + 1] = c /\ \A i \in 1..n : t[i] = seq[i]
  BY <1>1, AppendProperties, LenProperties
<1>3. \A x \in ToSet(seq) : \E i \in 1..n : seq[i] = x
  BY SeqRange
<1> HIDE DEF n
<1>4. ASSUME NEW x, NEW y, Precedes(seq, x, y) PROVE Precedes(t, x, y)
  <2>1. PICK a, b \in 1..n : a < b /\ seq[a] = x /\ seq[b] = y
    BY <1>2, <1>4 DEF Precedes
  <2>2. a \in DOMAIN t /\ b \in DOMAIN t /\ t[a] = x /\ t[b] = y
    BY <1>2, <2>1
  <2> QED
    BY <2>1, <2>2 DEF Precedes
<1>5. ASSUME NEW x \in ToSet(seq) PROVE Precedes(t, x, c)
  <2>1. PICK a \in 1..n : seq[a] = x
    BY <1>3
  <2>2. a \in DOMAIN t /\ n + 1 \in DOMAIN t /\ t[a] = x /\ t[n + 1] = c /\ a < n + 1
    BY <1>2, <2>1
  <2> QED
    BY <2>2 DEF Precedes
<1> QED
  BY <1>1, <1>4, <1>5

\* A list and what is left of it when its head is gone.
LEMMA SuffixTail ==
    ASSUME NEW T, NEW m \in Seq(T), NEW l \in Seq(T), NEW q \in Nat, Suffix(l, m, q), l # <<>>
    PROVE  /\ q + 1 \in 1..Len(m) /\ m[q + 1] = Head(l)
           /\ Suffix(Tail(l), m, q + 1)
           /\ \A i \in 1..Len(m) : i > q + 1 => m[i] \in ToSet(Tail(l))
           /\ \A i \in 1..Len(m) : i > q => m[i] \in ToSet(l)
           /\ Tail(l) = <<>> <=> q + 1 = Len(m)
           /\ \A i \in 1..Len(l) : l[i] \in ToSet(m)
<1>1. /\ Len(l) \in Nat \ {0} /\ Len(m) \in Nat /\ Len(l) + q = Len(m)
      /\ Head(l) = l[1] /\ Tail(l) \in Seq(T) /\ Len(Tail(l)) = Len(l) - 1
      /\ \A i \in 1..(Len(l) - 1) : Tail(l)[i] = l[i + 1]
  BY EmptySeq, HeadTailProperties, LenProperties DEF Suffix
<1>2. \A i \in 1..Len(l) : l[i] = m[i + q]
  BY DEF Suffix
<1>3. /\ \A i \in 1..Len(Tail(l)) : Tail(l)[i] \in ToSet(Tail(l))
      /\ \A i \in 1..Len(l) : l[i] \in ToSet(l)
      /\ \A i \in 1..Len(m) : m[i] \in ToSet(m)
  BY <1>1, SeqRange
<1>4. Tail(l) = <<>> <=> Len(Tail(l)) = 0
  BY <1>1, EmptySeq
<1> DEFINE a == Len(l)  b == Len(m)
<1>5. a \in Nat \ {0} /\ b \in Nat /\ a + q = b /\ Len(Tail(l)) = a - 1
  BY <1>1
<1>6. q + 1 \in 1..b /\ m[q + 1] = Head(l)
  <2>1. 1 \in 1..a /\ 1 + q = q + 1
    BY <1>5
  <2>2. m[1 + q] = Head(l)
    BY <1>1, <1>2, <2>1
  <2> HIDE DEF a, b
  <2> QED
    BY <1>5, <2>1, <2>2
<1>7. \A i \in 1..a : i + q \in 1..b /\ l[i] \in ToSet(m)
  <2>1. \A i \in 1..a : i + q \in 1..b
    <3> HIDE DEF a, b
    <3> QED
      BY <1>5
  <2> QED
    BY <1>2, <1>3, <2>1
<1>8. ASSUME NEW i \in 1..b, i > q PROVE i - q \in 1..a /\ m[i] = l[i - q] /\ m[i] \in ToSet(l)
  <2>1. i - q \in 1..a /\ (i - q) + q = i
    <3> HIDE DEF a, b
    <3> QED
      BY <1>5, <1>8
  <2> QED
    BY <1>2, <1>3, <2>1
<1>9. ASSUME NEW i \in 1..b, i > q + 1 PROVE m[i] \in ToSet(Tail(l))
  <2>1. i > q /\ i - q - 1 \in 1..(a - 1) /\ (i - q - 1) + 1 = i - q
    <3> HIDE DEF a, b
    <3> QED
      BY <1>5, <1>9
  <2>2. Tail(l)[i - q - 1] = l[i - q] /\ m[i] = l[i - q]
    BY <1>1, <1>8, <2>1
  <2>3. Tail(l)[i - q - 1] \in ToSet(Tail(l))
    BY <1>3, <1>5, <2>1
  <2> QED
    BY <2>2, <2>3
<1>10. Suffix(Tail(l), m, q + 1)
  <2>1. (a - 1) + (q + 1) = b
    <3> HIDE DEF a, b
    <3> QED
      BY <1>5
  <2>2. ASSUME NEW i \in 1..(a - 1) PROVE Tail(l)[i] = m[i + (q + 1)]
    <3>1. i + 1 \in 1..a /\ (i + 1) + q = i + (q + 1)
      <4> HIDE DEF a, b
      <4> QED
        BY <1>5
    <3> QED
      BY <1>1, <1>2, <3>1
  <2> QED
    BY <1>5, <2>1, <2>2 DEF Suffix
<1>11. Tail(l) = <<>> <=> q + 1 = b
  <2>1. a - 1 = 0 <=> q + 1 = b
    <3> HIDE DEF a, b
    <3> QED
      BY <1>5
  <2> QED
    BY <1>4, <1>5, <2>1
<1> QED
  BY <1>6, <1>7, <1>8, <1>9, <1>10, <1>11

\* A step of the merge takes a candidate when there is one.
LEMMA MergeStep ==
    ASSUME NEW T, NEW lists \in Seq(Seq(T)), NEW st, MergeOK(T, lists, st),
           NEW next, next = MergeOneMore(st)
    PROVE  /\ MergeOK(T, lists, next)
           /\ \/ next = st /\ Stuck(st.left)
              \/ Len(next.result) = Len(st.result) + 1
<1> DEFINE able == {i \in 1..Len(st.left) : AppearsOnlyAtHead(Head(st.left[i]), st.left)}
<1>1. /\ st.left \in Seq(Seq(T)) /\ st.result \in Seq(T) /\ IsInjective(st.result)
      /\ LeftOK(lists, st) /\ TakenOK(lists, st) /\ KeepsOrder(lists, st.result)
      /\ ToSet(st.result) \subseteq UNION {ToSet(m) : m \in ToSet(lists)}
  BY DEF MergeOK
<1>2. /\ \A i \in 1..Len(st.left) : st.left[i] \in ToSet(st.left) /\ st.left[i] \in Seq(T)
      /\ \A l \in ToSet(st.left) : l \in Seq(T) /\ l # <<>> /\ \E i \in 1..Len(st.left) : st.left[i] = l
  <2>1. PICK ls : ls = st.left
    OBVIOUS
  <2>2. ls \in Seq(Seq(T))
    BY <1>1, <2>1
  <2>3. /\ ToSet(ls) \subseteq Seq(T)
        /\ \A i \in 1..Len(ls) : ls[i] \in ToSet(ls)
        /\ \A l \in ToSet(ls) : \E i \in 1..Len(ls) : ls[i] = l
    BY <2>2, SeqRange
  <2>4. \A l \in ToSet(ls) : l # <<>>
    BY <1>1, <2>1 DEF LeftOK
  <2> QED
    BY <2>1, <2>3, <2>4
<1>3. able \subseteq Nat /\ (able # {} => Min(able) \in able)
  <2>1. able \subseteq Nat
    BY <1>1, LenProperties
  <2> QED
    BY <2>1, MinIs
<1>4. CASE able = {}
  <2>1. SelectInSeq(st.left, LAMBDA l : AppearsOnlyAtHead(Head(l), st.left)) = 0
    BY <1>4 DEF SelectInSeq
  <2>2. next = st
    BY <2>1, Zenon DEF MergeOneMore
  <2>3. Stuck(st.left)
    BY <1>2, <1>4 DEF Stuck
  <2> QED
    BY <2>2, <2>3
<1>5. CASE able # {}
  <2>1. PICK k : k = Min(able)
    OBVIOUS
  <2>2. k \in 1..Len(st.left) /\ AppearsOnlyAtHead(Head(st.left[k]), st.left)
    BY <1>3, <1>5, <2>1
  <2>3. SelectInSeq(st.left, LAMBDA l : AppearsOnlyAtHead(Head(l), st.left)) = k
    BY <1>5, <2>1 DEF SelectInSeq
  <2>4. k # 0
    BY <1>1, <2>2, LenProperties
  <2>5. PICK c : c = Head(st.left[k])
    OBVIOUS
  <2>6. next = [left |-> RemoveCandidate(c, st.left), result |-> Append(st.result, c)]
    BY <2>3, <2>4, <2>5, Zenon DEF MergeOneMore
  <2>7. PICK new : new = RemoveCandidate(c, st.left)
    OBVIOUS
  <2>8. next.left = new /\ next.result = Append(st.result, c)
    BY <2>6, <2>7
  <2>9. c \in T /\ c \in ToSet(st.left[k])
    BY <1>2, <2>2, <2>5, HeadTail
  <2>10. /\ new \in Seq(Seq(T))
         /\ \A l \in ToSet(new) :
                  l # <<>> /\ \/ l \in ToSet(st.left) /\ Head(l) # c
                              \/ \E m \in ToSet(st.left) : Head(m) = c /\ l = Tail(m)
         /\ \A l \in ToSet(st.left) : Head(l) # c => l \in ToSet(new)
         /\ \A l \in ToSet(st.left) : Head(l) = c /\ Tail(l) # <<>> => Tail(l) \in ToSet(new)
    <3>1. PICK ls : ls = st.left
      OBVIOUS
    <3>2. /\ ls \in Seq(Seq(T)) /\ AppearsOnlyAtHead(c, ls) /\ new = RemoveCandidate(c, ls)
          /\ \A l \in ToSet(ls) : l # <<>>
      BY <1>1, <1>2, <2>2, <2>5, <2>7, <3>1
    <3> QED
      BY <2>9, <3>1, <3>2, Removed
  <2>11. c \notin ToSet(st.result)
    BY <1>1, <1>2, <2>2, <2>9 DEF LeftOK
  <2>12. /\ next.result \in Seq(T) /\ IsInjective(next.result)
         /\ ToSet(next.result) = ToSet(st.result) \cup {c} /\ Len(next.result) = Len(st.result) + 1
    <3>1. PICK seq, t : seq = st.result /\ t = next.result
      OBVIOUS
    <3>2. seq \in Seq(T) /\ IsInjective(seq) /\ c \notin ToSet(seq) /\ t = Append(seq, c)
      BY <1>1, <2>8, <2>11, <3>1
    <3>3. IsInjective(t)
      BY <2>9, <3>2, AppendOneToOne
    <3>4. t \in Seq(T) /\ ToSet(t) = ToSet(seq) \cup {c} /\ Len(t) = Len(seq) + 1
      BY <2>9, <3>2, AppendSet, AppendProperties
    <3> QED
      BY <3>1, <3>3, <3>4
  <2>13. \A l \in ToSet(st.left) : /\ l \in Seq(T) /\ l # <<>> /\ Tail(l) \in Seq(T) /\ c \notin ToSet(Tail(l))
                                   /\ ToSet(l) = {Head(l)} \cup ToSet(Tail(l))
    BY <1>2, <2>2, <2>5, HeadTail DEF AppearsOnlyAtHead
  <2>14. \A m \in ToSet(lists) : m \in Seq(T) /\ Len(m) \in Nat
    BY SeqRange
  <2>15. LeftOK(lists, next)
    <3>1. ASSUME NEW l \in ToSet(new)
          PROVE  /\ l # <<>> /\ ToSet(l) \cap (ToSet(st.result) \cup {c}) = {}
                 /\ \E m \in ToSet(lists) : \E q \in Nat : Suffix(l, m, q)
      <4>1. CASE l \in ToSet(st.left) /\ Head(l) # c
        BY <1>1, <2>13, <4>1 DEF LeftOK
      <4>2. ASSUME NEW o \in ToSet(st.left), Head(o) = c, l = Tail(o)
            PROVE  /\ ToSet(l) \cap (ToSet(st.result) \cup {c}) = {}
                   /\ \E m \in ToSet(lists) : \E q \in Nat : Suffix(l, m, q)
        <5>1. ToSet(o) \cap ToSet(st.result) = {}
          BY <1>1 DEF LeftOK
        <5>2. PICK m \in ToSet(lists), q \in Nat : Suffix(o, m, q)
          BY <1>1 DEF LeftOK
        <5>3. Suffix(l, m, q + 1) /\ q + 1 \in Nat
          BY <2>13, <2>14, <4>2, <5>2, SuffixTail
        <5> QED
          BY <2>13, <4>2, <5>1, <5>3
      <4> QED
        BY <2>10, <4>1, <4>2
    <3> QED
      BY <2>8, <2>12, <3>1 DEF LeftOK
  <2>16. TakenOK(lists, next)
    <3>1. ASSUME NEW m \in ToSet(lists)
          PROVE  \E q \in 0..Len(m) :
                    /\ \A i \in 1..Len(m) : m[i] \in ToSet(st.result) \cup {c} <=> i <= q
                    /\ q < Len(m) => \E l \in ToSet(new) : Suffix(l, m, q)
      <4>1. PICK q \in 0..Len(m) : /\ \A i \in 1..Len(m) : m[i] \in ToSet(st.result) <=> i <= q
                                   /\ q < Len(m) => \E l \in ToSet(st.left) : Suffix(l, m, q)
        BY <1>1 DEF TakenOK
      <4>2. CASE q = Len(m)
        BY <2>14, <4>1, <4>2
      <4>3. CASE q < Len(m)
        <5>1. PICK l \in ToSet(st.left) : Suffix(l, m, q)
          BY <4>1, <4>3
        <5>2. q \in Nat
          BY <2>14
        <5>3. /\ q + 1 \in 1..Len(m) /\ m[q + 1] = Head(l)
              /\ Suffix(Tail(l), m, q + 1)
              /\ \A i \in 1..Len(m) : i > q + 1 => m[i] \in ToSet(Tail(l))
              /\ \A i \in 1..Len(m) : i > q => m[i] \in ToSet(l)
              /\ Tail(l) = <<>> <=> q + 1 = Len(m)
          BY <2>13, <2>14, <5>1, <5>2, SuffixTail
        <5>4. CASE Head(l) = c
          <6>1. \A i \in 1..Len(m) : m[i] \in ToSet(st.result) \cup {c} <=> i <= q + 1
            <7>1. \A i \in 1..Len(m) : i <= q \/ i = q + 1 \/ i > q + 1
              BY <5>2
            <7>2. \A i \in 1..Len(m) : i <= q => i <= q + 1
              BY <5>2
            <7>3. \A i \in 1..Len(m) : i > q + 1 => ~(i <= q) /\ ~(i <= q + 1)
              BY <5>2
            <7> QED
              BY <2>13, <4>1, <5>2, <5>3, <5>4, <7>1, <7>2, <7>3
          <6>2. q + 1 < Len(m) => Tail(l) # <<>>
            BY <2>14, <5>2, <5>3
          <6> QED
            BY <2>10, <5>3, <5>4, <6>1, <6>2
        <5>5. CASE Head(l) # c
          <6>1. l \in ToSet(new) /\ c \notin ToSet(l)
            BY <2>10, <2>13, <5>5
          <6>2. \A i \in 1..Len(m) : i <= q \/ i > q
            BY <5>2
          <6>3. \A i \in 1..Len(m) : m[i] \in ToSet(st.result) \cup {c} <=> i <= q
            BY <4>1, <5>3, <6>1, <6>2
          <6> QED
            BY <5>1, <6>1, <6>3
        <5> QED
          BY <5>4, <5>5
      <4> QED
        BY <2>14, <4>2, <4>3
    <3> QED
      BY <2>8, <2>12, <3>1 DEF TakenOK
  <2>17. KeepsOrder(lists, next.result)
    <3>1. ASSUME NEW m \in ToSet(lists), NEW i \in 1..Len(m), NEW j \in 1..Len(m), i < j,
                 m[j] \in ToSet(st.result) \cup {c}
          PROVE  Precedes(next.result, m[i], m[j])
      <4>1. /\ \A x, y : Precedes(st.result, x, y) => Precedes(next.result, x, y)
            /\ \A x \in ToSet(st.result) : Precedes(next.result, x, c)
        BY <1>1, <2>8, <2>9, PrecedesMore
      <4>2. CASE m[j] \in ToSet(st.result)
        BY <1>1, <3>1, <4>1, <4>2 DEF KeepsOrder
      <4>3. CASE m[j] = c
        <5>1. PICK q \in 0..Len(m) : /\ \A n \in 1..Len(m) : m[n] \in ToSet(st.result) <=> n <= q
                                     /\ q < Len(m) => \E l \in ToSet(st.left) : Suffix(l, m, q)
          BY <1>1 DEF TakenOK
        <5>2. q \in Nat /\ j > q /\ q < Len(m)
          BY <2>11, <2>14, <4>3, <5>1
        <5>3. PICK l \in ToSet(st.left) : Suffix(l, m, q)
          BY <5>1, <5>2
        <5>4. \A n \in 1..Len(m) : n > q + 1 => m[n] \in ToSet(Tail(l))
          BY <2>13, <2>14, <5>2, <5>3, SuffixTail
        <5>5. ~(j > q + 1)
          BY <2>13, <4>3, <5>4
        <5>6. i <= q
          BY <3>1, <5>2, <5>5
        <5> QED
          BY <4>1, <4>3, <5>1, <5>6
      <4> QED
        BY <3>1, <4>2, <4>3
    <3> QED
      BY <2>12, <3>1 DEF KeepsOrder
  <2>18. c \in UNION {ToSet(m) : m \in ToSet(lists)}
    <3>1. PICK l \in ToSet(st.left) : l = st.left[k]
      BY <1>2, <2>2
    <3>2. PICK m \in ToSet(lists), q \in Nat : Suffix(l, m, q)
      BY <1>1 DEF LeftOK
    <3>3. q + 1 \in 1..Len(m) /\ m[q + 1] = c
      BY <2>5, <2>13, <2>14, <3>1, <3>2, SuffixTail
    <3>4. c \in ToSet(m)
      BY <2>14, <3>3, SeqRange
    <3> QED
      BY <3>4
  <2> QED
    BY <1>1, <2>8, <2>10, <2>12, <2>15, <2>16, <2>17, <2>18 DEF MergeOK
<1> QED
  BY <1>4, <1>5

\* The elements of the lists, and the order the lists ask for.
AllOf(lists) == UNION {ToSet(m) : m \in ToSet(lists)}
Asked(lists, x, y) == \E m \in ToSet(lists) : Precedes(m, x, y)

LEMMA SeqFinite ==
    ASSUME NEW T, NEW seq \in Seq(T)
    PROVE  /\ IsFiniteSet(ToSet(seq))
           /\ IsInjective(seq) => Cardinality(ToSet(seq)) = Len(seq)
<1>1. DOMAIN seq = 1..Len(seq) /\ Len(seq) \in Nat
  BY LenProperties
<1>2. seq \in [1..Len(seq) -> ToSet(seq)] /\ \A x \in ToSet(seq) : \E i \in 1..Len(seq) : seq[i] = x
  BY <1>1, SeqDef, SeqRange DEF ToSet
<1>3. IsFiniteSet(1..Len(seq)) /\ Cardinality(1..Len(seq)) = Len(seq)
  BY <1>1, FS_Interval
<1>4. seq \in Surjection(1..Len(seq), ToSet(seq))
  BY <1>2 DEF Surjection
<1>5. IsInjective(seq) => seq \in Injection(1..Len(seq), ToSet(seq))
  BY <1>1, <1>2 DEF IsInjective, Injection
<1> QED
  BY <1>3, <1>4, <1>5, FS_Surjection

LEMMA AllFinite ==
    ASSUME NEW T, NEW lists \in Seq(Seq(T))
    PROVE  IsFiniteSet(AllOf(lists)) /\ Cardinality(AllOf(lists)) \in Nat
<1> DEFINE Sets == {ToSet(m) : m \in ToSet(lists)}
<1>1. IsFiniteSet(ToSet(lists)) /\ \A m \in ToSet(lists) : m \in Seq(T)
  BY SeqFinite, SeqRange
<1>2. IsFiniteSet(Sets)
  <2> DEFINE f == [m \in ToSet(lists) |-> ToSet(m)]
  <2>1. f \in Surjection(ToSet(lists), Sets)
    BY DEF Surjection
  <2> QED
    BY <1>1, <2>1, FS_Surjection
<1>3. \A s \in Sets : IsFiniteSet(s)
  BY <1>1, SeqFinite
<1>4. IsFiniteSet(UNION Sets)
  BY <1>2, <1>3, FS_UNION
<1> QED
  BY <1>4, FS_CardinalityType DEF AllOf

\* As many different elements as there are.
LEMMA InjectiveCardinality ==
    ASSUME NEW T, NEW seq \in Seq(T), IsInjective(seq), NEW S, IsFiniteSet(S), ToSet(seq) \subseteq S,
           Len(seq) = Cardinality(S)
    PROVE  ToSet(seq) = S
BY SeqFinite, FS_Subset

LEMMA MergeStart ==
    ASSUME NEW T, NEW lists \in Seq(Seq(T)), NEW st,
           st = [left |-> Kept(lists, ToSet(lists) \ {<<>>}), result |-> <<>>]
    PROVE  MergeOK(T, lists, st) /\ Len(st.result) = 0
<1>1. PICK left : left = Kept(lists, ToSet(lists) \ {<<>>})
  OBVIOUS
<1>2. left \in Seq(Seq(T)) /\ ToSet(left) = ToSet(lists) \cap (ToSet(lists) \ {<<>>})
  BY <1>1, KeptIs
<1>3. st.left = left /\ st.result = <<>>
  BY <1>1
<1>4. <<>> \in Seq(T) /\ DOMAIN <<>> = {} /\ ToSet(<<>>) = {} /\ IsInjective(<<>>) /\ Len(<<>>) = 0
  BY DEF ToSet, IsInjective
<1>5. \A m \in ToSet(lists) : m \in Seq(T) /\ Len(m) \in Nat /\ Suffix(m, m, 0)
                              /\ (m # <<>> => m \in ToSet(left)) /\ (m = <<>> => Len(m) = 0)
  <2> SUFFICES ASSUME NEW m \in ToSet(lists)
               PROVE  m \in Seq(T) /\ Len(m) \in Nat /\ Suffix(m, m, 0)
                      /\ (m # <<>> => m \in ToSet(left)) /\ (m = <<>> => Len(m) = 0)
    OBVIOUS
  <2>1. m \in Seq(T) /\ Len(m) \in Nat
    BY SeqRange
  <2>2. Len(m) + 0 = Len(m) /\ \A i \in 1..Len(m) : i + 0 = i
    BY <2>1
  <2>3. Suffix(m, m, 0)
    BY <2>2 DEF Suffix
  <2> QED
    BY <1>2, <1>4, <2>1, <2>3
<1>6. LeftOK(lists, st)
  <2>1. \A l \in ToSet(left) : l \in ToSet(lists) /\ l # <<>>
    BY <1>2
  <2> QED
    BY <1>3, <1>4, <1>5, <2>1 DEF LeftOK
<1>7. TakenOK(lists, st)
  <2>1. ASSUME NEW m \in ToSet(lists)
        PROVE  /\ 0 \in 0..Len(m)
               /\ \A i \in 1..Len(m) : m[i] \in {} <=> i <= 0
               /\ 0 < Len(m) => \E l \in ToSet(left) : Suffix(l, m, 0)
    BY <1>5
  <2> QED
    BY <1>3, <1>4, <2>1 DEF TakenOK
<1>8. KeepsOrder(lists, st.result)
  BY <1>3, <1>4 DEF KeepsOrder
<1> QED
  BY <1>2, <1>3, <1>4, <1>6, <1>7, <1>8 DEF MergeOK

\* What is left when there were as many steps as there are elements.
LEMMA MergeEnds ==
    ASSUME NEW T, NEW lists \in Seq(Seq(T)), NEW st, MergeOK(T, lists, st),
           Len(st.result) = Cardinality(AllOf(lists))
    PROVE  st.left = <<>>
<1>1. /\ st.left \in Seq(Seq(T)) /\ st.result \in Seq(T) /\ IsInjective(st.result)
      /\ LeftOK(lists, st) /\ ToSet(st.result) \subseteq AllOf(lists)
  BY DEF MergeOK, AllOf
<1>2. ToSet(st.result) = AllOf(lists)
  BY <1>1, AllFinite, InjectiveCardinality
<1>3. ASSUME NEW l \in ToSet(st.left) PROVE FALSE
  <2>1. PICK m \in ToSet(lists), q \in Nat : Suffix(l, m, q)
    BY <1>1 DEF LeftOK
  <2>2. l \in Seq(T) /\ m \in Seq(T) /\ l # <<>> /\ ToSet(l) \cap ToSet(st.result) = {}
    BY <1>1, SeqRange DEF LeftOK
  <2>3. 1 \in 1..Len(l) /\ l[1] \in ToSet(l)
    BY <2>2, EmptySeq, SeqRange
  <2>4. l[1] \in ToSet(m)
    BY <2>1, <2>2, <2>3, SuffixTail
  <2> QED
    BY <1>2, <2>2, <2>3, <2>4 DEF AllOf
<1>4. ToSet(st.left) = {}
  BY <1>3
<1> QED
  <2>1. PICK ls : ls = st.left
    OBVIOUS
  <2>2. ls \in Seq(Seq(T)) /\ ToSet(ls) = {}
    BY <1>1, <1>4, <2>1
  <2>3. Len(ls) \in Nat /\ \A i \in 1..Len(ls) : ls[i] \in ToSet(ls)
    BY <2>2, SeqRange
  <2>4. Len(ls) = 0
    BY <2>2, <2>3
  <2> QED
    BY <2>1, <2>2, <2>4, EmptySeq

\* cThreeMerge: all elements once, each list in its order; or no element is
\* the first of some.
LEMMA MergeIsRight ==
    ASSUME NEW T, NEW lists \in Seq(Seq(T)), NEW r, r = CThreeMerge(lists)
    PROVE  \/ /\ r \in Seq(T) /\ ToSet(r) = AllOf(lists) /\ IsInjective(r)
              /\ \A x, y : Asked(lists, x, y) => Precedes(r, x, y)
           \/ /\ r = <<>>
              /\ \E S \in SUBSET AllOf(lists) :
                     S # {} /\ \A x \in S : \E y \in S : Asked(lists, y, x)
<1> DEFINE n == Cardinality(AllOf(lists))
           left == Kept(lists, ToSet(lists) \ {<<>>})
           seq == [i \in 1..n |-> i]
<1>1. n \in Nat
  BY AllFinite
<1>2. DOMAIN seq = 1..n
  OBVIOUS
<1>3. PICK end : end = Merged(left, seq)
  OBVIOUS
<1>4. r = IF end.left = <<>> THEN end.result ELSE <<>>
  BY <1>3, Zenon DEF CThreeMerge, Merged, MergeOneMore, AllOf
<1> HIDE DEF left, seq
<1>5. PICK it : Loop(it, "merge", {}, [left |-> left, result |-> <<>>], seq, n) /\ end = it[1..n]
  BY <1>1, <1>2, <1>3, MergeLoop
<1> DEFINE Good(k) == /\ MergeOK(T, lists, it[1..k])
                      /\ Len(it[1..k].result) = k \/ Stuck(it[1..k].left)
<1>6. Good(0)
  <2>1. it[1..0] = [left |-> left, result |-> <<>>]
    BY <1>5 DEF Loop
  <2> QED
    BY <2>1, MergeStart DEF left
<1>7. ASSUME NEW k \in 0..(n - 1), Good(k) PROVE Good(k + 1)
  <2>1. PICK cur, next : cur = it[1..k] /\ next = it[1..(k + 1)]
    OBVIOUS
  <2>2. next = MergeOneMore(cur)
    <3>1. next = OneMore("merge", {}, cur, seq[k + 1])
      BY <1>5, <2>1 DEF Loop
    <3> QED
      BY <3>1, Zenon DEF OneMore
  <2>3. MergeOK(T, lists, cur) /\ (Len(cur.result) = k \/ Stuck(cur.left))
    BY <1>7, <2>1
  <2>4. /\ MergeOK(T, lists, next)
        /\ (next = cur /\ Stuck(cur.left)) \/ Len(next.result) = Len(cur.result) + 1
    BY <2>2, <2>3, MergeStep
  <2>5. Stuck(cur.left) => next = cur
    <3>1. SUFFICES ASSUME Stuck(cur.left) PROVE next = cur
      OBVIOUS
    <3>2. PICK ls : ls = cur.left
      OBVIOUS
    <3>3. ls \in Seq(Seq(T))
      BY <2>3, <3>2 DEF MergeOK
    <3>4. \A i \in 1..Len(ls) : ls[i] \in ToSet(ls)
      BY <3>3, SeqRange
    <3>5. \A i \in 1..Len(ls) : ~AppearsOnlyAtHead(Head(ls[i]), ls)
      BY <3>1, <3>2, <3>4 DEF Stuck
    <3>6. {i \in 1..Len(cur.left) : AppearsOnlyAtHead(Head(cur.left[i]), cur.left)} = {}
      BY <3>2, <3>5
    <3>7. SelectInSeq(cur.left, LAMBDA l : AppearsOnlyAtHead(Head(l), cur.left)) = 0
      BY <3>6 DEF SelectInSeq
    <3> QED
      BY <2>2, <3>7, Zenon DEF MergeOneMore
  <2> QED
    BY <2>1, <2>3, <2>4, <2>5
<1> HIDE DEF n
<1>8. Good(n)
  <2> DEFINE S == {k \in Nat : k <= n => Good(k)}
  <2> HIDE DEF Good
  <2>1. 0 \in S
    BY <1>6
  <2>2. \A k \in Nat : k \in S => k + 1 \in S
    BY <1>1, <1>7
  <2> HIDE DEF S
  <2>3. Nat \subseteq S
    BY <2>1, <2>2, NatSetInduction
  <2> QED
    BY <1>1, <2>3 DEF S
<1>9. MergeOK(T, lists, end) /\ Stuck(end.left)
  <2>1. MergeOK(T, lists, end) /\ (Len(end.result) = n \/ Stuck(end.left))
    BY <1>5, <1>8
  <2>2. Len(end.result) = n => end.left = <<>>
    BY <2>1, MergeEnds DEF n
  <2>3. end.left = <<>> => Stuck(end.left)
    BY DEF Stuck, ToSet
  <2> QED
    BY <2>1, <2>2, <2>3
<1>10. CASE end.left = <<>>
  <2>1. r = end.result
    BY <1>4, <1>10
  <2>2. /\ r \in Seq(T) /\ IsInjective(r) /\ TakenOK(lists, end) /\ KeepsOrder(lists, r)
        /\ ToSet(r) \subseteq AllOf(lists)
    BY <1>9, <2>1 DEF MergeOK, AllOf
  <2>3. ASSUME NEW m \in ToSet(lists) PROVE \A i \in 1..Len(m) : m[i] \in ToSet(r)
    <3>1. PICK q \in 0..Len(m) : /\ \A i \in 1..Len(m) : m[i] \in ToSet(r) <=> i <= q
                                 /\ q < Len(m) => \E l \in ToSet(end.left) : Suffix(l, m, q)
      BY <2>1, <2>2 DEF TakenOK
    <3>2. Len(m) \in Nat /\ ToSet(end.left) = {}
      BY <1>10, SeqRange DEF ToSet
    <3> QED
      BY <3>1, <3>2
  <2>4. \A m \in ToSet(lists) : m \in Seq(T) /\ DOMAIN m = 1..Len(m)
    BY SeqRange
  <2>5. ToSet(r) = AllOf(lists)
    <3>1. \A m \in ToSet(lists) : \A x \in ToSet(m) : \E i \in 1..Len(m) : m[i] = x
      BY <2>4, SeqRange
    <3> QED
      BY <2>2, <2>3, <3>1 DEF AllOf
  <2>6. \A x, y : Asked(lists, x, y) => Precedes(r, x, y)
    <3> SUFFICES ASSUME NEW x, NEW y, NEW m \in ToSet(lists), Precedes(m, x, y)
                 PROVE  Precedes(r, x, y)
      BY DEF Asked
    <3>1. PICK a, b \in 1..Len(m) : a < b /\ m[a] = x /\ m[b] = y
      BY <2>4 DEF Precedes
    <3> QED
      BY <2>2, <2>3, <3>1 DEF KeepsOrder
  <2> QED
    BY <2>2, <2>5, <2>6
<1>11. CASE end.left # <<>>
  <2>1. r = <<>>
    BY <1>4, <1>11
  <2>2. PICK ls : ls = end.left
    OBVIOUS
  <2>3. ls \in Seq(Seq(T)) /\ ls # <<>> /\ LeftOK(lists, end) /\ Stuck(ls)
    BY <1>9, <1>11, <2>2 DEF MergeOK
  <2>4. \A l \in ToSet(ls) : l \in Seq(T) /\ l # <<>> /\ Head(l) \in T /\ Tail(l) \in Seq(T)
                             /\ ToSet(l) = {Head(l)} \cup ToSet(Tail(l))
    BY <2>2, <2>3, SeqRange, HeadTail DEF LeftOK
  <2>5. \A m \in ToSet(lists) : m \in Seq(T) /\ DOMAIN m = 1..Len(m) /\ Len(m) \in Nat
    BY SeqRange
  <2> DEFINE S == {Head(l) : l \in ToSet(ls)}
  <2>6. S # {}
    <3>1. Len(ls) # 0 /\ Len(ls) \in Nat
      BY <2>3, EmptySeq, LenProperties
    <3>2. 1 \in 1..Len(ls) /\ ls[1] \in ToSet(ls)
      BY <2>3, <3>1, SeqRange
    <3> QED
      BY <3>2
  <2>7. \A l \in ToSet(ls) : \E m \in ToSet(lists) : \E q \in Nat : Suffix(l, m, q)
    BY <2>2, <2>3 DEF LeftOK
  <2>8. S \in SUBSET AllOf(lists)
    <3>1. ASSUME NEW l \in ToSet(ls) PROVE Head(l) \in AllOf(lists)
      <4>1. PICK m \in ToSet(lists), q \in Nat : Suffix(l, m, q)
        BY <2>7
      <4>2. q + 1 \in 1..Len(m) /\ m[q + 1] = Head(l)
        BY <2>4, <2>5, <4>1, SuffixTail
      <4>3. Head(l) \in ToSet(m)
        BY <2>5, <4>2, SeqRange
      <4> QED
        BY <4>3 DEF AllOf
    <3> QED
      BY <3>1
  <2>9. ASSUME NEW l \in ToSet(ls)
        PROVE  \E o \in ToSet(ls) : Asked(lists, Head(o), Head(l))
    <3>1. PICK o \in ToSet(ls) : Head(l) \in ToSet(Tail(o))
      BY <2>3 DEF Stuck, AppearsOnlyAtHead
    <3>2. PICK m \in ToSet(lists), q \in Nat : Suffix(o, m, q)
      BY <2>7
    <3>3. q + 1 \in 1..Len(m) /\ m[q + 1] = Head(o) /\ Suffix(Tail(o), m, q + 1)
      BY <2>4, <2>5, <3>2, SuffixTail
    <3>4. PICK i \in 1..Len(Tail(o)) : Tail(o)[i] = Head(l)
      BY <2>4, <3>1, SeqRange
    <3>5. Len(Tail(o)) + (q + 1) = Len(m) /\ Tail(o)[i] = m[i + (q + 1)] /\ Len(Tail(o)) \in Nat
      BY <2>4, <3>3, <3>4, LenProperties DEF Suffix
    <3>6. i + (q + 1) \in 1..Len(m) /\ q + 1 < i + (q + 1)
      <4>1. PICK a, b : a = Len(Tail(o)) /\ b = Len(m)
        OBVIOUS
      <4>2. a \in Nat /\ b \in Nat /\ i \in 1..a /\ a + (q + 1) = b /\ q \in Nat
        BY <2>5, <3>2, <3>4, <3>5, <4>1
      <4>3. i + (q + 1) \in 1..b /\ q + 1 < i + (q + 1)
        BY <4>2
      <4> QED
        BY <4>1, <4>3
    <3>7. Precedes(m, Head(o), Head(l))
      BY <2>5, <3>3, <3>4, <3>5, <3>6 DEF Precedes
    <3> QED
      BY <3>7 DEF Asked
  <2>10. \A x \in S : \E y \in S : Asked(lists, y, x)
    BY <2>9
  <2> HIDE DEF S
  <2> QED
    BY <2>1, <2>6, <2>8, <2>10
<1> QED
  BY <1>10, <1>11

LEMMA ReverseSet ==
    ASSUME NEW T, NEW seq \in Seq(T)
    PROVE  Reverse(seq) \in Seq(T) /\ ToSet(Reverse(seq)) = ToSet(seq)
<1> DEFINE n == Len(seq)
<1>1. n \in Nat /\ DOMAIN seq = 1..n /\ \A i \in 1..n : seq[i] \in T
  BY LenProperties, ElementOfSeq
<1>2. Reverse(seq) = [i \in 1..n |-> seq[(n - i) + 1]]
  BY DEF Reverse
<1> HIDE DEF n
<1>3. \A i \in 1..n : (n - i) + 1 \in 1..n /\ (n - ((n - i) + 1)) + 1 = i
  BY <1>1
<1>4. Reverse(seq) \in [1..n -> T]
  BY <1>1, <1>2, <1>3
<1>5. Reverse(seq) \in Seq(T)
  BY <1>1, <1>4, SeqDef
<1>6. ToSet(Reverse(seq)) = {seq[(n - i) + 1] : i \in 1..n}
  BY <1>2 DEF ToSet
<1>7. ToSet(seq) = {seq[i] : i \in 1..n}
  BY <1>1 DEF ToSet
<1> QED
  BY <1>3, <1>5, <1>6, <1>7

\* The pairs of a sequence.
LEMMA BeforeIs ==
    ASSUME NEW T, NEW seq \in Seq(T)
    PROVE  /\ \A x, y : <<x, y>> \in Before(seq) <=> Precedes(seq, x, y)
           /\ \A p \in Before(seq) : p = <<p[1], p[2]>>
<1> DEFINE n == Len(seq)
<1>1. n \in Nat /\ DOMAIN seq = 1..n
  BY LenProperties
<1>2. Before(seq) = UNION {{<<seq[i], seq[j]>> : j \in (i + 1)..n} : i \in 1..n}
  BY <1>1 DEF Before
<1> HIDE DEF n
<1>3. \A i, j : (i \in 1..n /\ j \in (i + 1)..n) <=> (i \in 1..n /\ j \in 1..n /\ i < j)
  BY <1>1
<1>4. \A p : p \in Before(seq) <=> \E i \in 1..n : \E j \in (i + 1)..n : p = <<seq[i], seq[j]>>
  BY <1>2
<1>5. \A p : p \in Before(seq) <=> \E i, j \in 1..n : i < j /\ p = <<seq[i], seq[j]>>
  BY <1>3, <1>4
<1>6. \A x, y : Precedes(seq, x, y) <=> \E i, j \in 1..n : i < j /\ seq[i] = x /\ seq[j] = y
  BY <1>1 DEF Precedes
<1> QED
  BY <1>5, <1>6

-----------------------------------------------------------------------------
(* The linearizations that are there.                                      *)
Contracts == UNION {ContractsOf(u) : u \in Units}

BasesKnown(lin, d) ==
    \A i \in DOMAIN NodeOf(d).bases :
        Named(d.unit, NodeOf(d).bases[i]) # {} /\ Named(d.unit, NodeOf(d).bases[i]) \subseteq DOMAIN lin

\* Each is what its bases give.
LineOK(lin, d) ==
    /\ d \in Contracts /\ BasesKnown(lin, d)
    /\ lin[d] # <<>> /\ lin[d] = Linearize(d, BasesOf(d), lin)
    /\ lin[d] \in Seq(DOMAIN lin) /\ d \in ToSet(lin[d])
    /\ lin[d][1] = d /\ \A e \in ToSet(lin[d]) : ToSet(lin[e]) \subseteq ToSet(lin[d])

LinesOK(lin) == \A d \in DOMAIN lin : LineOK(lin, d)

\* What the bases of d ask of its linearization.
Wants(lin, d, x, y) ==
    \/ Precedes(<<d>> \o Reverse(BasesOf(d)), x, y)
    \/ \E b \in ToSet(BasesOf(d)) : Precedes(lin[b], x, y)

LEMMA NodeIs ==
    ASSUME FilesOK, NEW d \in Contracts
    PROVE  /\ d.unit \in Units /\ d \in ContractsOf(d.unit)
           /\ NodeOf(d).kind = "contract" /\ NodeOf(d).bases \in Seq(ToSet(NodeOf(d).bases))
<1>1. PICK u \in Units : d \in ContractsOf(u)
  BY DEF Contracts
<1>2. PICK i \in DOMAIN NodesOf(u) : NodesOf(u)[i].kind = "contract" /\ d = [unit |-> u, node |-> i]
  BY <1>1 DEF ContractsOf, Declaration
<1>3. d.unit = u /\ NodeOf(d) = NodesOf(u)[i]
  BY <1>2 DEF NodeOf
<1>4. NodesOf(u)[i] \in ToSet(NodesOf(u))
  BY <1>2 DEF ToSet
<1>5. /\ project \in Projects /\ Canonical(u) \in DOMAIN project.disk
      /\ NodesOf(u) = project.disk[Canonical(u)].nodes
  BY NodesAre DEF FilesOK, NodesOf
<1>6. \A n \in ToSet(NodesOf(u)) : n.kind = "contract" => n.bases \in Seq(ToSet(n.bases))
  BY <1>5, ProjectsAssumption
<1> QED
  BY <1>1, <1>2, <1>3, <1>4, <1>6

LEMMA BasesAre ==
    ASSUME FilesOK, NEW lin, NEW d \in Contracts, BasesKnown(lin, d)
    PROVE  /\ BasesOf(d) \in Seq(DOMAIN lin)
           /\ \A i \in DOMAIN NodeOf(d).bases : BasesOf(d)[i] \in Named(d.unit, NodeOf(d).bases[i])
<1>1. PICK n \in Nat : DOMAIN NodeOf(d).bases = 1..n
  BY NodeIs, LenProperties
<1>2. ASSUME NEW i \in DOMAIN NodeOf(d).bases
      PROVE  BasesOf(d)[i] \in Named(d.unit, NodeOf(d).bases[i]) /\ BasesOf(d)[i] \in DOMAIN lin
  <2>1. PICK s : s = Named(d.unit, NodeOf(d).bases[i])
    OBVIOUS
  <2>2. s # {} /\ s \subseteq DOMAIN lin /\ BasesOf(d)[i] = CHOOSE b \in s : TRUE
    BY <2>1 DEF BasesKnown, BasesOf
  <2>3. (CHOOSE b \in s : TRUE) \in s
    BY <2>2
  <2> QED
    BY <2>1, <2>2, <2>3
<1>3. BasesOf(d) \in [1..n -> DOMAIN lin]
  <2>1. BasesOf(d) = [i \in 1..n |-> BasesOf(d)[i]]
    BY <1>1 DEF BasesOf
  <2> QED
    BY <1>1, <1>2, <2>1
<1>4. BasesOf(d) \in Seq(DOMAIN lin)
  BY <1>1, <1>3, SeqDef
<1> QED
  BY <1>2, <1>4

\* What Linearize gives for a contract whose bases are there.
LEMMA LinearizeIs ==
    ASSUME FilesOK, NEW lin, LinesOK(lin), NEW d \in Contracts, BasesKnown(lin, d),
           NEW line, line = Linearize(d, BasesOf(d), lin)
    PROVE  \/ /\ line # <<>> /\ line \in Seq(DOMAIN lin \cup {d})
              /\ ToSet(line) = {d} \cup UNION {ToSet(lin[b]) : b \in ToSet(BasesOf(d))}
              /\ IsInjective(line)
              /\ \A x, y : Wants(lin, d, x, y) => Precedes(line, x, y)
           \/ /\ line = <<>>
              /\ \E S : S # {} /\ \A x \in S : \E y \in S : Wants(lin, d, y, x)
<1> DEFINE T == DOMAIN lin \cup {d}
<1>1. PICK bases : bases = BasesOf(d)
  OBVIOUS
<1>2. bases \in Seq(DOMAIN lin)
  BY <1>1, BasesAre
<1>3. PICK n \in Nat : DOMAIN bases = 1..n
  BY <1>2, LenProperties
<1>4. PICK ls : ls = [i \in DOMAIN bases |-> lin[bases[i]]]
  OBVIOUS
<1>5. PICK head : head = <<d>> \o Reverse(bases)
  OBVIOUS
<1>6. PICK lists : lists = Reverse(ls) \o <<head>>
  OBVIOUS
<1>7. line = CThreeMerge(lists)
  BY <1>1, <1>4, <1>5, <1>6 DEF Linearize
<1>8. \A b \in DOMAIN lin : lin[b] \in Seq(T) /\ b \in ToSet(lin[b])
  <2>1. \A b \in DOMAIN lin : lin[b] \in Seq(DOMAIN lin) /\ b \in ToSet(lin[b])
    BY DEF LinesOK, LineOK
  <2>2. \A b \in DOMAIN lin : lin[b] \in Seq(T)
    <3> SUFFICES ASSUME NEW b \in DOMAIN lin PROVE lin[b] \in Seq(T)
      OBVIOUS
    <3>1. PICK s : s = lin[b] /\ s \in Seq(DOMAIN lin)
      BY <2>1
    <3>2. s \in Seq(T)
      BY <3>1, SeqMonotonic
    <3> QED
      BY <3>1, <3>2
  <2> QED
    BY <2>1, <2>2
<1> HIDE DEF T
<1>9. DOMAIN lin \subseteq T /\ d \in T
  BY DEF T
<1>10. bases \in Seq(T) /\ \A i \in 1..n : bases[i] \in DOMAIN lin /\ bases[i] \in ToSet(bases)
  <2>1. bases \in Seq(T)
    BY <1>2, <1>9, SeqMonotonic
  <2> QED
    BY <1>2, <1>3, <2>1, ElementOfSeq DEF ToSet
<1>11. /\ head \in Seq(T) /\ ToSet(head) = {d} \cup ToSet(bases)
  <2>1. Reverse(bases) \in Seq(T) /\ ToSet(Reverse(bases)) = ToSet(bases)
    BY <1>10, ReverseSet
  <2>2. <<d>> \in Seq(T) /\ ToSet(<<d>>) = {d}
    BY <1>9 DEF ToSet
  <2>3. PICK s, t : s = <<d>> /\ t = Reverse(bases)
    OBVIOUS
  <2>4. s \in Seq(T) /\ t \in Seq(T)
    BY <2>1, <2>2, <2>3
  <2>5. s \o t \in Seq(T) /\ ToSet(s \o t) = ToSet(s) \cup ToSet(t)
    BY <2>4, ConcatSet
  <2> QED
    BY <1>5, <2>1, <2>2, <2>3, <2>5
<1>12. ls \in Seq(Seq(T)) /\ ToSet(ls) = {lin[b] : b \in ToSet(bases)}
  <2>1. ls \in [1..n -> Seq(T)]
    BY <1>3, <1>4, <1>8, <1>10
  <2>2. ls \in Seq(Seq(T))
    BY <2>1, SeqDef
  <2>3. ToSet(ls) = {lin[bases[i]] : i \in 1..n} /\ ToSet(bases) = {bases[i] : i \in 1..n}
    BY <1>3, <1>4 DEF ToSet
  <2> QED
    BY <2>2, <2>3
<1>13. lists \in Seq(Seq(T)) /\ ToSet(lists) = {lin[b] : b \in ToSet(bases)} \cup {head}
  <2>1. Reverse(ls) \in Seq(Seq(T)) /\ ToSet(Reverse(ls)) = ToSet(ls)
    BY <1>12, ReverseSet
  <2>2. <<head>> \in Seq(Seq(T)) /\ ToSet(<<head>>) = {head}
    <3>1. PICK S : S = Seq(T)
      OBVIOUS
    <3>2. head \in S
      BY <1>11, <3>1
    <3>3. <<head>> \in Seq(S) /\ ToSet(<<head>>) = {head}
      BY <3>2 DEF ToSet
    <3> QED
      BY <3>1, <3>3
  <2>3. lists \in Seq(Seq(T)) /\ ToSet(lists) = ToSet(Reverse(ls)) \cup ToSet(<<head>>)
    <3>1. PICK s, t : s = Reverse(ls) /\ t = <<head>>
      OBVIOUS
    <3>2. s \in Seq(Seq(T)) /\ t \in Seq(Seq(T))
      BY <2>1, <2>2, <3>1
    <3>3. s \o t \in Seq(Seq(T)) /\ ToSet(s \o t) = ToSet(s) \cup ToSet(t)
      BY <3>2, ConcatSet
    <3> QED
      BY <1>6, <3>1, <3>3
  <2> QED
    BY <1>12, <2>1, <2>2, <2>3
<1>14. ToSet(bases) \subseteq DOMAIN lin
  BY <1>2, SeqRange
<1>15. AllOf(lists) = {d} \cup UNION {ToSet(lin[b]) : b \in ToSet(bases)}
  BY <1>8, <1>11, <1>13, <1>14 DEF AllOf
<1>16. \A x, y : Asked(lists, x, y) <=> Wants(lin, d, x, y)
  <2>1. \A x, y : Asked(lists, x, y) <=> Precedes(head, x, y) \/ \E b \in ToSet(bases) : Precedes(lin[b], x, y)
    BY <1>13 DEF Asked
  <2> QED
    BY <1>1, <1>5, <2>1 DEF Wants
<1>17. \/ /\ line \in Seq(T) /\ ToSet(line) = AllOf(lists) /\ IsInjective(line)
          /\ \A x, y : Asked(lists, x, y) => Precedes(line, x, y)
       \/ /\ line = <<>>
          /\ \E S \in SUBSET AllOf(lists) :
                 S # {} /\ \A x \in S : \E y \in S : Asked(lists, y, x)
  BY <1>7, <1>13, MergeIsRight
<1>18. d \in ToSet(line) => line # <<>>
  BY DEF ToSet
<1>19. CASE /\ line \in Seq(T) /\ ToSet(line) = AllOf(lists) /\ IsInjective(line)
            /\ \A x, y : Asked(lists, x, y) => Precedes(line, x, y)
  BY <1>1, <1>15, <1>16, <1>18, <1>19 DEF T
<1>20. CASE /\ line = <<>>
            /\ \E S \in SUBSET AllOf(lists) :
                   S # {} /\ \A x \in S : \E y \in S : Asked(lists, y, x)
  BY <1>16, <1>20
<1> QED
  BY <1>17, <1>19, <1>20

LEMMA DemandedIs ==
    ASSUME FilesOK, LinesOK(linear), NEW d \in Contracts, BasesKnown(linear, d)
    PROVE  /\ \A x, y : <<x, y>> \in Demanded(d) <=> Wants(linear, d, x, y)
           /\ \A p \in Demanded(d) : p = <<p[1], p[2]>>
<1>1. PICK bases, head : bases = BasesOf(d) /\ head = <<d>> \o Reverse(bases)
  OBVIOUS
<1>2. bases \in Seq(DOMAIN linear) /\ ToSet(bases) \subseteq DOMAIN linear
  BY <1>1, BasesAre, SeqRange
<1>3. head \in Seq(DOMAIN linear \cup {d})
  <2>1. PICK T : T = DOMAIN linear \cup {d}
    OBVIOUS
  <2>2. bases \in Seq(T)
    BY <1>2, <2>1, SeqMonotonic
  <2>3. PICK s, t : s = <<d>> /\ t = Reverse(bases)
    OBVIOUS
  <2>4. s \in Seq(T) /\ t \in Seq(T)
    BY <2>1, <2>2, <2>3, ReverseSet
  <2>5. s \o t \in Seq(T)
    BY <2>4, ConcatSet
  <2> QED
    BY <1>1, <2>1, <2>3, <2>5
<1>4. \A b \in ToSet(bases) : linear[b] \in Seq(DOMAIN linear)
  BY <1>2 DEF LinesOK, LineOK
<1>5. /\ \A x, y : <<x, y>> \in Before(head) <=> Precedes(head, x, y)
      /\ \A p \in Before(head) : p = <<p[1], p[2]>>
  BY <1>3, BeforeIs
<1>6. ASSUME NEW b \in ToSet(bases)
      PROVE  /\ \A x, y : <<x, y>> \in Before(linear[b]) <=> Precedes(linear[b], x, y)
             /\ \A p \in Before(linear[b]) : p = <<p[1], p[2]>>
  <2>1. PICK s : s = linear[b]
    OBVIOUS
  <2>2. s \in Seq(DOMAIN linear)
    BY <1>4, <2>1
  <2> QED
    BY <2>1, <2>2, BeforeIs
<1>7. \A p : p \in Demanded(d) <=> p \in Before(head) \/ \E b \in ToSet(bases) : p \in Before(linear[b])
  BY <1>1 DEF Demanded
<1>8. \A x, y : Wants(linear, d, x, y) <=> Precedes(head, x, y) \/ \E b \in ToSet(bases) : Precedes(linear[b], x, y)
  BY <1>1 DEF Wants
<1> QED
  BY <1>5, <1>6, <1>7, <1>8

\* What LinearRight says of the contracts that have been resolved.
LEMMA LinesRight ==
    ASSUME FilesOK, LinesOK(linear), NEW d \in DOMAIN linear
    PROVE  /\ ToSet(linear[d]) = {d} \cup UNION {ToSet(linear[b]) : b \in ToSet(BasesOf(d))}
           /\ IsInjective(linear[d])
           /\ Demanded(d) \subseteq Before(linear[d])
<1>1. PICK line : line = linear[d]
  OBVIOUS
<1>2. /\ d \in Contracts /\ BasesKnown(linear, d) /\ line # <<>>
      /\ line = Linearize(d, BasesOf(d), linear) /\ line \in Seq(DOMAIN linear)
  BY <1>1 DEF LinesOK, LineOK
<1>3. /\ ToSet(line) = {d} \cup UNION {ToSet(linear[b]) : b \in ToSet(BasesOf(d))}
      /\ IsInjective(line)
      /\ \A x, y : Wants(linear, d, x, y) => Precedes(line, x, y)
  BY <1>2, LinearizeIs
<1>4. \A x, y : <<x, y>> \in Before(line) <=> Precedes(line, x, y)
  BY <1>2, BeforeIs
<1>5. Demanded(d) \subseteq Before(line)
  BY <1>2, <1>3, <1>4, DemandedIs
<1> QED
  BY <1>1, <1>3, <1>5

\* ... and of one that has been refused.
NoLine(lin, d) ==
    \/ \E i \in DOMAIN NodeOf(d).bases : Named(d.unit, NodeOf(d).bases[i]) \cap DOMAIN lin = {}
    \/ BasesKnown(lin, d) /\ Linearize(d, BasesOf(d), lin) = <<>>

LEMMA RefusedCyclic ==
    ASSUME FilesOK, LinesOK(linear), NEW d \in Contracts, NoLine(linear, d)
    PROVE  \/ \E i \in DOMAIN NodeOf(d).bases : Named(d.unit, NodeOf(d).bases[i]) \cap DOMAIN linear = {}
           \/ ~Acyclic(Demanded(d))
<1> SUFFICES ASSUME BasesKnown(linear, d), Linearize(d, BasesOf(d), linear) = <<>>
             PROVE  ~Acyclic(Demanded(d))
  BY DEF NoLine
<1>1. PICK S : S # {} /\ \A x \in S : \E y \in S : Wants(linear, d, y, x)
  BY LinearizeIs
<1>2. PICK R : R = Demanded(d)
  OBVIOUS
<1>3. \A x \in S : \E y \in S : <<y, x>> \in R
  BY <1>1, <1>2, DemandedIs
<1>4. S \subseteq {p[1] : p \in R} \cup {p[2] : p \in R}
  <2>1. \A x, y : <<y, x>>[2] = x
    OBVIOUS
  <2>2. \A x \in S : \E p \in R : p[2] = x
    BY <1>3, <2>1
  <2> QED
    BY <2>2
<1>5. ~Acyclic(R)
  BY <1>1, <1>3, <1>4 DEF Acyclic
<1> QED
  BY <1>2, <1>5

\* The name of a base stands for one contract at most.
LEMMA NamedOne ==
    ASSUME NEW u, NEW names
    PROVE  \A b, c \in Named(u, names) : b = c
<1> DEFINE first == IF names[1] \in DOMAIN scopes[u] THEN {scopes[u][names[1]]} ELSE {}
           some == {e \in first : NodeOf(e).kind = "import"}
           inner == {scopes[Target(e.unit, NodeOf(e))] : e \in some}
           held == {t \in inner : names[2] \in DOMAIN t}
           found == IF Len(names) = 1 THEN first ELSE {s[names[2]] : s \in held}
<1>1. Named(u, names) \subseteq found
  BY Zenon DEF Named
<1>2. \A b, c \in first : b = c
  OBVIOUS
<1> HIDE DEF first
<1>3. \A b, c \in some : b = c
  BY <1>2
<1> HIDE DEF some
<1>4. \A b, c \in inner : b = c
  BY <1>3
<1> HIDE DEF inner
<1>5. \A b, c \in held : b = c
  BY <1>4
<1> HIDE DEF held
<1>6. \A b, c \in found : b = c
  BY <1>2, <1>5
<1> QED
  BY <1>1, <1>6

Grown(lin, more) == DOMAIN lin \subseteq DOMAIN more /\ \A e \in DOMAIN lin : more[e] = lin[e]

\* A linearization begins with its contract, and has what is in those of the
\* others in it.
LEMMA LineNested ==
    ASSUME FilesOK, NEW lin, LinesOK(lin), NEW d \in Contracts, BasesKnown(lin, d),
           NEW line, line = Linearize(d, BasesOf(d), lin) /\ line # <<>>
    PROVE  /\ line[1] = d
           /\ \A e \in ToSet(line) : e = d \/ (e \in DOMAIN lin /\ ToSet(lin[e]) \subseteq ToSet(line))
<1>1. PICK bases, head : bases = BasesOf(d) /\ head = <<d>> \o Reverse(bases)
  OBVIOUS
<1>2. bases \in Seq(DOMAIN lin) /\ ToSet(bases) \subseteq DOMAIN lin
  BY <1>1, BasesAre, SeqRange
<1>3. /\ line \in Seq(DOMAIN lin \cup {d})
      /\ ToSet(line) = {d} \cup UNION {ToSet(lin[b]) : b \in ToSet(bases)}
      /\ IsInjective(line)
      /\ \A x, y : Wants(lin, d, x, y) => Precedes(line, x, y)
  BY <1>1, LinearizeIs
<1>4. \A b \in ToSet(bases) :
          /\ lin[b] \in Seq(DOMAIN lin) /\ lin[b] # <<>> /\ lin[b][1] = b
          /\ \A e \in ToSet(lin[b]) : ToSet(lin[e]) \subseteq ToSet(lin[b])
  BY <1>2 DEF LinesOK, LineOK
<1>5. ASSUME NEW b \in ToSet(bases) PROVE Wants(lin, d, d, b)
  <2>1. PICK r : r = Reverse(bases)
    OBVIOUS
  <2>2. r \in Seq(DOMAIN lin) /\ ToSet(r) = ToSet(bases)
    BY <1>2, <2>1, ReverseSet
  <2>3. PICK i \in 1..Len(r) : r[i] = b
    BY <2>2, SeqRange
  <2>4. PICK T, s : T = DOMAIN lin \cup {d} /\ s = <<d>>
    OBVIOUS
  <2>5. s \in Seq(T) /\ r \in Seq(T) /\ Len(s) = 1 /\ Len(r) \in Nat /\ s[1] = d
    BY <2>2, <2>4, SeqMonotonic, LenProperties
  <2>6. head = s \o r
    BY <1>1, <2>1, <2>4
  <2>7. /\ DOMAIN head = 1..(1 + Len(r))
        /\ \A k \in 1..(1 + Len(r)) : head[k] = IF k <= 1 THEN s[k] ELSE r[k - 1]
    <3>1. s \in Seq(T) /\ r \in Seq(T)
      BY <2>5
    <3>2. /\ s \o r \in Seq(T) /\ Len(s \o r) = Len(s) + Len(r)
          /\ \A k \in 1..(Len(s) + Len(r)) : (s \o r)[k] = IF k <= Len(s) THEN s[k] ELSE r[k - Len(s)]
      BY <3>1, ConcatProperties
    <3>3. DOMAIN head = 1..Len(head)
      BY <2>6, <3>2, LenProperties
    <3> QED
      BY <2>5, <2>6, <3>2, <3>3
  <2>8. 1 \in DOMAIN head /\ i + 1 \in DOMAIN head /\ 1 < i + 1 /\ head[1] = d /\ head[i + 1] = b
    BY <2>3, <2>5, <2>7
  <2>9. Precedes(head, d, b)
    BY <2>8 DEF Precedes
  <2> QED
    BY <1>1, <2>9 DEF Wants
<1>6. ASSUME NEW x \in ToSet(line), x # d PROVE \E y : Wants(lin, d, y, x)
  <2>1. PICK b \in ToSet(bases) : x \in ToSet(lin[b])
    BY <1>3, <1>6
  <2>2. PICK l : l = lin[b]
    OBVIOUS
  <2>3. l \in Seq(DOMAIN lin) /\ l[1] = b
    BY <1>4, <2>2
  <2>4. PICK j \in 1..Len(l) : l[j] = x
    BY <2>1, <2>2, <2>3, SeqRange
  <2>5. CASE j = 1
    BY <1>5, <2>3, <2>4, <2>5
  <2>6. CASE j # 1
    <3>1. 1 \in DOMAIN l /\ j \in DOMAIN l /\ 1 < j
      BY <2>3, <2>4, <2>6, SeqRange
    <3>2. Precedes(lin[b], b, x)
      BY <2>2, <2>3, <2>4, <3>1 DEF Precedes
    <3> QED
      BY <1>1, <3>2 DEF Wants
  <2> QED
    BY <2>5, <2>6
<1>7. line[1] = d
  <2>1. Len(line) \in Nat \ {0} /\ DOMAIN line = 1..Len(line) /\ line[1] \in ToSet(line)
    BY <1>3, EmptySeq, LenProperties, SeqRange
  <2>2. SUFFICES ASSUME line[1] # d PROVE FALSE
    OBVIOUS
  <2>3. PICK y : Precedes(line, y, line[1])
    BY <1>3, <1>6, <2>1, <2>2
  <2>4. PICK a, c \in DOMAIN line : a < c /\ line[c] = line[1]
    BY <2>3 DEF Precedes
  <2>5. c = 1
    BY <1>3, <2>1, <2>4 DEF IsInjective
  <2> QED
    BY <2>1, <2>4, <2>5
<1>8. ASSUME NEW e \in ToSet(line), e # d PROVE e \in DOMAIN lin /\ ToSet(lin[e]) \subseteq ToSet(line)
  <2>1. PICK b \in ToSet(bases) : e \in ToSet(lin[b])
    BY <1>3, <1>8
  <2>2. ToSet(lin[b]) \subseteq DOMAIN lin
    BY <1>4, SeqRange
  <2> QED
    BY <1>3, <1>4, <2>1, <2>2
<1> QED
  BY <1>7, <1>8

\* One more linearization changes none that is there.
LEMMA MoreLines ==
    ASSUME FilesOK, NEW lin, LinesOK(lin), NEW d \in Contracts, BasesKnown(lin, d),
           NEW line, NEW more, line = Linearize(d, BasesOf(d), lin) /\ line # <<>> /\ more = With(lin, d, line)
    PROVE  LinesOK(more) /\ DOMAIN more = DOMAIN lin \cup {d} /\ Grown(lin, more)
<1>1. DOMAIN more = DOMAIN lin \cup {d} /\ more[d] = line /\ \A e \in DOMAIN lin : e # d => more[e] = lin[e]
  BY DEF With
<1>2. d \in DOMAIN lin => lin[d] = line
  BY DEF LinesOK, LineOK
<1>3. \A e \in DOMAIN lin : more[e] = lin[e]
  BY <1>1, <1>2
<1>4. ASSUME NEW e \in Contracts, BasesKnown(lin, e)
      PROVE  BasesKnown(more, e) /\ Linearize(e, BasesOf(e), more) = Linearize(e, BasesOf(e), lin)
  <2>1. BasesKnown(more, e)
    BY <1>1, <1>4 DEF BasesKnown
  <2>2. BasesOf(e) \in Seq(DOMAIN lin)
    BY <1>4, BasesAre
  <2>3. \A i \in DOMAIN BasesOf(e) : BasesOf(e)[i] \in DOMAIN lin
    <3>1. PICK s : s = BasesOf(e) /\ s \in Seq(DOMAIN lin)
      BY <2>2
    <3>2. \A i \in DOMAIN s : s[i] \in DOMAIN lin
      BY <3>1, ElementOfSeq, LenProperties
    <3> QED
      BY <3>1, <3>2
  <2>4. [i \in DOMAIN BasesOf(e) |-> more[BasesOf(e)[i]]] = [i \in DOMAIN BasesOf(e) |-> lin[BasesOf(e)[i]]]
    BY <1>3, <2>3
  <2> QED
    BY <2>1, <2>4, Zenon DEF Linearize
<1>5. DOMAIN lin \subseteq DOMAIN more
  BY <1>1
<1>6. ASSUME NEW e \in DOMAIN lin PROVE LineOK(more, e)
  <2>1. PICK s : s = lin[e]
    OBVIOUS
  <2>2. /\ e \in Contracts /\ BasesKnown(lin, e) /\ s # <<>> /\ s = Linearize(e, BasesOf(e), lin)
        /\ s \in Seq(DOMAIN lin) /\ e \in ToSet(s)
        /\ s[1] = e /\ \A f \in ToSet(s) : ToSet(lin[f]) \subseteq ToSet(s)
    BY <2>1 DEF LinesOK, LineOK
  <2>3. s \in Seq(DOMAIN more)
    BY <1>5, <2>2, SeqMonotonic
  <2>4. more[e] = s
    BY <1>3, <2>1
  <2>5. \A f \in ToSet(s) : f \in DOMAIN lin /\ more[f] = lin[f]
    BY <1>3, <2>2, SeqRange
  <2>6. \A f \in ToSet(s) : ToSet(more[f]) \subseteq ToSet(s)
    BY <2>2, <2>5
  <2> QED
    BY <1>4, <2>2, <2>3, <2>4, <2>6 DEF LineOK
<1>7. LineOK(more, d)
  <2>1. line \in Seq(DOMAIN more) /\ d \in ToSet(line)
    BY <1>1, LinearizeIs
  <2>2. line[1] = d /\ \A e \in ToSet(line) : e = d \/ (e \in DOMAIN lin /\ ToSet(lin[e]) \subseteq ToSet(line))
    BY LineNested
  <2>3. \A e \in ToSet(line) : ToSet(more[e]) \subseteq ToSet(line)
    BY <1>1, <1>3, <2>2
  <2> QED
    BY <1>1, <1>4, <2>1, <2>2, <2>3 DEF LineOK
<1> QED
  BY <1>1, <1>3, <1>6, <1>7 DEF LinesOK, Grown

ResolveState(st) ==
    /\ LinesOK(st.linear) /\ st.failed \in BOOLEAN
    /\ st = [linear |-> st.linear, failed |-> st.failed, clash |-> st.clash]

ChainIn(lin, d) == [i \in DOMAIN lin[d] |-> MembersOf(lin[d][i])]

LEMMA ResolveStep ==
    ASSUME FilesOK, NEW d \in Contracts, NEW st, ResolveState(st),
           NEW next, next = ResolveContract(st, d)
    PROVE  /\ ResolveState(next)
           /\ \/ st.failed /\ next.failed /\ next.linear = st.linear
              \/ next.failed /\ next.linear = st.linear /\ NoLine(st.linear, d) /\ d \notin DOMAIN st.linear
              \/ /\ ~st.failed /\ ~next.failed
                 /\ DOMAIN next.linear = DOMAIN st.linear \cup {d} /\ Grown(st.linear, next.linear)
                 /\ next.clash = (st.clash \/ MemberClash(ChainIn(next.linear, d)))
<1> DEFINE names == NodeOf(d).bases
           found == [i \in DOMAIN names |-> Named(d.unit, names[i])]
           known == \A i \in DOMAIN found : found[i] # {} /\ found[i] \subseteq DOMAIN st.linear
           bases == [i \in DOMAIN found |-> CHOOSE b \in found[i] : TRUE]
           line  == IF known THEN Linearize(d, bases, st.linear) ELSE <<>>
           chain == [i \in DOMAIN line |-> MembersOf(line[i])]
<1>1. next = IF st.failed \/ line = <<>> THEN [st EXCEPT !.failed = TRUE]
             ELSE [st EXCEPT !.linear = With(@, d, line), !.clash = @ \/ MemberClash(chain)]
  BY Zenon DEF ResolveContract
<1>2. bases = BasesOf(d)
  BY DEF BasesOf
<1>3. known <=> BasesKnown(st.linear, d)
  BY DEF BasesKnown
<1> HIDE DEF known, bases, found
<1>4. PICK lin, l : lin = st.linear /\ l = line
  OBVIOUS
<1>5. l = IF BasesKnown(lin, d) THEN Linearize(d, BasesOf(d), lin) ELSE <<>>
  BY <1>2, <1>3, <1>4
<1>6. LinesOK(lin) /\ st.failed \in BOOLEAN /\ st = [linear |-> lin, failed |-> st.failed, clash |-> st.clash]
  BY <1>4 DEF ResolveState
<1>7. PICK ch : ch = [i \in DOMAIN l |-> MembersOf(l[i])]
  OBVIOUS
<1>8. next = IF st.failed \/ l = <<>> THEN [st EXCEPT !.failed = TRUE]
             ELSE [st EXCEPT !.linear = With(@, d, l), !.clash = @ \/ MemberClash(ch)]
  BY <1>1, <1>4, <1>7
<1> HIDE DEF line, chain
<1>9. CASE st.failed
  <2>1. next = [linear |-> lin, failed |-> TRUE, clash |-> st.clash]
    BY <1>6, <1>8, <1>9
  <2> QED
    BY <1>4, <1>6, <1>9, <2>1 DEF ResolveState
<1>10. CASE ~st.failed /\ l = <<>>
  <2>0. next = [st EXCEPT !.failed = TRUE]
    BY <1>8, <1>10
  <2>1. next = [linear |-> lin, failed |-> TRUE, clash |-> st.clash]
    <3>1. PICK f, c : f = st.failed /\ c = st.clash
      OBVIOUS
    <3>2. st = [linear |-> lin, failed |-> f, clash |-> c]
      BY <1>6, <3>1
    <3>3. next = [[linear |-> lin, failed |-> f, clash |-> c] EXCEPT !.failed = TRUE]
      BY <2>0, <3>2
    <3> QED
      BY <3>1, <3>3
  <2>2. d \notin DOMAIN lin
    BY <1>5, <1>6, <1>10 DEF LinesOK, LineOK
  <2>3. NoLine(lin, d)
    <3>1. CASE BasesKnown(lin, d)
      BY <1>5, <1>10, <3>1 DEF NoLine
    <3>2. CASE ~BasesKnown(lin, d)
      <4>1. PICK i \in DOMAIN NodeOf(d).bases :
                ~(Named(d.unit, NodeOf(d).bases[i]) # {} /\ Named(d.unit, NodeOf(d).bases[i]) \subseteq DOMAIN lin)
        BY <3>2 DEF BasesKnown
      <4>2. PICK N : N = Named(d.unit, NodeOf(d).bases[i])
        OBVIOUS
      <4>3. \A b, c \in N : b = c
        BY <4>2, NamedOne
      <4>4. N \cap DOMAIN lin = {}
        BY <4>1, <4>2, <4>3
      <4> QED
        BY <4>1, <4>2, <4>4 DEF NoLine
    <3> QED
      BY <3>1, <3>2
  <2> QED
    BY <1>4, <1>6, <2>1, <2>2, <2>3 DEF ResolveState
<1>11. CASE ~st.failed /\ l # <<>>
  <2>1. PICK more : more = With(lin, d, l)
    OBVIOUS
  <2>0. next = [st EXCEPT !.linear = With(@, d, l), !.clash = @ \/ MemberClash(ch)]
    BY <1>8, <1>11, Zenon
  <2>2. next = [linear |-> more, failed |-> FALSE, clash |-> (st.clash \/ MemberClash(ch))]
    <3>1. PICK wrong : wrong = (st.clash \/ MemberClash(ch))
      OBVIOUS
    <3>2. next = [st EXCEPT !.linear = more, !.clash = wrong]
      BY <1>4, <2>0, <2>1, <3>1, Zenon
    <3>3. st.failed = FALSE
      BY <1>6, <1>11
    <3>4. next = [linear |-> more, failed |-> st.failed, clash |-> wrong]
      BY <1>6, <3>2
    <3> QED
      BY <3>1, <3>3, <3>4
  <2>3. BasesKnown(lin, d) /\ l = Linearize(d, BasesOf(d), lin)
    BY <1>5, <1>11
  <2>4. LinesOK(more) /\ DOMAIN more = DOMAIN lin \cup {d} /\ more[d] = l /\ Grown(lin, more)
    <3>1. /\ FilesOK /\ LinesOK(lin) /\ d \in Contracts /\ BasesKnown(lin, d)
          /\ l = Linearize(d, BasesOf(d), lin) /\ l # <<>> /\ more = With(lin, d, l)
      BY <1>6, <1>11, <2>1, <2>3
    <3>2. LinesOK(more) /\ DOMAIN more = DOMAIN lin \cup {d} /\ Grown(lin, more)
      BY <3>1, MoreLines
    <3>3. more[d] = l
      BY <3>1 DEF With
    <3> QED
      BY <3>2, <3>3
  <2>5. ch = ChainIn(more, d)
    BY <1>7, <2>4 DEF ChainIn
  <2>6. next.linear = more /\ next.failed = FALSE /\ next.clash = (st.clash \/ MemberClash(ch))
    BY <2>2
  <2> QED
    BY <1>4, <1>11, <2>2, <2>4, <2>5, <2>6 DEF ResolveState
<1> QED
  BY <1>6, <1>9, <1>10, <1>11

\* All contracts of a unit: each is linearized, or one is refused and those
\* after it are not looked at.
FarOK(contracts, n, k, st) ==
    /\ ResolveState(st) /\ Grown(linear, st.linear)
    /\ DOMAIN st.linear \subseteq DOMAIN linear \cup ToSet(contracts)
    /\ st.failed => \E i \in 1..n : contracts[i] \notin DOMAIN st.linear /\ NoLine(st.linear, contracts[i])
    /\ ~st.failed => \A i \in 1..k : /\ contracts[i] \in DOMAIN st.linear
                                     /\ ~st.clash => ~MemberClash(ChainIn(st.linear, contracts[i]))

LEMMA FarStep ==
    ASSUME FilesOK, NEW n \in Nat, NEW contracts \in Seq(Contracts), n = Len(contracts),
           NEW k \in 0..(n - 1), NEW st, FarOK(contracts, n, k, st),
           NEW next, next = ResolveContract(st, contracts[k + 1])
    PROVE  FarOK(contracts, n, k + 1, next)
<1>1. k + 1 \in 1..n /\ \A i \in 1..n : contracts[i] \in ToSet(contracts) /\ contracts[i] \in Contracts
  BY SeqRange, ElementOfSeq
<1>2. PICK d : d = contracts[k + 1]
  OBVIOUS
<1>3. d \in Contracts /\ d \in ToSet(contracts) /\ next = ResolveContract(st, d)
  BY <1>1, <1>2
<1>4. /\ ResolveState(next)
      /\ \/ st.failed /\ next.failed /\ next.linear = st.linear
         \/ next.failed /\ next.linear = st.linear /\ NoLine(st.linear, d) /\ d \notin DOMAIN st.linear
         \/ /\ ~st.failed /\ ~next.failed
            /\ DOMAIN next.linear = DOMAIN st.linear \cup {d} /\ Grown(st.linear, next.linear)
            /\ next.clash = (st.clash \/ MemberClash(ChainIn(next.linear, d)))
  <2>1. ResolveState(st)
    BY DEF FarOK
  <2> QED
    BY <1>3, <2>1, ResolveStep
<1>5. PICK lin, more : lin = st.linear /\ more = next.linear
  OBVIOUS
<1>6. /\ Grown(linear, lin) /\ DOMAIN lin \subseteq DOMAIN linear \cup ToSet(contracts)
      /\ st.failed => \E i \in 1..n : contracts[i] \notin DOMAIN lin /\ NoLine(lin, contracts[i])
      /\ ~st.failed => \A i \in 1..k : /\ contracts[i] \in DOMAIN lin
                                       /\ ~st.clash => ~MemberClash(ChainIn(lin, contracts[i]))
  BY <1>5 DEF FarOK
<1>7. CASE next.failed /\ more = lin /\ \E i \in 1..n : contracts[i] \notin DOMAIN lin /\ NoLine(lin, contracts[i])
  BY <1>4, <1>5, <1>6, <1>7 DEF FarOK
<1>8. CASE /\ ~st.failed /\ ~next.failed
           /\ DOMAIN more = DOMAIN lin \cup {d} /\ Grown(lin, more)
           /\ next.clash = (st.clash \/ MemberClash(ChainIn(more, d)))
  <2>1. Grown(linear, more)
    BY <1>6, <1>8 DEF Grown
  <2>2. DOMAIN more \subseteq DOMAIN linear \cup ToSet(contracts)
    BY <1>3, <1>6, <1>8
  <2>3. \A e \in DOMAIN lin : ChainIn(more, e) = ChainIn(lin, e)
    BY <1>8 DEF Grown, ChainIn
  <2>4. ASSUME NEW i \in 1..(k + 1)
        PROVE  /\ contracts[i] \in DOMAIN more
               /\ ~next.clash => ~MemberClash(ChainIn(more, contracts[i]))
    <3>1. CASE i = k + 1
      <4>1. contracts[i] = d
        BY <1>2, <3>1
      <4>2. d \in DOMAIN more /\ (MemberClash(ChainIn(more, d)) => next.clash)
        BY <1>8
      <4> QED
        BY <4>1, <4>2
    <3>2. CASE i \in 1..k
      <4>1. contracts[i] \in DOMAIN lin /\ (~st.clash => ~MemberClash(ChainIn(lin, contracts[i])))
        BY <1>6, <1>8, <3>2
      <4>2. st.clash => next.clash
        BY <1>8
      <4> QED
        BY <1>8, <2>3, <4>1, <4>2
    <3> QED
      BY <3>1, <3>2
  <2> QED
    BY <1>4, <1>5, <1>8, <2>1, <2>2, <2>4 DEF FarOK
<1> QED
  BY <1>1, <1>2, <1>4, <1>5, <1>6, <1>7, <1>8

LEMMA ResolvedIs ==
    ASSUME FilesOK, LinesOK(linear), NEW contracts \in Seq(Contracts), NEW r, r = Resolved(contracts)
    PROVE  /\ LinesOK(r.linear) /\ r.failed \in BOOLEAN /\ Grown(linear, r.linear)
           /\ DOMAIN r.linear \subseteq DOMAIN linear \cup ToSet(contracts)
           /\ r.failed => \E d \in ToSet(contracts) \ DOMAIN r.linear : NoLine(r.linear, d)
           /\ ~r.failed => /\ ToSet(contracts) \subseteq DOMAIN r.linear
                           /\ ~r.clash => \A d \in ToSet(contracts) : ~MemberClash(ChainIn(r.linear, d))
<1>1. PICK n : n = Len(contracts)
  OBVIOUS
<1>2. n \in Nat /\ DOMAIN contracts = 1..n
  BY <1>1, LenProperties
<1>3. PICK base : base = [linear |-> linear, failed |-> FALSE, clash |-> FALSE]
  OBVIOUS
<1>4. PICK it : Loop(it, "contracts", {}, base, contracts, n) /\ r = it[1..n]
  BY <1>2, <1>3, ContractsLoop
<1> DEFINE S == {k \in Nat : k <= n => FarOK(contracts, n, k, it[1..k])}
<1>5. 0 \in S
  <2>1. it[1..0] = base
    BY <1>4 DEF Loop
  <2>2. FarOK(contracts, n, 0, base)
    <3>1. base.linear = linear /\ base.failed = FALSE /\ base.clash = FALSE
      BY <1>3
    <3>2. ResolveState(base)
      BY <1>3, <3>1 DEF ResolveState
    <3> QED
      BY <3>1, <3>2 DEF FarOK, Grown
  <2> QED
    BY <2>1, <2>2
<1>6. ASSUME NEW k \in Nat, k \in S PROVE k + 1 \in S
  <2> SUFFICES ASSUME k + 1 <= n PROVE FarOK(contracts, n, k + 1, it[1..(k + 1)])
    OBVIOUS
  <2>1. k \in 0..(n - 1) /\ FarOK(contracts, n, k, it[1..k])
    BY <1>2, <1>6
  <2>2. it[1..(k + 1)] = OneMore("contracts", {}, it[1..k], contracts[k + 1])
    BY <1>4, <2>1 DEF Loop
  <2>3. it[1..(k + 1)] = ResolveContract(it[1..k], contracts[k + 1])
    BY <2>2, Zenon DEF OneMore
  <2> QED
    BY <1>1, <1>2, <2>1, <2>3, FarStep
<1> HIDE DEF S
<1>7. Nat \subseteq S
  BY <1>5, <1>6, NatSetInduction
<1>8. FarOK(contracts, n, n, r)
  BY <1>2, <1>4, <1>7 DEF S
<1>9. ToSet(contracts) = {contracts[i] : i \in 1..n}
  BY <1>2 DEF ToSet
<1>10. /\ LinesOK(r.linear) /\ r.failed \in BOOLEAN /\ Grown(linear, r.linear)
       /\ DOMAIN r.linear \subseteq DOMAIN linear \cup ToSet(contracts)
  BY <1>8 DEF FarOK, ResolveState
<1>11. r.failed => \E d \in ToSet(contracts) \ DOMAIN r.linear : NoLine(r.linear, d)
  BY <1>8, <1>9 DEF FarOK
<1>12. ~r.failed => /\ ToSet(contracts) \subseteq DOMAIN r.linear
                    /\ ~r.clash => \A d \in ToSet(contracts) : ~MemberClash(ChainIn(r.linear, d))
  BY <1>8, <1>9 DEF FarOK
<1> QED
  BY <1>10, <1>11, <1>12

-----------------------------------------------------------------------------
(* Where the passes are.                                                   *)
PlaceOK ==
    /\ pass \in 1..(Len(Passes) + 1) /\ pos \in 1..(Len(order) + 1)
    /\ stage = "analysing" \/ pass > 1 => pos \in 1..Len(order)
    /\ stage \in {"start", "unreadable", "parsing", "parsed"} => pass = 1 /\ pos = 1
    /\ pass = 12 => pos = 1

LEMMA OrderLength == ASSUME Loaded, OrderOK, Analysing PROVE Len(order) \in Nat \ {0}
<1>1. project.main \in ToSet(order) /\ order \in Seq(Units)
  BY DEF Loaded, FilesOK, Begun, OrderOK, Analysing
<1>2. order # <<>>
  BY <1>1 DEF ToSet
<1> QED
  BY <1>1, <1>2, EmptySeq, LenProperties

LEMMA RunningIs ==
    ASSUME PlaceOK, NEW p, Running(p)
    PROVE  /\ stage = "analysing" /\ pass \in 1..13 /\ Passes[pass] = p
           /\ pos \in 1..Len(order)
           /\ (p = "register" <=> pass = 3) /\ (p = "import" <=> pass = 4) /\ (p = "resolve" <=> pass = 5)
           /\ p = "mutability" <=> pass = 12
<1>1. Len(Passes) = 13
  BY DEF Passes
<1>2. pass \in 1..13 /\ Passes[pass] = p /\ stage = "analysing" /\ pos \in 1..Len(order)
  BY <1>1 DEF Running, PlaceOK
<1> QED
  BY <1>2 DEF Passes

\* A step to the next unit or the next pass.
LEMMA ForwardPlace ==
    ASSUME Loaded, OrderOK, PlaceOK, stage = "analysing", pass \in 1..13, pass # 12, Forward \/ GiveUp, order' = order
    PROVE  PlaceOK'
<1>1. Len(Passes) = 13
  BY DEF Passes
<1>2. PICK n : n = Len(order)
  OBVIOUS
<1>3. n \in Nat \ {0} /\ Len(order') = n /\ pos \in 1..n
  BY <1>2, OrderLength DEF PlaceOK, Analysing
<1>4. CASE Forward
  <2>1. \/ pos < n /\ pos' = pos + 1 /\ pass' = pass
        \/ pos' = 1 /\ pass' = pass + 1
    BY <1>2, <1>4 DEF Forward
  <2>2. stage' = "analysing" /\ pass' \in 1..14 /\ pos' \in 1..n /\ pos' \in 1..(n + 1)
    BY <1>3, <1>4, <2>1 DEF Forward
  <2>3. pass' = 12 => pos' = 1
    BY <2>1
  <2> QED
    BY <1>1, <1>3, <2>2, <2>3 DEF PlaceOK
<1>5. CASE GiveUp
  <2>1. stage' = "rejected" /\ pass' = pass /\ pos' = pos
    BY <1>5 DEF GiveUp
  <2> QED
    BY <1>2, <1>3, <2>1 DEF PlaceOK
<1> QED
  BY <1>4, <1>5

LEMMA PlaceNext == ASSUME Loaded, OrderOK, PlaceOK, [Next]_vars PROVE PlaceOK'
<1>0. Len(Passes) = 13
  BY DEF Passes
<1>1. ASSUME UNCHANGED <<order, pass, pos>>, stage' = "analysing" => stage = "analysing",
             stage' \in {"start", "unreadable", "parsing", "parsed"} =>
                 stage \in {"start", "unreadable", "parsing", "parsed"}
      PROVE  PlaceOK'
  BY <1>1 DEF PlaceOK
<1>2. CASE ReadMain
  BY <1>1, <1>2 DEF ReadMain
<1>3. CASE Parse
  BY <1>1, <1>3 DEF Parse
<1>4. CASE ParsingDone
  BY <1>1, <1>4 DEF ParsingDone
<1>5. CASE ResolveImports
  <2>1. stage = "parsed" /\ stage' = "analysing" /\ pass' = pass /\ pos' = pos /\ pass = 1 /\ pos = 1
    BY <1>5 DEF ResolveImports, PlaceOK
  <2>2. Loaded' /\ OrderOK'
    BY LoadedNext, OrderNext
  <2>3. Len(order') \in Nat \ {0}
    <3>1. project'.main \in ToSet(order') /\ order' \in Seq(Units')
      BY <2>1, <2>2 DEF Loaded, FilesOK, Begun, OrderOK, Analysing
    <3>2. order' # <<>>
      BY <3>1 DEF ToSet
    <3> QED
      BY <3>1, <3>2, EmptySeq, LenProperties
  <2> QED
    BY <1>0, <2>1, <2>3 DEF PlaceOK
<1>6. ASSUME NEW p \in Checks, Check(p) PROVE PlaceOK'
  <2>1. Running(p) /\ (Forward \/ GiveUp) /\ order' = order /\ p # "mutability"
    BY <1>6 DEF Check, Checks
  <2> QED
    BY <2>1, RunningIs, ForwardPlace
<1>7. CASE RegisterDeclarations
  <2>1. Running("register") /\ Forward /\ order' = order
    BY <1>7 DEF RegisterDeclarations
  <2> QED
    BY <2>1, RunningIs, ForwardPlace
<1>8. CASE PerformImports
  <2>1. Running("import") /\ (Forward \/ GiveUp) /\ order' = order
    BY <1>8 DEF PerformImports
  <2> QED
    BY <2>1, RunningIs, ForwardPlace
<1>9. CASE ResolveNames
  <2>1. Running("resolve") /\ (Forward \/ GiveUp) /\ order' = order
    BY <1>9 DEF ResolveNames
  <2> QED
    BY <2>1, RunningIs, ForwardPlace
<1>10. CASE CheckMutability
  <2>1. Running("mutability") /\ pass' = pass + 1 /\ UNCHANGED <<stage, order, pos>>
    BY <1>10 DEF CheckMutability
  <2>2. pass = 12 /\ stage = "analysing"
    BY <2>1, RunningIs
  <2> QED
    BY <1>0, <2>1, <2>2 DEF PlaceOK
<1>11. CASE Leave
  BY <1>1, <1>11 DEF Leave
<1>12. CASE RunEngine
  BY <1>1, <1>12 DEF RunEngine
<1>13. CASE UNCHANGED vars
  BY <1>1, <1>13 DEF vars
<1> QED
  BY <1>2, <1>3, <1>4, <1>5, <1>6, <1>7, <1>8, <1>9, <1>10, <1>11, <1>12, <1>13 DEF Next, Over

-----------------------------------------------------------------------------
(* resolve.                                                                *)
LEMMA LinesStay ==
    ASSUME UNCHANGED <<sources, scopes>>
    PROVE  /\ \A u : NodesOf(u)' = NodesOf(u) /\ ContractsOf(u)' = ContractsOf(u)
           /\ \A d : NodeOf(d)' = NodeOf(d) /\ BasesOf(d)' = BasesOf(d)
           /\ \A u, names : Named(u, names)' = Named(u, names)
           /\ Contracts' = Contracts
<1>1. \A u : NodesOf(u)' = NodesOf(u) /\ ContractsOf(u)' = ContractsOf(u)
  BY DEF NodesOf, ContractsOf
<1>2. \A d : NodeOf(d)' = NodeOf(d)
  BY DEF NodeOf, NodesOf
<1>3. \A u, names : Named(u, names)' = Named(u, names)
  BY DEF Named, NodeOf, NodesOf, Target
<1>4. \A d : BasesOf(d)' = BasesOf(d)
  BY DEF BasesOf, Named, NodeOf, NodesOf, Target
<1>5. Contracts' = Contracts
  BY DEF Contracts, ContractsOf, NodesOf, Units
<1> QED
  BY <1>1, <1>2, <1>3, <1>4, <1>5

LEMMA LinesStayOK ==
    ASSUME UNCHANGED <<sources, scopes>>, NEW lin
    PROVE  /\ LinesOK(lin) => LinesOK(lin)'
           /\ \A d : NoLine(lin, d) => NoLine(lin, d)'
<1>1. \A d : BasesKnown(lin, d)' = BasesKnown(lin, d)
  BY LinesStay DEF BasesKnown
<1>2. \A d : LineOK(lin, d)' = LineOK(lin, d)
  BY <1>1, LinesStay DEF LineOK
<1>3. \A d : NoLine(lin, d)' = NoLine(lin, d)
  BY <1>1, LinesStay DEF NoLine
<1> QED
  BY <1>2, <1>3 DEF LinesOK

LinearOK ==
    /\ pass < 5 => linear = <<>>
    /\ LinesOK(linear)
    /\ stage = "rejected" /\ pass = 5 =>
           Wrong("resolve") \/ \E d \in ContractsOf(Unit) \ DOMAIN linear : NoLine(linear, d)

\* The contracts of a unit in their order.
LEMMA ContractsHere ==
    ASSUME FilesOK, NEW u \in Units, NEW contracts,
           contracts = Kept([i \in DOMAIN NodesOf(u) |-> Declaration(u, i)], ContractsOf(u))
    PROVE  contracts \in Seq(Contracts) /\ ToSet(contracts) = ContractsOf(u)
<1>1. PICK n \in Nat : DOMAIN NodesOf(u) = 1..n
  BY NodesAre, LenProperties
<1> DEFINE T == {Declaration(u, i) : i \in 1..n}
           all == [i \in DOMAIN NodesOf(u) |-> Declaration(u, i)]
<1>2. all \in Seq(T) /\ ToSet(all) = T
  <2>1. all \in [1..n -> T]
    BY <1>1
  <2> QED
    BY <1>1, <2>1, SeqDef DEF ToSet
<1>3. ContractsOf(u) \subseteq T
  BY <1>1 DEF ContractsOf
<1> HIDE DEF T, all
<1>4. contracts \in Seq(T) /\ ToSet(contracts) = ContractsOf(u)
  <2>1. contracts = Kept(all, ContractsOf(u))
    BY DEF all
  <2>2. PICK seq, K : seq = all /\ K = ContractsOf(u)
    OBVIOUS
  <2>3. Kept(seq, K) \in Seq(T) /\ ToSet(Kept(seq, K)) = ToSet(seq) \cap K
    BY <1>2, <2>2, KeptIs
  <2> QED
    BY <1>2, <1>3, <2>1, <2>2, <2>3
<1>5. contracts \in Seq(ToSet(contracts))
  <2>1. \A i \in 1..Len(contracts) : contracts[i] \in ToSet(contracts)
    BY <1>4, SeqRange
  <2>2. contracts = [i \in 1..Len(contracts) |-> contracts[i]] /\ Len(contracts) \in Nat
    BY <1>4, LenProperties
  <2>3. contracts \in [1..Len(contracts) -> ToSet(contracts)]
    BY <2>1, <2>2
  <2> QED
    BY <2>2, <2>3, SeqDef
<1>6. ContractsOf(u) \subseteq Contracts
  BY DEF Contracts
<1> QED
  BY <1>4, <1>5, <1>6, SeqMonotonic

\* What the pass leaves: all contracts of the unit linearized, or it gives up.
LEMMA ResolveNamesIs ==
    ASSUME FilesOK, OrderOK, PlaceOK, LinesOK(linear), ResolveNames
    PROVE  /\ pass = 5 /\ stage = "analysing" /\ Unit \in Units
           /\ \E r : /\ linear' = r.linear
                     /\ LinesOK(r.linear) /\ Grown(linear, r.linear)
                     /\ DOMAIN r.linear \subseteq DOMAIN linear \cup ContractsOf(Unit)
                     /\ r.failed => \E d \in ContractsOf(Unit) \ DOMAIN r.linear : NoLine(r.linear, d)
                     /\ ~r.failed => /\ ContractsOf(Unit) \subseteq DOMAIN r.linear
                                     /\ ~r.clash => \A d \in ContractsOf(Unit) : ~MemberClash(ChainIn(r.linear, d))
                     /\ Report("resolve", r.failed \/ Wrong("resolve") \/ r.clash)
                     /\ IF r.failed \/ Wrong("resolve") THEN GiveUp ELSE Forward
<1>1. Running("resolve")
  BY DEF ResolveNames
<1>2. pass = 5 /\ stage = "analysing" /\ pos \in 1..Len(order)
  BY <1>1, RunningIs
<1>3. Unit \in Units
  BY <1>2, ElementOfSeq DEF OrderOK, Unit
<1>4. PICK contracts : contracts = Kept([i \in DOMAIN NodesOf(Unit) |-> Declaration(Unit, i)], ContractsOf(Unit))
  OBVIOUS
<1>5. contracts \in Seq(Contracts) /\ ToSet(contracts) = ContractsOf(Unit)
  BY <1>3, <1>4, ContractsHere
<1>6. PICK r : r = Resolved(contracts)
  OBVIOUS
<1>7. /\ linear' = r.linear
      /\ Report("resolve", (r.failed \/ Wrong("resolve")) \/ r.clash)
      /\ IF r.failed \/ Wrong("resolve") THEN GiveUp ELSE Forward
  BY <1>4, <1>6, Zenon DEF ResolveNames, Resolved
<1>8. /\ LinesOK(r.linear) /\ r.failed \in BOOLEAN /\ Grown(linear, r.linear)
      /\ DOMAIN r.linear \subseteq DOMAIN linear \cup ToSet(contracts)
      /\ r.failed => \E d \in ToSet(contracts) \ DOMAIN r.linear : NoLine(r.linear, d)
      /\ ~r.failed => /\ ToSet(contracts) \subseteq DOMAIN r.linear
                      /\ ~r.clash => \A d \in ToSet(contracts) : ~MemberClash(ChainIn(r.linear, d))
  BY <1>5, <1>6, ResolvedIs
<1>9. Report("resolve", r.failed \/ Wrong("resolve") \/ r.clash)
  BY <1>7 DEF Report
<1> QED
  BY <1>2, <1>3, <1>5, <1>7, <1>8, <1>9

LEMMA LinearNext == ASSUME Loaded, OrderOK, PlaceOK, LinearOK, [Next]_vars PROVE LinearOK'
<1>1. ASSUME UNCHANGED <<sources, scopes, linear>>, pass' < 5 => pass < 5,
             stage' = "rejected" /\ pass' = 5 =>
                 stage = "rejected" /\ pass = 5 /\ UNCHANGED <<order, pos>>
      PROVE  LinearOK'
  <2>1. PICK lin : lin = linear
    OBVIOUS
  <2>2. linear' = lin
    BY <1>1, <2>1
  <2>3. LinesOK(lin)'
    BY <1>1, <2>1, LinesStayOK DEF LinearOK
  <2>4. ASSUME stage' = "rejected", pass' = 5
        PROVE  (Wrong("resolve"))' \/ \E d \in ContractsOf(Unit)' \ DOMAIN lin : NoLine(lin, d)'
    <3>1. stage = "rejected" /\ pass = 5 /\ UNCHANGED <<order, pos>>
      BY <1>1, <2>4
    <3>2. Wrong("resolve") \/ \E d \in ContractsOf(Unit) \ DOMAIN lin : NoLine(lin, d)
      BY <2>1, <3>1 DEF LinearOK
    <3>3. Wrong("resolve")' = Wrong("resolve") /\ ContractsOf(Unit)' = ContractsOf(Unit)
      BY <1>1, <3>1 DEF Wrong, Unit, ContractsOf, NodesOf
    <3> QED
      BY <1>1, <3>2, <3>3, LinesStayOK
  <2>5. pass' < 5 => lin = <<>>
    BY <1>1, <2>1 DEF LinearOK
  <2> QED
    BY <2>2, <2>3, <2>4, <2>5 DEF LinearOK
<1>2. ASSUME linear = <<>>, linear' = linear, ~(stage' = "rejected" /\ pass' = 5) PROVE LinearOK'
  BY <1>2 DEF LinearOK, LinesOK
<1>3. CASE ReadMain
  BY <1>2, <1>3 DEF ReadMain, PlaceOK, LinearOK
<1>4. CASE Parse
  BY <1>2, <1>4 DEF Parse, PlaceOK, LinearOK
<1>5. CASE ParsingDone
  BY <1>2, <1>5 DEF ParsingDone, PlaceOK, LinearOK
<1>6. CASE ResolveImports
  BY <1>2, <1>6 DEF ResolveImports, PlaceOK, LinearOK
<1>7. ASSUME NEW p \in Checks, Check(p) PROVE LinearOK'
  <2>1. Running(p) /\ (Forward \/ GiveUp) /\ p # "resolve" /\ UNCHANGED <<sources, scopes, linear>>
    BY <1>7 DEF Check, Checks
  <2>2. pass \in 1..13 /\ pass # 5
    BY <2>1, RunningIs
  <2>3. pass' \in {pass, pass + 1} /\ (stage' = "rejected" => pass' = pass)
    BY <2>1, RunningIs DEF Forward, GiveUp
  <2> QED
    BY <1>1, <2>1, <2>2, <2>3
<1>8. CASE RegisterDeclarations
  <2>1. pass = 3 /\ stage = "analysing" /\ linear' = linear /\ Forward
    BY <1>8, RunningIs DEF RegisterDeclarations
  <2> QED
    BY <1>2, <2>1 DEF LinearOK, Forward
<1>9. CASE PerformImports
  <2>1. pass = 4 /\ stage = "analysing" /\ linear' = linear /\ (Forward \/ GiveUp)
    BY <1>9, RunningIs DEF PerformImports
  <2> QED
    BY <1>2, <2>1 DEF LinearOK, Forward, GiveUp
<1>10. CASE ResolveNames
  <2>1. LinesOK(linear)
    BY DEF LinearOK
  <2>2. PICK r : /\ linear' = r.linear /\ LinesOK(r.linear)
                 /\ r.failed => \E d \in ContractsOf(Unit) \ DOMAIN r.linear : NoLine(r.linear, d)
                 /\ IF r.failed \/ Wrong("resolve") THEN GiveUp ELSE Forward
    BY <1>10, <2>1, ResolveNamesIs DEF Loaded
  <2>3. pass = 5 /\ stage = "analysing" /\ UNCHANGED <<sources, scopes, order>>
    BY <1>10, <2>1, ResolveNamesIs DEF Loaded, ResolveNames
  <2>4. PICK lin : lin = r.linear
    OBVIOUS
  <2>5. LinesOK(lin)' /\ \A d : NoLine(lin, d) => NoLine(lin, d)'
    BY <2>2, <2>3, <2>4, LinesStayOK
  <2>6. ~(pass' < 5)
    BY <2>2, <2>3 DEF Forward, GiveUp
  <2>7. CASE r.failed \/ Wrong("resolve")
    <3>1. stage' = "rejected" /\ UNCHANGED <<pass, pos>>
      BY <2>2, <2>7 DEF GiveUp
    <3>2. Wrong("resolve")' = Wrong("resolve") /\ ContractsOf(Unit)' = ContractsOf(Unit)
      BY <2>3, <3>1 DEF Wrong, Unit, ContractsOf, NodesOf
    <3>3. Wrong("resolve")' \/ \E d \in ContractsOf(Unit)' \ DOMAIN lin : NoLine(lin, d)'
      BY <2>2, <2>4, <2>5, <2>7, <3>2
    <3> QED
      BY <2>2, <2>4, <2>5, <2>6, <3>3 DEF LinearOK
  <2>8. CASE ~(r.failed \/ Wrong("resolve"))
    <3>1. stage' = "analysing"
      BY <2>2, <2>3, <2>8 DEF Forward
    <3> QED
      BY <2>2, <2>4, <2>5, <2>6, <3>1 DEF LinearOK
  <2> QED
    BY <2>7, <2>8
<1>11. CASE CheckMutability
  <2>1. pass = 12 /\ pass' = pass + 1 /\ UNCHANGED <<sources, scopes, linear>>
    BY <1>11, RunningIs DEF CheckMutability
  <2> QED
    BY <1>1, <2>1
<1>12. CASE Leave
  <2>1. pass # 5 /\ UNCHANGED <<sources, scopes, linear, pass>>
    <3>1. Len(Passes) = 13 /\ Passes[5] \notin Gated
      BY DEF Passes, Gated
    <3> QED
      BY <1>12, <3>1 DEF Leave
  <2> QED
    BY <1>1, <2>1
<1>13. CASE RunEngine
  BY <1>1, <1>13 DEF RunEngine
<1>14. CASE UNCHANGED vars
  BY <1>1, <1>14 DEF vars
<1> QED
  BY <1>3, <1>4, <1>5, <1>6, <1>7, <1>8, <1>9, <1>10, <1>11, <1>12, <1>13, <1>14 DEF Next, Over

(* cThreeMerge: for all families of contracts in any files, a linearization *)
(* has every base once and keeps the order of the bases as named and the    *)
(* linearization of each of them; and a contract is only refused when one   *)
(* of its bases is not there or no order would do.                          *)
THEOREM LinearizationIsRight == Spec => []LinearRight
<1> DEFINE I == Loaded /\ OrderOK /\ PlaceOK /\ LinearOK
<1>1. Init => I
  <2> SUFFICES ASSUME Init PROVE I
    OBVIOUS
  <2>1. Len(Passes) = 13 /\ Len(<<>>) = 0
    BY DEF Passes
  <2>2. PlaceOK
    BY <2>1 DEF Init, PlaceOK
  <2>3. LinearOK
    BY DEF Init, LinearOK, LinesOK
  <2> QED
    BY <2>2, <2>3, LoadedInit
<1>2. I /\ [Next]_vars => I'
  BY LoadedNext, OrderNext, PlaceNext, LinearNext
<1>3. I => LinearRight
  <2> SUFFICES ASSUME I PROVE LinearRight
    OBVIOUS
  <2>1. FilesOK /\ LinesOK(linear)
    BY DEF Loaded, LinearOK
  <2>2. ASSUME stage = "rejected", pass = 5, ~Wrong("resolve")
        PROVE  \E d \in ContractsOf(Unit) \ DOMAIN linear :
                  \/ \E i \in DOMAIN NodeOf(d).bases : Named(d.unit, NodeOf(d).bases[i]) \cap DOMAIN linear = {}
                  \/ ~Acyclic(Demanded(d))
    <3>1. PICK d \in ContractsOf(Unit) \ DOMAIN linear : NoLine(linear, d)
      BY <2>2 DEF LinearOK
    <3>2. d \in Contracts
      <4>1. order \in Seq(Units) /\ pos \in 1..Len(order)
        BY <2>2 DEF OrderOK, PlaceOK
      <4>2. Unit \in Units
        BY <4>1, ElementOfSeq DEF Unit
      <4> QED
        BY <3>1, <4>2 DEF Contracts
    <3> QED
      BY <2>1, <3>1, <3>2, RefusedCyclic
  <2> QED
    BY <2>1, <2>2, LinesRight DEF LinearRight
<1> QED
  BY <1>1, <1>2, <1>3, PTL DEF Spec

-----------------------------------------------------------------------------
(* What each pass has been at.                                             *)

\* Nothing is wrong with u that pass p looks for.
Cleared(p, u) ==
    /\ p \notin sources[u].file.flaws \cup sources[u].file.fatal
    /\ p = "register" => ~DeclaredTwice(NodesOf(u))
    /\ p = "resolve" => /\ ContractsOf(u) \subseteq DOMAIN linear
                        /\ \A d \in ContractsOf(u) : ~MemberClash(Chain(d))
    /\ p = "contracts" => \A d \in ContractsOf(u) : ~ContractWrong(Chain(d))

ExaminedOK ==
    /\ Accepted => pass = 14
    /\ Analysing /\ errors = {} =>
           \A k \in 1..13 : \A i \in 1..Len(order) :
               k < pass \/ (k = pass /\ i < pos) => Cleared(Passes[k], order[i])

\* Passes that no file is marked with.
LEMMA Unmarked ==
    ASSUME FilesOK, NEW u \in Units, NEW p \in {"register", "import", "mutability", "smt"}
    PROVE  p \notin sources[u].file.flaws \cup sources[u].file.fatal
<1>1. sources[u].file.flaws \subseteq Complaining /\ sources[u].file.fatal \subseteq Complaining \ {"parse"}
  BY NodesAre
<1> QED
  BY <1>1 DEF Complaining

\* What was found does not change as long as the linearizations stay.
LEMMA ClearedStays ==
    ASSUME sources' = sources, Grown(linear, linear'), NEW p, NEW u, Cleared(p, u),
           p = "contracts" => linear' = linear
    PROVE  Cleared(p, u)'
<1>1. NodesOf(u)' = NodesOf(u) /\ ContractsOf(u)' = ContractsOf(u)
  BY DEF NodesOf, ContractsOf
<1>2. \A d : MembersOf(d)' = MembersOf(d)
  BY DEF MembersOf, NodeOf, NodesOf
<1>3. \A d \in DOMAIN linear : Chain(d)' = Chain(d)
  BY <1>2 DEF Chain, Grown
<1>4. linear' = linear => \A d : Chain(d)' = Chain(d)
  BY <1>2 DEF Chain
<1>5. ContractsOf(u) \subseteq DOMAIN linear => ContractsOf(u) \subseteq DOMAIN linear'
  BY DEF Grown
<1>6. p = "resolve" => /\ ContractsOf(u)' \subseteq DOMAIN linear'
                       /\ \A d \in ContractsOf(u)' : ~MemberClash(Chain(d)')
  BY <1>1, <1>3, <1>5 DEF Cleared
<1>7. p = "contracts" => \A d \in ContractsOf(u)' : ~ContractWrong(Chain(d)')
  BY <1>1, <1>4 DEF Cleared
<1> QED
  BY <1>1, <1>6, <1>7 DEF Cleared

\* A pass goes on from a unit it found nothing wrong with.
LEMMA Advance ==
    ASSUME Loaded, OrderOK, PlaceOK, ExaminedOK, NEW p, Running(p), Forward,
           UNCHANGED <<sources, order>>, Grown(linear, linear'), pass > 5 => linear' = linear,
           NEW unit, unit = Unit, errors' = {} => errors = {} /\ Cleared(p, unit)'
    PROVE  ExaminedOK'
<1>1. stage = "analysing" /\ pass \in 1..13 /\ Passes[pass] = p /\ pos \in 1..Len(order)
  BY RunningIs
<1>2. PICK n : n = Len(order)
  OBVIOUS
<1>3. n \in Nat /\ pos \in 1..n /\ stage' = "analysing"
      /\ \/ pos < n /\ pos' = pos + 1 /\ pass' = pass
         \/ pos = n /\ pos' = 1 /\ pass' = pass + 1
  BY <1>1, <1>2, OrderLength DEF Forward, Analysing
<1>4. SUFFICES ASSUME errors' = {}, NEW k \in 1..13, NEW i \in 1..n, k < pass' \/ (k = pass' /\ i < pos')
               PROVE  Cleared(Passes[k], order[i])'
  BY <1>2, <1>3 DEF ExaminedOK, Accepted
<1>5. k < pass \/ (k = pass /\ i <= pos)
  BY <1>1, <1>3, <1>4
<1>6. PICK q, u : q = Passes[k] /\ u = order[i]
  OBVIOUS
<1>7. order'[i] = u
  BY <1>6
<1>8. CASE k = pass /\ i = pos
  <2>1. q = p /\ u = unit
    BY <1>1, <1>6, <1>8 DEF Unit
  <2>3. Cleared(q, u)'
    BY <1>4, <2>1
  <2> QED
    BY <1>6, <1>7, <2>3
<1>9. CASE k < pass \/ (k = pass /\ i < pos)
  <2>1. Cleared(q, u)
    BY <1>1, <1>2, <1>4, <1>6, <1>9 DEF ExaminedOK, Analysing
  <2>2. q = "contracts" => k = 6
    BY <1>6 DEF Passes
  <2>3. q = "contracts" => linear' = linear
    BY <1>1, <1>9, <2>2
  <2>4. Cleared(q, u)'
    BY <2>1, <2>3, ClearedStays
  <2> QED
    BY <1>6, <1>7, <2>4
<1> QED
  BY <1>1, <1>3, <1>5, <1>8, <1>9

LEMMA ReportIs ==
    ASSUME NEW p, NEW wrong, Report(p, wrong)
    PROVE  errors' = {} => errors = {} /\ ~wrong
BY DEF Report

LEMMA GrownSame == ASSUME linear' = linear PROVE Grown(linear, linear')
BY DEF Grown

LEMMA ExaminedNext ==
    ASSUME Loaded, OrderOK, PlaceOK, LinearOK, ExaminedOK, [Next]_vars
    PROVE  ExaminedOK'
<1>1. ASSUME stage' \notin {"analysing", "analysed", "running"} PROVE ExaminedOK'
  BY <1>1 DEF ExaminedOK, Accepted, Analysing
<1>2. ASSUME UNCHANGED <<sources, order, pass, pos, linear>>, errors' = errors, Analysing' => Analysing,
             Accepted' => Accepted \/ pass = 14
      PROVE  ExaminedOK'
  <2>1. Accepted' => pass' = 14
    BY <1>2 DEF ExaminedOK
  <2>2. ASSUME Analysing', errors' = {}, NEW k \in 1..13, NEW i \in 1..Len(order), k < pass \/ (k = pass /\ i < pos)
        PROVE  Cleared(Passes[k], order[i])'
    <3>1. PICK q, u : q = Passes[k] /\ u = order[i]
      OBVIOUS
    <3>2. Cleared(q, u)
      BY <1>2, <2>2, <3>1 DEF ExaminedOK
    <3>3. Cleared(q, u)'
      BY <1>2, <3>2, ClearedStays, GrownSame
    <3>4. order'[i] = u
      BY <1>2, <3>1
    <3> QED
      BY <3>1, <3>3, <3>4
  <2> QED
    BY <1>2, <2>1, <2>2 DEF ExaminedOK
<1>3. ASSUME NEW p, Running(p) PROVE /\ pass \in 1..13 /\ pos \in 1..Len(order) /\ Unit \in Units
                                     /\ stage = "analysing"
  BY <1>3, RunningIs, ElementOfSeq DEF OrderOK, Unit
<1>4. CASE ReadMain
  BY <1>1, <1>4 DEF ReadMain
<1>5. CASE Parse
  BY <1>1, <1>5 DEF Parse
<1>6. CASE ParsingDone
  BY <1>1, <1>6 DEF ParsingDone
<1>7. CASE ResolveImports
  <2>1. pass' = 1 /\ pos' = 1 /\ stage' = "analysing"
    BY <1>7 DEF ResolveImports, PlaceOK
  <2>2. \A k \in 1..13 : \A i \in 1..Len(order') : ~(k < pass') /\ ~(k = pass' /\ i < pos')
    BY <2>1
  <2> QED
    BY <2>1, <2>2 DEF ExaminedOK, Accepted
<1>8. ASSUME NEW p \in Checks, Check(p) PROVE ExaminedOK'
  <2>1. CASE GiveUp
    BY <1>1, <2>1 DEF GiveUp
  <2>2. CASE Forward
    <3>1. PICK unit, wrong : /\ unit = Unit
                             /\ wrong = (Wrong(p) \/ (p = "contracts" /\ \E d \in ContractsOf(unit) : ContractWrong(Chain(d))))
                             /\ Report(p, wrong)
      BY <1>8 DEF Check
    <3>2. Running(p) /\ UNCHANGED <<sources, order, linear>> /\ p # "register" /\ p # "resolve"
      BY <1>8 DEF Check, Checks
    <3>3. unit \in Units
      BY <1>3, <3>1, <3>2
    <3>4. ASSUME errors' = {} PROVE errors = {} /\ Cleared(p, unit)'
      <4>1. errors = {} /\ ~wrong
        BY <3>1, <3>4, ReportIs
      <4>2. p \notin sources[unit].file.flaws \cup sources[unit].file.fatal
        BY <3>1, <3>3, <4>1, Unmarked DEF Wrong, Loaded
      <4>3. p = "contracts" => \A d \in ContractsOf(unit) : ~ContractWrong(Chain(d))
        BY <3>1, <4>1
      <4>4. Cleared(p, unit)
        BY <3>2, <4>2, <4>3 DEF Cleared
      <4> QED
        BY <3>2, <4>1, <4>4, ClearedStays, GrownSame
    <3> QED
      BY <2>2, <3>1, <3>2, <3>4, Advance, GrownSame
  <2> QED
    BY <1>8, <2>1, <2>2 DEF Check
<1>9. CASE RegisterDeclarations
  <2>1. PICK unit : unit = Unit
    OBVIOUS
  <2>2. /\ Running("register") /\ Forward /\ UNCHANGED <<sources, order, linear>>
        /\ Report("register", DeclaredTwice(NodesOf(unit)))
    BY <1>9, <2>1 DEF RegisterDeclarations
  <2>3. unit \in Units
    BY <1>3, <2>1, <2>2
  <2>4. ASSUME errors' = {} PROVE errors = {} /\ Cleared("register", unit)'
    <3>1. errors = {} /\ ~DeclaredTwice(NodesOf(unit))
      BY <2>2, <2>4, ReportIs
    <3>2. Cleared("register", unit)
      BY <2>3, <3>1, Unmarked DEF Cleared, Loaded
    <3> QED
      BY <2>2, <3>1, <3>2, ClearedStays, GrownSame
  <2> QED
    BY <2>1, <2>2, <2>4, Advance, GrownSame
<1>10. CASE PerformImports
  <2>1. CASE GiveUp
    BY <1>1, <2>1 DEF GiveUp
  <2>2. CASE Forward
    <3>1. PICK unit, wrong : unit = Unit /\ Report("import", wrong)
      BY <1>10 DEF PerformImports
    <3>2. Running("import") /\ UNCHANGED <<sources, order, linear>>
      BY <1>10 DEF PerformImports
    <3>3. unit \in Units
      BY <1>3, <3>1, <3>2
    <3>4. Cleared("import", unit)
      BY <3>3, Unmarked DEF Cleared, Loaded
    <3>5. errors' = {} => errors = {} /\ Cleared("import", unit)'
      BY <3>1, <3>2, <3>4, ReportIs, ClearedStays, GrownSame
    <3> QED
      BY <2>2, <3>1, <3>2, <3>5, Advance, GrownSame
  <2> QED
    BY <1>10, <2>1, <2>2 DEF PerformImports
<1>11. CASE ResolveNames
  <2>1. PICK unit : unit = Unit
    OBVIOUS
  <2>2. PICK r : /\ linear' = r.linear /\ Grown(linear, r.linear)
                 /\ ~r.failed => /\ ContractsOf(unit) \subseteq DOMAIN r.linear
                                 /\ ~r.clash => \A d \in ContractsOf(unit) : ~MemberClash(ChainIn(r.linear, d))
                 /\ Report("resolve", r.failed \/ Wrong("resolve") \/ r.clash)
                 /\ IF r.failed \/ Wrong("resolve") THEN GiveUp ELSE Forward
    BY <1>11, <2>1, ResolveNamesIs DEF Loaded, LinearOK
  <2>3. Running("resolve") /\ pass = 5 /\ UNCHANGED <<sources, order>> /\ unit \in Units
    BY <1>11, <2>1, ResolveNamesIs DEF Loaded, LinearOK, ResolveNames
  <2>4. CASE r.failed \/ Wrong("resolve")
    BY <1>1, <2>2, <2>4 DEF GiveUp
  <2>5. CASE ~(r.failed \/ Wrong("resolve"))
    <3>1. Forward /\ Grown(linear, linear')
      BY <2>2, <2>5
    <3>2. ASSUME errors' = {} PROVE errors = {} /\ Cleared("resolve", unit)'
      <4>1. errors = {} /\ ~r.clash
        BY <2>2, <3>2, ReportIs
      <4>2. "resolve" \notin sources[unit].file.flaws \cup sources[unit].file.fatal
        BY <2>1, <2>5 DEF Wrong
      <4>3. ContractsOf(unit)' = ContractsOf(unit) /\ NodesOf(unit)' = NodesOf(unit)
        BY <2>3 DEF ContractsOf, NodesOf
      <4>4. \A d : Chain(d)' = ChainIn(r.linear, d)
        BY <2>2, <2>3 DEF Chain, ChainIn, MembersOf, NodeOf, NodesOf
      <4>5. /\ ContractsOf(unit)' \subseteq DOMAIN linear'
            /\ \A d \in ContractsOf(unit)' : ~MemberClash(Chain(d)')
        BY <2>2, <2>5, <4>1, <4>3, <4>4
      <4> QED
        BY <2>3, <4>1, <4>2, <4>5 DEF Cleared
    <3> QED
      BY <2>1, <2>3, <3>1, <3>2, Advance
  <2> QED
    BY <2>4, <2>5
<1>12. CASE CheckMutability
  <2>1. /\ Running("mutability") /\ pass = 12 /\ pass' = 13 /\ pos' = pos /\ pos = 1 /\ stage' = stage
        /\ UNCHANGED <<sources, order, linear>> /\ (errors' = {} => errors = {})
    BY <1>12, RunningIs DEF CheckMutability, PlaceOK
  <2>2. ASSUME errors' = {}, NEW k \in 1..13, NEW i \in 1..Len(order), k < pass' \/ (k = pass' /\ i < pos')
        PROVE  Cleared(Passes[k], order[i])'
    <3>1. PICK q, u : q = Passes[k] /\ u = order[i]
      OBVIOUS
    <3>2. k < 12 \/ k = 12
      BY <2>1, <2>2
    <3>3. u \in Units /\ order'[i] = u
      BY <2>1, <3>1, ElementOfSeq DEF OrderOK
    <3>4. Cleared(q, u)
      <4>1. k < 12 => Cleared(q, u)
        BY <2>1, <2>2, <3>1 DEF ExaminedOK, Analysing, Running
      <4>2. k = 12 => q = "mutability"
        BY <3>1 DEF Passes
      <4>3. q = "mutability" => Cleared(q, u)
        BY <3>3, Unmarked DEF Cleared, Loaded
      <4> QED
        BY <3>2, <4>1, <4>2, <4>3
    <3>5. Cleared(q, u)'
      BY <2>1, <3>4, ClearedStays, GrownSame
    <3> QED
      BY <3>1, <3>3, <3>5
  <2>3. stage' = "analysing"
    BY <2>1 DEF Running
  <2> QED
    BY <2>1, <2>2, <2>3 DEF ExaminedOK, Accepted
<1>13. CASE Leave
  <2>1. Len(Passes) = 13
    BY DEF Passes
  <2>2. CASE stage' = "rejected"
    BY <1>1, <2>2
  <2>3. CASE stage' # "rejected"
    <3>1. pass > 13 /\ stage' = "analysed" /\ stage = "analysing"
      BY <1>13, <2>1, <2>3 DEF Leave
    <3>2. pass = 14
      BY <2>1, <3>1 DEF PlaceOK
    <3> QED
      BY <1>2, <1>13, <3>1, <3>2 DEF Leave, Analysing
  <2> QED
    BY <2>2, <2>3
<1>14. CASE RunEngine
  BY <1>2, <1>14 DEF RunEngine, Analysing, Accepted
<1>15. CASE UNCHANGED vars
  BY <1>2, <1>15 DEF vars, Analysing, Accepted
<1> QED
  BY <1>4, <1>5, <1>6, <1>7, <1>8, <1>9, <1>10, <1>11, <1>12, <1>13, <1>14, <1>15 DEF Next, Over

\* The values of the other variables.
ValuesOK ==
    /\ stage \in {"start", "unreadable", "parsing", "parsed", "analysing", "analysed", "rejected", "running"}
    /\ DOMAIN scopes \subseteq Units /\ engine \in {<<>>, project.main}
    /\ \A e \in errors : e[1] \in ToSet(Passes) \cup {"parse"} /\ e[2] \in Units
    /\ stage = "start" => Units = {}

LEMMA ValuesNext ==
    ASSUME Loaded, OrderOK, PlaceOK, ValuesOK, [Next]_vars
    PROVE  ValuesOK'
<1>1. ASSUME NEW p, NEW wrong, Running(p), Report(p, wrong), UNCHANGED sources
      PROVE  (\A e \in errors : e[1] \in ToSet(Passes) \cup {"parse"} /\ e[2] \in Units)'
  <2>1. pass \in 1..13 /\ Passes[pass] = p /\ pos \in 1..Len(order)
    BY <1>1, RunningIs
  <2>2. p \in ToSet(Passes) /\ Unit \in Units
    <3>1. DOMAIN Passes = 1..13
      BY DEF Passes
    <3> QED
      BY <2>1, <3>1, ElementOfSeq DEF OrderOK, Unit, ToSet
  <2>3. \A e \in errors' : e \in errors \/ e = <<p, Unit>>
    BY <1>1 DEF Report
  <2>4. Units' = Units
    BY <1>1 DEF Units
  <2> QED
    BY <2>2, <2>3, <2>4 DEF ValuesOK
<1>2. ASSUME UNCHANGED <<sources, project, engine>>, DOMAIN scopes' \subseteq DOMAIN scopes \cup Units,
             stage' \in {stage, "rejected"},
             (\A e \in errors : e[1] \in ToSet(Passes) \cup {"parse"} /\ e[2] \in Units)'
      PROVE  ValuesOK'
  BY <1>2 DEF ValuesOK, Units
<1>3. ASSUME UNCHANGED <<sources, project, scopes, errors>>, engine' \in {engine, project.main},
             stage' \in {stage, "parsed", "rejected", "analysing", "analysed", "running"}
      PROVE  ValuesOK'
  BY <1>3 DEF ValuesOK, Units
<1>4. CASE ReadMain
  <2>1. /\ Units \subseteq Units' /\ stage' \in {"parsing", "unreadable"}
        /\ UNCHANGED <<project, scopes, errors, engine>>
    <3>1. /\ stage = "start" /\ stage' \in {"parsing", "unreadable"}
          /\ UNCHANGED <<project, scopes, errors, engine>>
      BY <1>4 DEF ReadMain
    <3> QED
      BY <3>1 DEF ValuesOK
  <2> QED
    BY <2>1 DEF ValuesOK
<1>5. CASE Parse
  <2>1. PICK u : u = Head(toParse)
    OBVIOUS
  <2>2. u \in Units
    BY <1>5, <2>1, HeadTail DEF Loaded, FilesOK, Parse
  <2>3. Units \subseteq Units'
    BY <1>5 DEF Parse, Units
  <2>4. /\ \A e \in errors' : e \in errors \/ e = <<"parse", u>>
        /\ stage = "parsing" /\ UNCHANGED <<project, stage, scopes, engine>>
    BY <1>5, <2>1 DEF Parse
  <2> QED
    BY <2>2, <2>3, <2>4 DEF ValuesOK
<1>6. CASE ParsingDone
  BY <1>3, <1>6 DEF ParsingDone
<1>7. CASE ResolveImports
  BY <1>3, <1>7 DEF ResolveImports
<1>8. ASSUME NEW p \in Checks, Check(p) PROVE ValuesOK'
  <2>1. PICK wrong : Report(p, wrong)
    BY <1>8 DEF Check
  <2>2. Running(p) /\ (Forward \/ GiveUp) /\ UNCHANGED <<project, sources, scopes, engine>>
    BY <1>8 DEF Check
  <2> QED
    BY <1>1, <1>2, <2>1, <2>2 DEF Forward, GiveUp
<1>9. CASE RegisterDeclarations
  <2>1. /\ Running("register") /\ Forward /\ Report("register", DeclaredTwice(NodesOf(Unit)))
        /\ UNCHANGED <<project, sources, engine>> /\ scopes' = With(scopes, Unit, Declared(Unit, NodesOf(Unit)))
    BY <1>9 DEF RegisterDeclarations
  <2>2. Unit \in Units
    BY <2>1, RunningIs, ElementOfSeq DEF OrderOK, Unit
  <2>3. DOMAIN scopes' \subseteq DOMAIN scopes \cup Units
    BY <2>1, <2>2 DEF With
  <2> QED
    BY <1>1, <1>2, <2>1, <2>3 DEF Forward
<1>10. CASE PerformImports
  <2>1. PICK wrong : Report("import", wrong)
    BY <1>10 DEF PerformImports
  <2>2. /\ Running("import") /\ (Forward \/ GiveUp) /\ UNCHANGED <<project, sources, engine>>
        /\ DOMAIN scopes' = DOMAIN scopes
    BY <1>10 DEF PerformImports
  <2> QED
    BY <1>1, <1>2, <2>1, <2>2 DEF Forward, GiveUp
<1>11. CASE ResolveNames
  <2>1. PICK wrong : Report("resolve", wrong)
    BY <1>11 DEF ResolveNames
  <2>2. Running("resolve") /\ (Forward \/ GiveUp) /\ UNCHANGED <<project, sources, scopes, engine>>
    BY <1>11 DEF ResolveNames
  <2> QED
    BY <1>1, <1>2, <2>1, <2>2 DEF Forward, GiveUp
<1>12. CASE CheckMutability
  <2>1. /\ \A e \in errors' : e \in errors \/ \E u \in Units : e = <<"mutability", u>>
        /\ UNCHANGED <<project, sources, scopes, engine, stage>>
    BY <1>12 DEF CheckMutability
  <2>2. "mutability" \in ToSet(Passes)
    <3>1. DOMAIN Passes = 1..13 /\ Passes[12] = "mutability"
      BY DEF Passes
    <3> QED
      BY <3>1 DEF ToSet
  <2>3. Units' = Units
    BY <2>1 DEF Units
  <2> QED
    BY <2>1, <2>2, <2>3 DEF ValuesOK
<1>13. CASE Leave
  BY <1>3, <1>13 DEF Leave
<1>14. CASE RunEngine
  BY <1>3, <1>14 DEF RunEngine
<1>15. CASE UNCHANGED vars
  BY <1>3, <1>15 DEF vars
<1> QED
  BY <1>4, <1>5, <1>6, <1>7, <1>8, <1>9, <1>10, <1>11, <1>12, <1>13, <1>14, <1>15 DEF Next, Over

StackOK == Loaded /\ OrderOK /\ PlaceOK /\ LinearOK /\ ExaminedOK /\ ValuesOK

LEMMA StackInit == Init => StackOK
<1> SUFFICES ASSUME Init PROVE StackOK
  OBVIOUS
<1>1. Len(Passes) = 13 /\ Len(<<>>) = 0
  BY DEF Passes
<1>2. PlaceOK
  BY <1>1 DEF Init, PlaceOK
<1>3. LinearOK
  BY DEF Init, LinearOK, LinesOK
<1>4. ExaminedOK
  BY DEF Init, ExaminedOK, Accepted, Analysing
<1>5. Units = {}
  BY DEF Init, Units
<1>6. ValuesOK
  BY <1>5 DEF Init, ValuesOK
<1> QED
  BY <1>2, <1>3, <1>4, <1>6, LoadedInit DEF StackOK

LEMMA StackNext == StackOK /\ [Next]_vars => StackOK'
BY LoadedNext, OrderNext, PlaceNext, LinearNext, ExaminedNext, ValuesNext DEF StackOK

LEMMA AllCleared == ASSUME StackOK, NoErrorLeft PROVE NothingEscapes
<1> SUFFICES ASSUME Accepted, NEW u \in Units
             PROVE  /\ sources[u].parsed /\ sources[u].file.flaws = {} /\ sources[u].file.fatal = {}
                    /\ ~DeclaredTwice(NodesOf(u))
                    /\ ContractsOf(u) \subseteq DOMAIN linear
                    /\ \A d \in ContractsOf(u) : ~MemberClash(Chain(d)) /\ ~ContractWrong(Chain(d))
  BY DEF NothingEscapes
<1>1. Analysing /\ pass = 14 /\ errors = {}
  BY DEF Accepted, Analysing, StackOK, ExaminedOK, NoErrorLeft
<1>2. PICK i \in 1..Len(order) : order[i] = u
  <2>1. u \in ToSet(order) /\ order \in Seq(Units)
    BY <1>1 DEF StackOK, OrderOK
  <2> QED
    BY <2>1, SeqRange
<1>3. \A k \in 1..13 : Cleared(Passes[k], u)
  BY <1>1, <1>2 DEF StackOK, ExaminedOK
<1>4. \A p \in {"syntax", "docs", "register", "import", "resolve", "contracts", "types", "post", "cfg", "flow", "static"} :
          Cleared(p, u)
  <2>1. /\ Passes[1] = "syntax" /\ Passes[2] = "docs" /\ Passes[3] = "register" /\ Passes[4] = "import"
        /\ Passes[5] = "resolve" /\ Passes[6] = "contracts" /\ Passes[7] = "types" /\ Passes[8] = "post"
        /\ Passes[9] = "cfg" /\ Passes[10] = "flow" /\ Passes[11] = "static"
    BY DEF Passes
  <2> QED
    BY <1>3, <2>1
<1>5. sources[u].parsed /\ "parse" \notin sources[u].file.flaws
  BY <1>1 DEF StackOK, Loaded, WholeOK, Whole, Analysing
<1>6. sources[u].file.flaws \subseteq Complaining /\ sources[u].file.fatal \subseteq Complaining \ {"parse"}
  BY NodesAre DEF StackOK, Loaded
<1>7. \A p \in Complaining \ {"parse"} : p \notin sources[u].file.flaws \cup sources[u].file.fatal
  BY <1>4 DEF Cleared, Complaining
<1>8. sources[u].file.flaws = {} /\ sources[u].file.fatal = {}
  BY <1>5, <1>6, <1>7
<1> QED
  BY <1>4, <1>5, <1>8 DEF Cleared

(* The state of the stack is what the code takes it to be: a linearization *)
(* is never empty and names contracts that have one themselves, a pass is  *)
(* at a unit that is there, and an error names a unit that was loaded.     *)
THEOREM TypeCorrect == Spec => []TypeOK
<1>1. StackOK => TypeOK
  <2> SUFFICES ASSUME StackOK PROVE TypeOK
    OBVIOUS
  <2>1. ToSet(toParse) \subseteq Units /\ ToSet(order) \subseteq Units
    BY SeqRange DEF StackOK, Loaded, FilesOK, OrderOK
  <2>2. ASSUME NEW d \in DOMAIN linear PROVE linear[d] # <<>> /\ ToSet(linear[d]) \subseteq DOMAIN linear
    <3>1. PICK l : l = linear[d] /\ l # <<>> /\ l \in Seq(DOMAIN linear)
      BY DEF StackOK, LinearOK, LinesOK, LineOK
    <3> QED
      BY <3>1, SeqRange
  <2> QED
    BY <2>1, <2>2 DEF StackOK, ValuesOK, PlaceOK, TypeOK
<1> QED
  BY <1>1, StackInit, StackNext, PTL DEF Spec

(* CompilerStack: nothing that a pass looks for is left in any unit when   *)
(* the engine is run, for all projects: noErrors and the places where it   *)
(* is asked let no flaw of an imported file through, although register and *)
(* resolve go on after an error.                                           *)
THEOREM NothingIsMissed == Spec => []NothingEscapes
<1>1. Spec => []StackOK
  BY StackInit, StackNext, PTL DEF Spec
<1> QED
  BY <1>1, AcceptedIsClean, AllCleared, PTL

-----------------------------------------------------------------------------
(* absolutePath and canonical.                                             *)

Dots == {".", ".."}

\* One component more, where nothing but plain components is there yet.
LEMMA NormalClimb ==
    ASSUME NEW P, P \cap Dots = {}, NEW r \in Seq(P), NEW x \in P \cup Dots, x = ".." => r # <<>>
    PROVE  /\ Normal(r, x) = Climb(r, x) /\ Climb(r, x) \in Seq(P)
           /\ Len(Climb(r, x)) = IF x = ".." THEN Len(r) - 1 ELSE IF x = "." THEN Len(r) ELSE Len(r) + 1
<1>1. CASE x = ".."
  <2>1. Len(r) \in Nat \ {0} /\ \A i \in 1..Len(r) : r[i] \in P
    BY <1>1, LenProperties, EmptySeq, ElementOfSeq
  <2>2. Last(r) # ".."
    BY <2>1 DEF Last, Dots
  <2>3. Front(r) \in Seq(P) /\ Len(Front(r)) = Len(r) - 1
    <3> DEFINE n == Len(r)
    <3>1. n \in Nat \ {0} /\ \A i \in 1..(n - 1) : r[i] \in P
      BY <2>1
    <3> HIDE DEF n
    <3>2. /\ SubSeq(r, 1, n - 1) \in Seq(P)
          /\ Len(SubSeq(r, 1, n - 1)) = IF 1 <= n - 1 THEN (n - 1) - 1 + 1 ELSE 0
      BY <3>1, SubSeqProperties
    <3>3. Len(SubSeq(r, 1, n - 1)) = n - 1
      BY <3>1, <3>2
    <3> QED
      BY <3>2, <3>3 DEF Front, n
  <2>4. Climb(r, x) = Front(r) /\ Normal(r, x) = Front(r)
    BY <1>1, <2>2 DEF Climb, Normal
  <2> QED
    BY <1>1, <2>3, <2>4
<1>2. CASE x = "."
  BY <1>2 DEF Climb, Normal
<1>3. CASE x \notin Dots
  <2>1. Climb(r, x) = Append(r, x) /\ Normal(r, x) = Append(r, x) /\ x # ".." /\ x # "."
    BY <1>3 DEF Climb, Normal, Dots
  <2>2. x \in P
    BY <1>3
  <2> QED
    BY <2>1, <2>2, AppendProperties
<1> QED
  BY <1>1, <1>2, <1>3 DEF Dots

\* Plain components are kept.
LEMMA PlainKept ==
    ASSUME NEW P, P \cap Dots = {}, NEW path, NEW n \in Nat, NEW m \in 0..n, \A i \in 1..m : path[i] \in P,
           NEW it, Loop(it, "canonical", {}, <<>>, path, n)
    PROVE  it[1..m] \in Seq(P) /\ Len(it[1..m]) = m /\ \A i \in 1..m : it[1..m][i] = path[i]
<1> DEFINE Q(k) == it[1..k] \in Seq(P) /\ Len(it[1..k]) = k /\ \A i \in 1..k : it[1..k][i] = path[i]
           S == {k \in Nat : k <= m => Q(k)}
<1>1. 0 \in S
  <2>1. it[1..0] = <<>>
    BY DEF Loop
  <2>2. <<>> \in Seq(P) /\ Len(<<>>) = 0 /\ \A i \in 1..0 : FALSE
    OBVIOUS
  <2>3. Q(0)
    BY <2>1, <2>2
  <2> QED
    BY <2>3
<1>2. ASSUME NEW k \in Nat, k \in S PROVE k + 1 \in S
  <2> SUFFICES ASSUME k + 1 <= m PROVE Q(k + 1)
    OBVIOUS
  <2>0. PICK cur, next : cur = it[1..k] /\ next = it[1..(k + 1)]
    OBVIOUS
  <2>1. cur \in Seq(P) /\ Len(cur) = k /\ \A i \in 1..k : cur[i] = path[i]
    BY <1>2, <2>0
  <2>2. k \in 0..(n - 1) /\ path[k + 1] \in P
    OBVIOUS
  <2>3. next = Normal(cur, path[k + 1])
    BY <2>0, <2>2 DEF Loop, OneMore
  <2>4. next = Append(cur, path[k + 1])
    BY <2>2, <2>3 DEF Normal, Dots
  <2>5. /\ next \in Seq(P) /\ Len(next) = k + 1 /\ next[k + 1] = path[k + 1]
        /\ \A i \in 1..k : next[i] = cur[i]
    BY <2>1, <2>2, <2>4, AppendProperties
  <2>6. \A i \in 1..(k + 1) : i \in 1..k \/ i = k + 1
    OBVIOUS
  <2> QED
    BY <2>0, <2>1, <2>5, <2>6
<1> HIDE DEF S
<1>3. Nat \subseteq S
  BY <1>1, <1>2, NatSetInduction
<1>4. m \in S /\ m <= m
  BY <1>3
<1> QED
  BY <1>4 DEF S

LEMMA PlainIsCanonical ==
    ASSUME NEW P, P \cap Dots = {}, NEW path \in Seq(P)
    PROVE  Canonical(path) = path
<1> DEFINE n == Len(path)
<1>1. n \in Nat /\ n \in 0..n /\ DOMAIN path = 1..n /\ \A i \in 1..n : path[i] \in P
  BY LenProperties, ElementOfSeq
<1> HIDE DEF n
<1>2. PICK it : Loop(it, "canonical", {}, <<>>, path, n) /\ Canonical(path) = it[1..n]
  <2>1. n \in Nat /\ DOMAIN path = 1..n
    BY <1>1
  <2> QED
    BY <2>1, CanonicalLoop
<1>3. it[1..n] \in Seq(P) /\ Len(it[1..n]) = n /\ \A i \in 1..n : it[1..n][i] = path[i]
  <2>1. n \in Nat
    BY <1>1
  <2>2. n \in 0..n
    BY <1>1
  <2>3. \A i \in 1..n : path[i] \in P
    BY <1>1
  <2>4. Loop(it, "canonical", {}, <<>>, path, n)
    BY <1>2
  <2> QED
    BY <2>1, <2>2, <2>3, <2>4, PlainKept, SMTT(30)
<1> QED
  BY <1>2, <1>3, SeqEqual DEF n

\* As far as k components of an import there are so many steps up.
LEMMA ClimbsUpto ==
    ASSUME NEW path, NEW n \in Nat, DOMAIN path = 1..n
    PROVE  LET Ups(k) == {i \in 1..k : path[i] = ".."}
           IN  /\ Cardinality(Ups(0)) = 0
               /\ \A k \in 0..n : Cardinality(Ups(k)) \in Nat /\ Cardinality(Ups(k)) <= Climbs(path)
               /\ \A k \in 0..(n - 1) : Cardinality(Ups(k + 1)) =
                      IF path[k + 1] = ".." THEN Cardinality(Ups(k)) + 1 ELSE Cardinality(Ups(k))
               /\ Climbs(path) \in Nat
<1> DEFINE Ups(k) == {i \in 1..k : path[i] = ".."}
<1>1. ASSUME NEW k \in Nat PROVE IsFiniteSet(Ups(k)) /\ Cardinality(Ups(k)) \in Nat
  <2>1. IsFiniteSet(1..k) /\ Ups(k) \in SUBSET (1..k)
    BY FS_Interval
  <2> QED
    BY <2>1, FS_Subset, FS_CardinalityType
<1>2. Cardinality(Ups(0)) = 0
  <2>1. Ups(0) = {}
    OBVIOUS
  <2> QED
    BY <2>1, FS_EmptySet
<1>3. Climbs(path) = Cardinality(Ups(n))
  BY DEF Climbs
<1>4. ASSUME NEW k \in 0..n PROVE Cardinality(Ups(k)) <= Cardinality(Ups(n))
  <2>1. Ups(k) \in SUBSET Ups(n) /\ IsFiniteSet(Ups(n))
    BY <1>1
  <2> HIDE DEF Ups
  <2> QED
    BY <2>1, FS_Subset
<1>5. ASSUME NEW k \in 0..(n - 1)
      PROVE  Cardinality(Ups(k + 1)) = IF path[k + 1] = ".." THEN Cardinality(Ups(k)) + 1 ELSE Cardinality(Ups(k))
  <2>1. IsFiniteSet(Ups(k)) /\ k + 1 \notin Ups(k)
    BY <1>1
  <2>2. path[k + 1] = ".." => Ups(k + 1) = Ups(k) \cup {k + 1}
    OBVIOUS
  <2>3. path[k + 1] # ".." => Ups(k + 1) = Ups(k)
    OBVIOUS
  <2> HIDE DEF Ups
  <2> QED
    BY <2>1, <2>2, <2>3, FS_AddElement
<1>6. \A k \in 0..n : k \in Nat
  OBVIOUS
<1> HIDE DEF Ups
<1>7. /\ Cardinality(Ups(0)) = 0
      /\ \A k \in 0..n : Cardinality(Ups(k)) \in Nat /\ Cardinality(Ups(k)) <= Climbs(path)
      /\ \A k \in 0..(n - 1) : Cardinality(Ups(k + 1)) =
             IF path[k + 1] = ".." THEN Cardinality(Ups(k)) + 1 ELSE Cardinality(Ups(k))
      /\ Climbs(path) \in Nat
  BY <1>1, <1>2, <1>3, <1>4, <1>5, <1>6
<1> QED
  BY <1>7 DEF Ups

LEMMA ClimbIsCanonical ==
    ASSUME NEW P, P \cap Dots = {}, NEW q \in Seq(P), NEW path \in Seq(P \cup Dots), Climbs(path) <= Len(q)
    PROVE  Canonical(FoldLeft(Climb, q, path)) = Canonical(q \o path)
<1> DEFINE m == Len(q)
           n == Len(path)
           c == q \o path
           Ups(k) == {i \in 1..k : path[i] = ".."}
<1>1. /\ m \in Nat /\ n \in Nat /\ DOMAIN path = 1..n /\ DOMAIN c = 1..(m + n)
      /\ \A i \in 1..m : c[i] = q[i] /\ q[i] \in P
      /\ \A i \in 1..n : c[m + i] = path[i] /\ path[i] \in P \cup Dots
  <2>1. q \in Seq(P \cup Dots)
    BY SeqDef
  <2>2. /\ m \in Nat /\ n \in Nat /\ c \in Seq(P \cup Dots) /\ Len(c) = m + n
        /\ \A i \in 1..(m + n) : c[i] = IF i <= m THEN q[i] ELSE path[i - m]
    BY <2>1, ConcatProperties, LenProperties
  <2>3. DOMAIN path = 1..n /\ DOMAIN c = 1..(m + n)
    BY <2>2, LenProperties
  <2>4. (\A i \in 1..m : q[i] \in P) /\ \A i \in 1..n : path[i] \in P \cup Dots
    BY ElementOfSeq
  <2> HIDE DEF m, n, c
  <2>5. \A i \in 1..m : c[i] = q[i]
    BY <2>2
  <2>6. \A i \in 1..n : m + i \in 1..(m + n) /\ ~(m + i <= m) /\ (m + i) - m = i
    BY <2>2
  <2> QED
    BY <2>2, <2>3, <2>4, <2>5, <2>6
<1>2. /\ Cardinality(Ups(0)) = 0
      /\ \A k \in 0..n : Cardinality(Ups(k)) \in Nat /\ Cardinality(Ups(k)) <= Climbs(path)
      /\ \A k \in 0..(n - 1) : Cardinality(Ups(k + 1)) =
             IF path[k + 1] = ".." THEN Cardinality(Ups(k)) + 1 ELSE Cardinality(Ups(k))
      /\ Climbs(path) \in Nat
  BY <1>1, ClimbsUpto
<1>3. Climbs(path) <= m
  OBVIOUS
<1> HIDE DEF m, n, c, Ups
<1>4. PICK at : Loop(at, "absolute", {}, q, path, n) /\ FoldLeft(Climb, q, path) = at[1..n]
  <2>1. n \in Nat /\ DOMAIN path = 1..n
    BY <1>1
  <2> QED
    BY <2>1, ClimbLoop
<1>5. PICK it : Loop(it, "canonical", {}, <<>>, c, m + n) /\ Canonical(c) = it[1..(m + n)]
  <2>1. m + n \in Nat /\ DOMAIN c = 1..(m + n)
    BY <1>1
  <2> QED
    BY <2>1, CanonicalLoop
<1>6. it[1..m] = q
  <2>0. PICK w : w = m + n
    OBVIOUS
  <2>1. w \in Nat /\ m \in 0..w
    BY <1>1, <2>0
  <2>2. \A i \in 1..m : c[i] \in P
    BY <1>1
  <2>3. Loop(it, "canonical", {}, <<>>, c, w)
    BY <1>5, <2>0
  <2>4. it[1..m] \in Seq(P) /\ Len(it[1..m]) = m /\ \A i \in 1..m : it[1..m][i] = c[i]
    BY <2>1, <2>2, <2>3, PlainKept, SMTT(30)
  <2> QED
    BY <1>1, <2>4, SeqEqual DEF m
<1> DEFINE Q(k) == /\ at[1..k] = it[1..(m + k)] /\ at[1..k] \in Seq(P)
                   /\ Len(at[1..k]) + Cardinality(Ups(k)) >= m
           S == {k \in Nat : k <= n => Q(k)}
<1>7. 0 \in S
  <2>1. at[1..0] = q /\ m + 0 = m
    BY <1>1, <1>4 DEF Loop
  <2>2. Len(q) = m
    BY DEF m
  <2> QED
    BY <1>1, <1>2, <1>6, <2>1, <2>2
<1>8. ASSUME NEW k \in Nat, k \in S PROVE k + 1 \in S
  <2> SUFFICES ASSUME k + 1 <= n PROVE Q(k + 1)
    OBVIOUS
  <2>0. PICK cur, next, x : cur = at[1..k] /\ next = at[1..(k + 1)] /\ x = path[k + 1]
    OBVIOUS
  <2>1. cur = it[1..(m + k)] /\ cur \in Seq(P) /\ Len(cur) + Cardinality(Ups(k)) >= m /\ Len(cur) \in Nat
    BY <1>1, <1>8, <2>0, LenProperties
  <2>2. k \in 0..(n - 1) /\ k + 1 \in 1..n /\ k \in 0..n /\ k + 1 \in 0..n /\ m + k \in 0..((m + n) - 1)
        /\ (m + k) + 1 = m + (k + 1)
    BY <1>1
  <2>3. next = Climb(cur, x)
    BY <1>4, <2>0, <2>2 DEF Loop, OneMore
  <2>4. it[1..(m + (k + 1))] = Normal(cur, x)
    <3>1. it[1..((m + k) + 1)] = OneMore("canonical", {}, it[1..(m + k)], c[(m + k) + 1])
      BY <1>5, <2>2 DEF Loop
    <3>2. c[m + (k + 1)] = x
      BY <1>1, <2>0, <2>2
    <3>3. it[1..(m + (k + 1))] = OneMore("canonical", {}, cur, x)
      BY <2>1, <2>2, <3>1, <3>2
    <3> QED
      BY <3>3 DEF OneMore
  <2>5. x \in P \cup Dots
    BY <1>1, <2>0, <2>2
  <2>6. x = ".." => cur # <<>>
    <3> SUFFICES ASSUME x = ".." PROVE Len(cur) # 0
      BY EmptySeq
    <3>1. Cardinality(Ups(k + 1)) = Cardinality(Ups(k)) + 1 /\ Cardinality(Ups(k + 1)) <= Climbs(path)
      BY <1>2, <2>0, <2>2
    <3> QED
      BY <1>1, <1>2, <1>3, <2>1, <2>2, <3>1
  <2>7. /\ Normal(cur, x) = Climb(cur, x) /\ Climb(cur, x) \in Seq(P)
        /\ Len(Climb(cur, x)) = IF x = ".." THEN Len(cur) - 1 ELSE IF x = "." THEN Len(cur) ELSE Len(cur) + 1
    BY <2>1, <2>5, <2>6, NormalClimb
  <2>8. Len(next) + Cardinality(Ups(k + 1)) >= m
    <3>1. Cardinality(Ups(k + 1)) = (IF x = ".." THEN Cardinality(Ups(k)) + 1 ELSE Cardinality(Ups(k)))
          /\ Cardinality(Ups(k)) \in Nat
      BY <1>2, <2>0, <2>2
    <3> QED
      BY <1>1, <2>1, <2>3, <2>7, <3>1
  <2> QED
    BY <2>0, <2>3, <2>4, <2>7, <2>8
<1> HIDE DEF S
<1>9. Nat \subseteq S
  BY <1>7, <1>8, NatSetInduction
<1>10. Q(n)
  <2>1. n \in S /\ n <= n
    BY <1>1, <1>9
  <2> QED
    BY <2>1 DEF S
<1>11. Canonical(at[1..n]) = at[1..n]
  BY <1>10, PlainIsCanonical
<1> QED
  BY <1>4, <1>5, <1>10, <1>11 DEF c

(* absolutePath: for all paths and all imports, a file named from a unit   *)
(* is the one beside that unit, if neither steps up too far.               *)
THEOREM ImportsAreBeside == Spec => []RightFile
<1>1. FilesOK => RightFile
  <2> SUFFICES ASSUME FilesOK, NEW u \in Units, NEW n \in ImportsOf(u), Relative(n.path),
                      Climbs(n.path) < Len(u), {".", ".."} \cap ToSet(u) = {}
               PROVE  Canonical(Target(u, n)) = Canonical(Front(u) \o n.path)
    BY DEF RightFile
  <2>1. u \in Seq(ToSet(u))
    BY PathsAssumption DEF FilesOK
  <2>2. n.path \in Seq(ToSet(n.path))
    <3>1. n \in ToSet(NodesOf(u)) /\ n.kind = "import"
      BY DEF ImportsOf
    <3>2. NodesOf(u) = project.disk[Canonical(u)].nodes /\ Canonical(u) \in DOMAIN project.disk /\ project \in Projects
      BY NodesAre DEF NodesOf, FilesOK
    <3> QED
      BY <3>1, <3>2, ProjectsAssumption
  <2>3. PICK P : P = (ToSet(u) \cup ToSet(n.path)) \ Dots
    OBVIOUS
  <2>4. P \cap Dots = {}
    BY <2>3
  <2>5. n.path \in Seq(P \cup Dots)
    BY <2>2, <2>3, SeqDef
  <2>6. DOMAIN n.path = 1..Len(n.path) /\ Len(n.path) \in Nat /\ Len(u) \in Nat
    BY <2>1, <2>2, LenProperties
  <2>7. Climbs(n.path) \in Nat
    BY <2>6, ClimbsUpto
  <2>8. Front(u) \in Seq(P) /\ Len(Front(u)) = Len(u) - 1
    <3>1. \A i \in 1..Len(u) : u[i] \in P
      BY <2>1, <2>3, <2>6, LenProperties DEF ToSet, Dots
    <3> DEFINE k == Len(u)
    <3>2. k \in Nat \ {0} /\ k - 1 \in Int /\ \A i \in 1..(k - 1) : u[i] \in P
      BY <2>6, <2>7, <3>1
    <3> HIDE DEF k
    <3>3. /\ SubSeq(u, 1, k - 1) \in Seq(P)
          /\ Len(SubSeq(u, 1, k - 1)) = IF 1 <= k - 1 THEN (k - 1) - 1 + 1 ELSE 0
      BY <3>2, SubSeqProperties
    <3>4. Len(SubSeq(u, 1, k - 1)) = k - 1
      BY <3>2, <3>3
    <3> QED
      BY <3>3, <3>4 DEF Front, k
  <2>9. Climbs(n.path) <= Len(Front(u))
    BY <2>6, <2>7, <2>8
  <2>10. Target(u, n) = FoldLeft(Climb, Front(u), n.path)
    BY DEF Target, AbsolutePath
  <2> QED
    BY <2>4, <2>5, <2>8, <2>9, <2>10, ClimbIsCanonical
<1>2. StackOK => RightFile
  BY <1>1 DEF StackOK, Loaded
<1> QED
  BY <1>2, StackInit, StackNext, PTL DEF Spec

-----------------------------------------------------------------------------
(* performImports.                                                         *)

LEMMA ScopeLoop ==
    ASSUME NEW sc, NEW u, NEW nodes, NEW target, NEW n \in Nat, DOMAIN nodes = 1..n
    PROVE  \E it : /\ Loop(it, "scope", [unit |-> u, scopes |-> sc, target |-> target],
                           [scope |-> sc[u], error |-> FALSE], nodes, n)
                   /\ WithImports(sc, u, nodes, target) = it[1..n]
<1> DEFINE base == [scope |-> sc[u], error |-> FALSE]
           P(it) == it = [s \in SUBSET (1..n) |->
                             IF s = {} THEN base ELSE AddImport(u, sc, target, it[s \ {Max(s)}], nodes[Max(s)])]
           it == CHOOSE it : P(it)
<1>1. WithImports(sc, u, nodes, target) = it[1..n]
  BY Zenon DEF WithImports, FoldLeft, MapThenFoldSet, AddImport, Extended
<1>2. PICK p : p = [unit |-> u, scopes |-> sc, target |-> target]
  OBVIOUS
<1>3. ASSUME NEW st, NEW node PROVE AddImport(u, sc, target, st, node) = OneMore("scope", p, st, node)
  <2>1. p.unit = u /\ p.scopes = sc /\ p.target = target
    BY <1>2
  <2> QED
    BY <2>1 DEF OneMore
<1> HIDE DEF base
<1>4. \A w : P(w) <=> FoldOn(w, "scope", p, base, nodes, n)
  <2> TAKE w
  <2> DEFINE one(s) == AddImport(u, sc, target, w[s \ {Max(s)}], nodes[Max(s)])
             other(s) == OneMore("scope", p, w[s \ {Max(s)}], nodes[Max(s)])
  <2>1. \A s \in SUBSET (1..n) : one(s) = other(s)
    BY <1>3, Zenon
  <2> HIDE DEF one, other
  <2>2. [s \in SUBSET (1..n) |-> IF s = {} THEN base ELSE one(s)] = [s \in SUBSET (1..n) |-> IF s = {} THEN base ELSE other(s)]
    BY <2>1
  <2> QED
    BY <2>2, Zenon DEF FoldOn, one, other
<1>5. \E w : P(w)
  BY <1>4, FoldExists
<1>6. P(it)
  <2> HIDE DEF P
  <2> QED
    BY <1>5
<1>7. FoldOn(it, "scope", p, base, nodes, n)
  <2> HIDE DEF P
  <2> QED
    BY <1>4, <1>6
<1>8. Loop(it, "scope", p, base, nodes, n)
  BY <1>7, FoldLoop
<1> QED
  BY <1>1, <1>2, <1>8 DEF base

LEMMA PassedOnMore ==
    ASSUME NEW node, NEW a, NEW b, a \subseteq b
    PROVE  PassedOn(node, a) \subseteq PassedOn(node, b)
BY DEF PassedOn

LEMMA ImportedIs ==
    ASSUME NEW node, NEW scope
    PROVE  Imported(node, scope) = PassedOn(node, Pairs(scope))
<1>1. CASE node.as # ""
  BY <1>1 DEF Imported, PassedOn
<1>2. CASE node.as = "" /\ node.symbols = <<>>
  BY <1>2 DEF Imported, PassedOn, Pairs
<1>3. CASE node.as = "" /\ node.symbols # <<>>
  <2> DEFINE syms == ToSet(node.symbols)
             left == {<<s[2], scope[s[1]]>> : s \in {p \in syms : p[1] \in DOMAIN scope}}
             right == UNION {{<<s[2], p[2]>> : s \in {t \in syms : t[1] = p[1]}} : p \in Pairs(scope)}
  <2>1. Imported(node, scope) = left /\ PassedOn(node, Pairs(scope)) = right
    BY <1>3 DEF Imported, PassedOn
  <2> HIDE DEF syms
  <2>2. ASSUME NEW x \in left PROVE x \in right
    <3>1. PICK s \in syms : s[1] \in DOMAIN scope /\ x = <<s[2], scope[s[1]]>>
      OBVIOUS
    <3>2. PICK p : p = <<s[1], scope[s[1]]>>
      OBVIOUS
    <3>3. p \in Pairs(scope) /\ p[1] = s[1] /\ p[2] = scope[s[1]]
      BY <3>1, <3>2 DEF Pairs
    <3> QED
      BY <3>1, <3>3
  <2>3. ASSUME NEW x \in right PROVE x \in left
    <3>1. PICK p \in Pairs(scope) : \E s \in syms : s[1] = p[1] /\ x = <<s[2], p[2]>>
      OBVIOUS
    <3>2. PICK s \in syms : s[1] = p[1] /\ x = <<s[2], p[2]>>
      BY <3>1
    <3>3. p[1] \in DOMAIN scope /\ p[2] = scope[p[1]]
      BY DEF Pairs
    <3> QED
      BY <3>2, <3>3
  <2> QED
    BY <2>1, <2>2, <2>3
<1> QED
  BY <1>1, <1>2, <1>3

\* What one import adds, and what it adds if nothing is wrong with it.
LEMMA AddIs ==
    ASSUME NEW st, NEW node, NEW from, NEW next, next = Extended(st, node, from)
    PROVE  /\ Pairs(next.scope) \subseteq Pairs(st.scope) \cup PassedOn(node, Pairs(from))
           /\ Pairs(st.scope) \subseteq Pairs(next.scope)
           /\ ~next.error => ~st.error /\ PassedOn(node, Pairs(from)) \subseteq Pairs(next.scope)
<1> DEFINE pairs == Imported(node, from)
           fresh == {q \in pairs : q[1] \notin DOMAIN st.scope}
           names == DOMAIN st.scope \cup {q[1] : q \in fresh}
           value(n) == IF n \in DOMAIN st.scope THEN st.scope[n] ELSE (CHOOSE q \in fresh : q[1] = n)[2]
<1>1. next = [scope |-> [n \in names |-> value(n)],
              error |-> st.error \/ NotFound(node, from) \/ Clashes(st.scope, pairs)]
  BY Zenon DEF Extended
<1>2. /\ next.scope = [n \in names |-> value(n)]
      /\ next.error = (st.error \/ NotFound(node, from) \/ Clashes(st.scope, pairs))
  BY <1>1
<1>3. pairs = PassedOn(node, Pairs(from))
  BY ImportedIs
<1>4. \A q \in pairs : q = <<q[1], q[2]>>
  <2> SUFFICES ASSUME NEW q \in pairs PROVE \E x, y : q = <<x, y>>
    OBVIOUS
  <2> DEFINE syms == {s \in ToSet(node.symbols) : s[1] \in DOMAIN from}
  <2>1. \/ \E name \in DOMAIN from : q = <<name, from[name]>>
        \/ \E s \in syms : q = <<s[2], from[s[1]]>>
    BY Zenon DEF Imported
  <2> QED
    BY <2>1
<1> HIDE DEF pairs
<1>5. DOMAIN next.scope = names /\ \A n \in names : next.scope[n] = value(n)
  BY <1>2
<1>6. ASSUME NEW n \in names, n \notin DOMAIN st.scope
      PROVE  \E q \in fresh : q = <<n, next.scope[n]>>
  <2>1. PICK q : q = CHOOSE z \in fresh : z[1] = n
    OBVIOUS
  <2>2. q \in fresh /\ q[1] = n
    BY <1>6, <2>1
  <2>3. next.scope[n] = q[2]
    BY <1>5, <1>6, <2>1
  <2> QED
    BY <1>4, <2>2, <2>3
<1>7. \A n \in DOMAIN st.scope : n \in names /\ next.scope[n] = st.scope[n]
  BY <1>5
<1>8. Pairs(st.scope) \subseteq Pairs(next.scope)
  BY <1>5, <1>7 DEF Pairs
<1>9. Pairs(next.scope) \subseteq Pairs(st.scope) \cup pairs
  <2> SUFFICES ASSUME NEW n \in names PROVE <<n, next.scope[n]>> \in Pairs(st.scope) \cup pairs
    BY <1>5 DEF Pairs
  <2>1. CASE n \in DOMAIN st.scope
    BY <1>7, <2>1 DEF Pairs
  <2>2. CASE n \notin DOMAIN st.scope
    BY <1>6, <2>2
  <2> QED
    BY <2>1, <2>2
<1>10. ASSUME ~next.error PROVE ~st.error /\ pairs \subseteq Pairs(next.scope)
  <2>1. ~st.error /\ ~Clashes(st.scope, pairs)
    BY <1>2, <1>10
  <2>2. /\ \A q \in pairs : q[1] \in DOMAIN st.scope => st.scope[q[1]] = q[2]
        /\ \A q, r \in pairs : q[1] = r[1] => q[2] = r[2]
    BY <2>1 DEF Clashes, Conflicting
  <2>3. ASSUME NEW q \in pairs PROVE q[1] \in names /\ next.scope[q[1]] = q[2]
    <3>1. CASE q[1] \in DOMAIN st.scope
      BY <1>7, <2>2, <3>1
    <3>2. CASE q[1] \notin DOMAIN st.scope
      <4>1. PICK n : n = q[1]
        OBVIOUS
      <4>2. n \in names /\ n \notin DOMAIN st.scope
        BY <3>2, <4>1
      <4>3. PICK r \in fresh : r = <<n, next.scope[n]>>
        BY <1>6, <4>2
      <4>4. r \in pairs /\ r[1] = n /\ r[2] = next.scope[n]
        BY <4>3
      <4>5. r[2] = q[2]
        BY <2>2, <4>1, <4>4
      <4> QED
        BY <4>1, <4>2, <4>4, <4>5
    <3> QED
      BY <3>1, <3>2
  <2> HIDE DEF names
  <2>4. pairs \subseteq Pairs(next.scope)
    BY <1>4, <1>5, <2>3 DEF Pairs
  <2> QED
    BY <2>1, <2>4
<1> QED
  BY <1>3, <1>8, <1>9, <1>10

\* All imports of a unit: B[k] is what it may have after k nodes.
Brings(sc, target, node, r) == PassedOn(node, Pairs(sc[target[node.path]])) \subseteq Pairs(r.scope)
Room(sc, u, target, node, more, B) ==
    node.kind = "import" =>
        PassedOn(node, IF target[node.path] = u THEN B ELSE Pairs(sc[target[node.path]])) \subseteq more

LEMMA ImportsAdd ==
    ASSUME NEW sc, NEW u, NEW target, NEW nodes, NEW n \in Nat, DOMAIN nodes = 1..n,
           NEW r, r = WithImports(sc, u, nodes, target),
           NEW B, Pairs(sc[u]) \subseteq B[0],
           \A k \in 0..(n - 1) : B[k] \subseteq B[k + 1] /\ Room(sc, u, target, nodes[k + 1], B[k + 1], B[k])
    PROVE  /\ Pairs(r.scope) \subseteq B[n]
           /\ ~r.error => /\ Pairs(sc[u]) \subseteq Pairs(r.scope)
                          /\ \A i \in 1..n : nodes[i].kind = "import" /\ target[nodes[i].path] # u =>
                                 Brings(sc, target, nodes[i], r)
<1> DEFINE p == [unit |-> u, scopes |-> sc, target |-> target]
           base == [scope |-> sc[u], error |-> FALSE]
<1>1. PICK it : Loop(it, "scope", p, base, nodes, n) /\ r = it[1..n]
  BY ScopeLoop
<1> DEFINE Q(k, st) == /\ Pairs(st.scope) \subseteq B[k]
                       /\ ~st.error => /\ Pairs(sc[u]) \subseteq Pairs(st.scope)
                                       /\ \A i \in 1..k : nodes[i].kind = "import" /\ target[nodes[i].path] # u =>
                                              Brings(sc, target, nodes[i], st)
           S == {k \in Nat : k <= n => Q(k, it[1..k])}
<1>2. 0 \in S
  <2>1. it[1..0] = base
    BY <1>1 DEF Loop
  <2>2. base.scope = sc[u]
    OBVIOUS
  <2>3. Q(0, it[1..0])
    BY <2>1, <2>2
  <2> QED
    BY <2>3
<1>3. ASSUME NEW k \in Nat, k \in S PROVE k + 1 \in S
  <2> SUFFICES ASSUME k + 1 <= n PROVE Q(k + 1, it[1..(k + 1)])
    OBVIOUS
  <2>0. PICK st, next, node : st = it[1..k] /\ next = it[1..(k + 1)] /\ node = nodes[k + 1]
    OBVIOUS
  <2>1. Q(k, st)
    BY <1>3, <2>0
  <2>2. k \in 0..(n - 1) /\ \A i \in 1..(k + 1) : i \in 1..k \/ i = k + 1
    OBVIOUS
  <2>3. next = AddImport(u, sc, target, st, node)
    <3>1. next = OneMore("scope", p, st, node)
      BY <1>1, <2>0, <2>2 DEF Loop
    <3>2. p.unit = u /\ p.scopes = sc /\ p.target = target
      OBVIOUS
    <3> HIDE DEF p
    <3> QED
      BY <3>1, <3>2 DEF OneMore
  <2>4. B[k] \subseteq B[k + 1] /\ Room(sc, u, target, node, B[k + 1], B[k])
    BY <2>0, <2>2
  <2>5. CASE node.kind # "import"
    <3>1. next = st
      BY <2>3, <2>5 DEF AddImport
    <3> QED
      BY <2>0, <2>1, <2>2, <2>4, <2>5, <3>1
  <2>6. CASE node.kind = "import"
    <3>1. PICK from : from = IF target[node.path] = u THEN st.scope ELSE sc[target[node.path]]
      OBVIOUS
    <3>2. next = Extended(st, node, from)
      BY <2>3, <2>6, <3>1 DEF AddImport
    <3>3. /\ Pairs(next.scope) \subseteq Pairs(st.scope) \cup PassedOn(node, Pairs(from))
          /\ Pairs(st.scope) \subseteq Pairs(next.scope)
          /\ ~next.error => ~st.error /\ PassedOn(node, Pairs(from)) \subseteq Pairs(next.scope)
      BY <3>2, AddIs
    <3>4. PassedOn(node, Pairs(from)) \subseteq B[k + 1]
      <4>1. CASE target[node.path] = u
        <5>1. Pairs(from) \subseteq B[k] /\ PassedOn(node, B[k]) \subseteq B[k + 1]
          BY <2>1, <2>4, <2>6, <3>1, <4>1 DEF Room
        <5> QED
          BY <5>1, PassedOnMore
      <4>2. CASE target[node.path] # u
        BY <2>4, <2>6, <3>1, <4>2 DEF Room
      <4> QED
        BY <4>1, <4>2
    <3>5. Pairs(next.scope) \subseteq B[k + 1]
      BY <2>1, <2>4, <3>3, <3>4
    <3>6. ASSUME ~next.error
          PROVE  /\ Pairs(sc[u]) \subseteq Pairs(next.scope)
                 /\ \A i \in 1..(k + 1) : nodes[i].kind = "import" /\ target[nodes[i].path] # u =>
                        Brings(sc, target, nodes[i], next)
      <4>1. ASSUME NEW i \in 1..k, nodes[i].kind = "import", target[nodes[i].path] # u
            PROVE  Brings(sc, target, nodes[i], next)
        BY <2>1, <3>3, <3>6, <4>1 DEF Brings
      <4>2. target[node.path] # u => Brings(sc, target, node, next)
        BY <3>1, <3>3, <3>6 DEF Brings
      <4> QED
        BY <2>0, <2>1, <2>2, <3>3, <3>6, <4>1, <4>2
    <3> QED
      BY <2>0, <3>5, <3>6
  <2> QED
    BY <2>5, <2>6
<1> HIDE DEF S
<1>4. Nat \subseteq S
  BY <1>2, <1>3, NatSetInduction
<1>5. n \in S /\ n <= n
  BY <1>4
<1>6. Q(n, it[1..n])
  BY <1>5 DEF S
<1> QED
  BY <1>1, <1>6

-----------------------------------------------------------------------------
(* What the units see.                                                     *)

LEMMA SeenIs ==
    ASSUME NEW N \in Nat, N = Cardinality(Nodes)
    PROVE  Rounds("seen", Seen, N)
<1>1. Seen = CHOOSE f : f = [k \in 0..N |-> IF k = 0 THEN Start ELSE Spread(f[k - 1])]
  BY Zenon DEF Seen, Start, Spread
<1>2. \A f : Rounds("seen", f, N) <=> f = [k \in 0..N |-> IF k = 0 THEN Start ELSE Spread(f[k - 1])]
  BY DEF Rounds, Round
<1>3. \E f : f = [k \in 0..N |-> IF k = 0 THEN Start ELSE Spread(f[k - 1])]
  BY <1>2, RoundsExist
<1>4. Seen = [k \in 0..N |-> IF k = 0 THEN Start ELSE Spread(Seen[k - 1])]
  BY <1>1, <1>3, Zenon
<1> QED
  BY <1>2, <1>4

LEMMA RoundsAre ==
    ASSUME NEW N \in Nat, NEW f, Rounds("seen", f, N)
    PROVE  f[0] = Start /\ \A k \in 0..(N - 1) : f[k + 1] = Spread(f[k])
<1>1. \A k \in 0..N : f[k] = IF k = 0 THEN Start ELSE Spread(f[k - 1])
  BY DEF Rounds, Round
<1>2. \A k \in 0..(N - 1) : k + 1 \in 0..N /\ k + 1 # 0 /\ (k + 1) - 1 = k
  OBVIOUS
<1> QED
  BY <1>1, <1>2

LEMMA SeenGrows ==
    ASSUME NEW N \in Nat, NEW f, Rounds("seen", f, N), NEW a \in 0..N, NEW b \in 0..N, a <= b
    PROVE  f[a] \subseteq f[b]
<1> DEFINE S == {n \in Nat : a + n <= N => f[a] \subseteq f[a + n]}
<1>1. 0 \in S
  BY a + 0 = a
<1>2. ASSUME NEW n \in Nat, n \in S PROVE n + 1 \in S
  <2> SUFFICES ASSUME a + (n + 1) <= N PROVE f[a] \subseteq f[a + (n + 1)]
    OBVIOUS
  <2>1. PICK k : k = a + n
    OBVIOUS
  <2>2. k \in 0..(N - 1) /\ k <= N /\ a + (n + 1) = k + 1
    BY <2>1
  <2>3. f[a] \subseteq f[k]
    BY <1>2, <2>1, <2>2
  <2>4. f[k + 1] = Spread(f[k])
    BY <2>2, RoundsAre
  <2>5. f[k] \subseteq Spread(f[k])
    BY DEF Spread
  <2> QED
    BY <2>2, <2>3, <2>4, <2>5
<1> HIDE DEF S
<1>3. Nat \subseteq S
  BY <1>1, <1>2, NatSetInduction
<1>4. PICK n \in Nat : a + n = b
  <2>1. b - a \in Nat /\ a + (b - a) = b
    OBVIOUS
  <2> QED
    BY <2>1
<1>5. n \in S
  BY <1>3
<1> QED
  BY <1>4, <1>5 DEF S

LEMMA SeenByMore == ASSUME NEW u, NEW a, NEW b, a \subseteq b PROVE SeenBy(u, a) \subseteq SeenBy(u, b)
BY DEF SeenBy

LEMMA StartIs ==
    ASSUME NEW u \in Units
    PROVE  SeenBy(u, Start) = Pairs(Declared(u, NodesOf(u)))
<1> DEFINE P(w) == Pairs(Declared(w, NodesOf(w)))
<1>1. Start = UNION {{w} \X P(w) : w \in Units}
  BY DEF Start
<1> HIDE DEF P
<1>2. ASSUME NEW x \in SeenBy(u, Start) PROVE x \in P(u)
  <2>1. PICK y \in Start : y[1] = u /\ x = y[2]
    BY DEF SeenBy
  <2>2. PICK w \in Units : y \in {w} \X P(w)
    BY <1>1
  <2> QED
    BY <2>1, <2>2
<1>3. ASSUME NEW x \in P(u) PROVE x \in SeenBy(u, Start)
  <2>1. PICK y : y = <<u, x>>
    OBVIOUS
  <2>2. y \in {u} \X P(u) /\ y[1] = u /\ y[2] = x
    BY <2>1
  <2>3. y \in Start
    BY <1>1, <2>2
  <2> QED
    BY <2>2, <2>3 DEF SeenBy
<1> QED
  BY <1>2, <1>3 DEF P

LEMMA SpreadIs ==
    ASSUME NEW seen, NEW u \in Units
    PROVE  /\ \A m \in ImportsOf(u) : PassedOn(m, SeenBy(Target(u, m), seen)) \subseteq SeenBy(u, Spread(seen))
           /\ \A x \in SeenBy(u, Spread(seen)) :
                  x \in SeenBy(u, seen) \/ \E m \in ImportsOf(u) : x \in PassedOn(m, SeenBy(Target(u, m), seen))
<1> DEFINE P(w, m) == PassedOn(m, SeenBy(Target(w, m), seen))
<1>1. Spread(seen) = seen \cup UNION {UNION {{w} \X P(w, m) : m \in ImportsOf(w)} : w \in Units}
  BY DEF Spread
<1> HIDE DEF P
<1>2. ASSUME NEW m \in ImportsOf(u), NEW x \in P(u, m) PROVE x \in SeenBy(u, Spread(seen))
  <2>1. PICK y : y = <<u, x>>
    OBVIOUS
  <2>2. y \in {u} \X P(u, m) /\ y[1] = u /\ y[2] = x
    BY <2>1
  <2>3. y \in Spread(seen)
    BY <1>1, <2>2
  <2> QED
    BY <2>2, <2>3 DEF SeenBy
<1>3. ASSUME NEW x \in SeenBy(u, Spread(seen)), x \notin SeenBy(u, seen)
      PROVE  \E m \in ImportsOf(u) : x \in P(u, m)
  <2>1. PICK y \in Spread(seen) : y[1] = u /\ x = y[2]
    BY DEF SeenBy
  <2>2. y \notin seen
    BY <1>3, <2>1 DEF SeenBy
  <2>3. PICK w \in Units : \E m \in ImportsOf(w) : y \in {w} \X P(w, m)
    BY <1>1, <2>2
  <2> QED
    BY <2>1, <2>3
<1> QED
  BY <1>2, <1>3 DEF P

-----------------------------------------------------------------------------
(* The nodes that performImports has been at.                              *)

Ordered ==
    /\ order \in Seq(Units) /\ ToSet(order) = Units /\ IsInjective(order) /\ ImportsFirst(order)
    /\ AllWhole

Handled(i) == UNION {{order[j]} \X DOMAIN NodesOf(order[j]) : j \in 1..(i - 1)}
Done(i, k) == Handled(i) \cup ({order[i]} \X (1..k))

LEMMA UnitAt ==
    ASSUME FilesOK, Ordered, NEW i \in 1..Len(order)
    PROVE  /\ order[i] \in Units /\ DOMAIN NodesOf(order[i]) = 1..Len(NodesOf(order[i]))
           /\ Len(NodesOf(order[i])) \in Nat /\ Len(order) \in Nat
           /\ \A j \in 1..Len(order) : order[j] = order[i] => j = i
<1>1. DOMAIN order = 1..Len(order) /\ Len(order) \in Nat /\ order[i] \in Units
  BY LenProperties, ElementOfSeq DEF Ordered
<1>2. NodesOf(order[i]) \in Seq(ToSet(NodesOf(order[i])))
  BY <1>1, NodesAre
<1>3. DOMAIN NodesOf(order[i]) = 1..Len(NodesOf(order[i])) /\ Len(NodesOf(order[i])) \in Nat
  BY <1>2, LenProperties
<1>4. \A j \in 1..Len(order) : order[j] = order[i] => j = i
  BY <1>1 DEF Ordered, IsInjective
<1> QED
  BY <1>1, <1>3, <1>4

LEMMA DoneIs ==
    ASSUME FilesOK, Ordered, NEW i \in 1..Len(order), NEW n, n = Len(NodesOf(order[i]))
    PROVE  /\ Done(i, 0) = Handled(i) /\ Done(i, n) = Handled(i + 1)
           /\ \A k \in Nat : <<order[i], k + 1>> \notin Done(i, k)
           /\ \A k \in Nat : Done(i, k + 1) = Done(i, k) \cup {<<order[i], k + 1>>}
<1> DEFINE P(j) == {order[j]} \X DOMAIN NodesOf(order[j])
           u == order[i]
<1>0. i \in Nat /\ Len(order) \in Nat /\ (i + 1) - 1 = i
  BY UnitAt
<1>1. Handled(i) = UNION {P(j) : j \in 1..(i - 1)} /\ Handled(i + 1) = UNION {P(j) : j \in 1..i}
  BY <1>0 DEF Handled
<1>2. P(i) = {u} \X (1..n)
  BY UnitAt
<1>3. \A j \in 1..(i - 1) : j \in 1..Len(order) /\ j # i
  BY <1>0
<1>4. \A j \in 1..(i - 1) : order[j] # u
  BY <1>3, UnitAt
<1>5. \A j : j \in 1..i <=> (j \in 1..(i - 1) \/ j = i)
  BY <1>0
<1>6. Done(i, n) = Handled(i + 1)
  <2> HIDE DEF P, u
  <2> QED
    BY <1>1, <1>2, <1>5 DEF Done, u
<1>7. Done(i, 0) = Handled(i)
  BY DEF Done
<1>8. ASSUME NEW k \in Nat PROVE <<u, k + 1>> \notin Done(i, k)
  <2>1. k + 1 \notin 1..k
    OBVIOUS
  <2>2. \A j \in 1..(i - 1) : <<u, k + 1>> \notin P(j)
    BY <1>4
  <2> HIDE DEF P, u
  <2>3. <<u, k + 1>> \notin Handled(i)
    BY <1>1, <2>2
  <2> QED
    BY <2>1, <2>3 DEF Done, u
<1>9. ASSUME NEW k \in Nat PROVE Done(i, k + 1) = Done(i, k) \cup {<<u, k + 1>>}
  <2>1. 1..(k + 1) = (1..k) \cup {k + 1}
    OBVIOUS
  <2> HIDE DEF u
  <2>2. {u} \X ((1..k) \cup {k + 1}) = ({u} \X (1..k)) \cup {<<u, k + 1>>}
    OBVIOUS
  <2> QED
    BY <2>1, <2>2 DEF Done, u
<1> QED
  BY <1>6, <1>7, <1>8, <1>9

LEMMA DoneMore ==
    ASSUME FilesOK, Ordered, NEW i \in 1..Len(order), IsFiniteSet(Handled(i))
    PROVE  \A k \in Nat : /\ IsFiniteSet(Done(i, k))
                          /\ Cardinality(Done(i, k + 1)) = Cardinality(Done(i, k)) + 1
<1> DEFINE S == {k \in Nat : IsFiniteSet(Done(i, k))}
<1>0. PICK n : n = Len(NodesOf(order[i]))
  OBVIOUS
<1>1. 0 \in S
  BY <1>0, DoneIs
<1>2. ASSUME NEW k \in Nat, k \in S PROVE k + 1 \in S
  <2>1. Done(i, k + 1) = Done(i, k) \cup {<<order[i], k + 1>>}
    BY <1>0, DoneIs
  <2>2. IsFiniteSet(Done(i, k))
    BY <1>2
  <2>3. IsFiniteSet(Done(i, k) \cup {<<order[i], k + 1>>})
    BY <2>2, FS_AddElement
  <2>4. IsFiniteSet(Done(i, k + 1))
    BY <2>1, <2>3, Zenon
  <2>5. k + 1 \in Nat
    OBVIOUS
  <2> QED
    BY <2>4, <2>5, Zenon
<1>3. Nat \subseteq S
  <2> HIDE DEF S
  <2> QED
    BY <1>1, <1>2, NatSetInduction
<1>4. ASSUME NEW k \in Nat
      PROVE  IsFiniteSet(Done(i, k)) /\ Cardinality(Done(i, k + 1)) = Cardinality(Done(i, k)) + 1
  <2>1. IsFiniteSet(Done(i, k))
    BY <1>3
  <2>2. /\ Done(i, k + 1) = Done(i, k) \cup {<<order[i], k + 1>>}
        /\ <<order[i], k + 1>> \notin Done(i, k)
    BY <1>0, DoneIs
  <2>3. Cardinality(Done(i, k) \cup {<<order[i], k + 1>>}) = Cardinality(Done(i, k)) + 1
    BY <2>1, <2>2, FS_AddElement
  <2> QED
    BY <2>1, <2>2, <2>3
<1> QED
  BY <1>4

LEMMA HandledFinite ==
    ASSUME FilesOK, Ordered
    PROVE  \A i \in 1..(Len(order) + 1) : IsFiniteSet(Handled(i))
<1> DEFINE S == {k \in Nat : k <= Len(order) => IsFiniteSet(Handled(k + 1))}
<1>0. Len(order) \in Nat
  BY LenProperties DEF Ordered
<1>1. 0 \in S
  <2>1. Handled(0 + 1) = {}
    BY DEF Handled
  <2> QED
    BY <2>1, FS_EmptySet
<1>2. ASSUME NEW k \in Nat, k \in S PROVE k + 1 \in S
  <2> SUFFICES ASSUME k + 1 <= Len(order) PROVE IsFiniteSet(Handled((k + 1) + 1))
    OBVIOUS
  <2>1. PICK i : i = k + 1
    OBVIOUS
  <2>2. i \in 1..Len(order)
    BY <1>0, <2>1
  <2>3. IsFiniteSet(Handled(i))
    BY <1>0, <1>2, <2>1
  <2>4. PICK n : n = Len(NodesOf(order[i]))
    OBVIOUS
  <2>5. n \in Nat /\ Done(i, n) = Handled(i + 1)
    BY <2>2, <2>4, UnitAt, DoneIs
  <2>6. IsFiniteSet(Done(i, n))
    BY <2>2, <2>3, <2>5, DoneMore
  <2> QED
    BY <2>1, <2>5, <2>6
<1>3. Nat \subseteq S
  <2> HIDE DEF S
  <2> QED
    BY <1>1, <1>2, NatSetInduction
<1> SUFFICES ASSUME NEW i \in 1..(Len(order) + 1) PROVE IsFiniteSet(Handled(i))
  OBVIOUS
<1>4. PICK k : k = i - 1
  OBVIOUS
<1>5. k \in Nat /\ k <= Len(order) /\ k + 1 = i
  BY <1>0, <1>4
<1>6. k \in S
  BY <1>3, <1>5
<1> QED
  BY <1>5, <1>6

LEMMA HandledAll ==
    ASSUME FilesOK, Ordered
    PROVE  /\ Nodes = Handled(Len(order) + 1) /\ IsFiniteSet(Nodes) /\ Cardinality(Nodes) \in Nat
           /\ \A i \in 1..(Len(order) + 1) : /\ Handled(i) \subseteq Nodes
                                             /\ Cardinality(Handled(i)) \in 0..Cardinality(Nodes)
           /\ \A i, j \in 1..(Len(order) + 1) : i <= j => Cardinality(Handled(i)) <= Cardinality(Handled(j))
<1>0. PICK L : L = Len(order)
  OBVIOUS
<1>1. L \in Nat /\ DOMAIN order = 1..L
  BY <1>0, LenProperties DEF Ordered
<1> DEFINE P(u) == {u} \X DOMAIN NodesOf(u)
<1>2. Nodes = UNION {P(u) : u \in Units} /\ \A i : Handled(i) = UNION {P(order[j]) : j \in 1..(i - 1)}
  BY DEF Nodes, Handled
<1>3. Units = {order[j] : j \in 1..L}
  BY <1>1 DEF Ordered, ToSet
<1> HIDE DEF P
<1>4. (L + 1) - 1 = L /\ L + 1 \in 1..(L + 1)
  BY <1>1
<1>5. Nodes = Handled(L + 1)
  BY <1>2, <1>3, <1>4
<1>6. \A i \in 1..(L + 1) : IsFiniteSet(Handled(i))
  BY <1>0, HandledFinite
<1>7. ASSUME NEW i \in 1..(L + 1), NEW j \in 1..(L + 1), i <= j
      PROVE  Handled(i) \subseteq Handled(j) /\ Cardinality(Handled(i)) <= Cardinality(Handled(j))
  <2>1. \A k \in 1..(i - 1) : k \in 1..(j - 1)
    BY <1>1, <1>7
  <2>2. Handled(i) \subseteq Handled(j)
    BY <1>2, <2>1
  <2>3. IsFiniteSet(Handled(j))
    BY <1>6
  <2> QED
    BY <2>2, <2>3, FS_Subset
<1>8. \A i \in 1..(L + 1) : Cardinality(Handled(i)) \in Nat
  BY <1>6, FS_CardinalityType
<1>9. ASSUME NEW i \in 1..(L + 1)
      PROVE  Handled(i) \subseteq Nodes /\ Cardinality(Handled(i)) \in 0..Cardinality(Nodes)
  <2>1. i <= L + 1
    BY <1>1
  <2>2. Handled(i) \subseteq Nodes /\ Cardinality(Handled(i)) <= Cardinality(Nodes)
    BY <1>4, <1>5, <1>7, <2>1
  <2>3. Cardinality(Handled(i)) \in Nat /\ Cardinality(Nodes) \in Nat
    BY <1>4, <1>5, <1>8
  <2> QED
    BY <2>2, <2>3
<1> QED
  BY <1>0, <1>4, <1>5, <1>6, <1>7, <1>8, <1>9

-----------------------------------------------------------------------------
(* What is in the scope of a unit that performImports has been at: no more *)
(* than the units see after as many rounds as it has been at nodes, what   *)
(* the unit declares, and what the units that came before it pass on.      *)

IsSeen(f) == Rounds("seen", f, Cardinality(Nodes))

NoMore(sc, i) == \A f : IsSeen(f) => Pairs(sc[order[i]]) \subseteq SeenBy(order[i], f[Cardinality(Handled(i + 1))])

NoLess(sc, i) ==
    /\ Pairs(Declared(order[i], NodesOf(order[i]))) \subseteq Pairs(sc[order[i]])
    /\ \A m \in ImportsOf(order[i]) : \A j \in 1..(i - 1) :
           order[j] = Target(order[i], m) => PassedOn(m, Pairs(sc[order[j]])) \subseteq Pairs(sc[order[i]])

ImportedOK(sc, i) == NoMore(sc, i) /\ NoLess(sc, i)
DeclaredOK(sc, i) == order[i] \in DOMAIN sc /\ sc[order[i]] = Declared(order[i], NodesOf(order[i]))

LEMMA FromOthers ==
    ASSUME FilesOK, Ordered, NEW p \in 1..Len(order), NEW sc,
           \A j \in 1..(p - 1) : ImportedOK(sc, j), \A j \in p..Len(order) : DeclaredOK(sc, j),
           NEW f, IsSeen(f), NEW c \in 0..Cardinality(Nodes), Cardinality(Handled(p)) <= c,
           NEW v \in Units, v # order[p]
    PROVE  Pairs(sc[v]) \subseteq SeenBy(v, f[c])
<1>0. Len(order) \in Nat /\ ToSet(order) = Units
  BY LenProperties DEF Ordered
<1>1. PICK N : N = Cardinality(Nodes)
  OBVIOUS
<1>2. N \in Nat /\ c \in 0..N /\ Rounds("seen", f, N)
  BY <1>1, HandledAll DEF IsSeen
<1>3. PICK j \in 1..Len(order) : order[j] = v
  BY <1>0, SeqRange DEF Ordered
<1>4. CASE j < p
  <2>1. j \in 1..(p - 1) /\ j + 1 \in 1..(Len(order) + 1) /\ p \in 1..(Len(order) + 1) /\ j + 1 <= p
    BY <1>0, <1>4
  <2>2. PICK b : b = Cardinality(Handled(j + 1))
    OBVIOUS
  <2>3. b \in 0..N /\ b <= Cardinality(Handled(p)) /\ Cardinality(Handled(p)) \in 0..N
    BY <1>1, <2>1, <2>2, HandledAll
  <2>4. b <= c
    BY <1>2, <2>3
  <2>5. f[b] \subseteq f[c]
    BY <1>2, <2>3, <2>4, SeenGrows
  <2>6. Pairs(sc[v]) \subseteq SeenBy(v, f[b])
    BY <1>3, <2>1, <2>2 DEF ImportedOK, NoMore
  <2> QED
    BY <2>5, <2>6, SeenByMore
<1>5. CASE ~(j < p)
  <2>1. j \in p..Len(order)
    BY <1>5
  <2>2. Pairs(sc[v]) = SeenBy(v, Start)
    BY <1>3, <2>1, StartIs DEF DeclaredOK
  <2>3. 0 \in 0..N /\ 0 <= c
    BY <1>2
  <2>4. Start \subseteq f[c]
    BY <1>2, <2>3, SeenGrows, RoundsAre
  <2> QED
    BY <2>2, <2>4, SeenByMore
<1> QED
  BY <1>4, <1>5

\* The counts of nodes as one unit is gone through.
LEMMA Counts ==
    ASSUME FilesOK, Ordered, NEW p \in 1..Len(order), NEW n, n = Len(NodesOf(order[p]))
    PROVE  /\ Cardinality(Done(p, 0)) = Cardinality(Handled(p))
           /\ Cardinality(Done(p, n)) = Cardinality(Handled(p + 1))
           /\ \A k \in 0..n : /\ Cardinality(Done(p, k)) \in 0..Cardinality(Nodes)
                              /\ Cardinality(Handled(p)) <= Cardinality(Done(p, k))
           /\ \A k \in 0..(n - 1) : Cardinality(Done(p, k + 1)) = Cardinality(Done(p, k)) + 1
<1>0. n \in Nat /\ Len(order) \in Nat
  BY UnitAt
<1>1. p \in 1..(Len(order) + 1) /\ p + 1 \in 1..(Len(order) + 1)
  BY <1>0
<1>2. IsFiniteSet(Handled(p))
  BY <1>1, HandledFinite
<1>3. Done(p, 0) = Handled(p) /\ Done(p, n) = Handled(p + 1)
  BY DoneIs
<1>4. ASSUME NEW k \in 0..n
      PROVE  /\ Cardinality(Done(p, k)) \in 0..Cardinality(Nodes)
             /\ Cardinality(Handled(p)) <= Cardinality(Done(p, k))
  <2>1. IsFiniteSet(Done(p, k))
    BY <1>2, DoneMore
  <2>2. Handled(p) \subseteq Done(p, k) /\ Done(p, k) \subseteq Done(p, n)
    <3>1. 1..k \subseteq 1..n
      BY <1>0
    <3> QED
      BY <3>1 DEF Done
  <2>3. Done(p, k) \subseteq Nodes /\ IsFiniteSet(Nodes) /\ Cardinality(Nodes) \in Nat
    BY <1>1, <1>3, <2>2, HandledAll
  <2>4. Cardinality(Done(p, k)) \in Nat
    BY <2>1, FS_CardinalityType
  <2>5. Cardinality(Done(p, k)) <= Cardinality(Nodes)
    BY <2>3, FS_Subset
  <2>6. Cardinality(Handled(p)) <= Cardinality(Done(p, k))
    BY <2>1, <2>2, FS_Subset
  <2> QED
    BY <2>3, <2>4, <2>5, <2>6
<1>5. \A k \in 0..(n - 1) : Cardinality(Done(p, k + 1)) = Cardinality(Done(p, k)) + 1
  BY <1>0, <1>2, DoneMore
<1> QED
  BY <1>3, <1>4, <1>5, Zenon

LEMMA TargetAt ==
    ASSUME NEW u, NEW m \in ImportsOf(u)
    PROVE  TargetOf(u)[m.path] = Target(u, m) /\ Target(u, m) \in Targets(u)
<1>1. m.path \in {n.path : n \in ImportsOf(u)}
  OBVIOUS
<1>2. TargetOf(u)[m.path] = AbsolutePath(m.path, u)
  BY <1>1 DEF TargetOf
<1> QED
  BY <1>2 DEF Target, Targets

\* B[k] is what unit u with this scope may have after k of its nodes.
Below(sc, u, nodes, seen, B) ==
    /\ Pairs(sc[u]) \subseteq B[0] /\ B[Len(nodes)] = SeenBy(u, seen)
    /\ \A k \in 0..(Len(nodes) - 1) :
           B[k] \subseteq B[k + 1] /\ Room(sc, u, TargetOf(u), nodes[k + 1], B[k + 1], B[k])

LEMMA ImportsNoMore ==
    ASSUME FilesOK, Ordered, NEW p \in 1..Len(order), NEW sc,
           \A j \in 1..(p - 1) : ImportedOK(sc, j), \A j \in p..Len(order) : DeclaredOK(sc, j),
           NEW f, IsSeen(f)
    PROVE  \E B : Below(sc, order[p], NodesOf(order[p]), f[Cardinality(Handled(p + 1))], B)
<1> DEFINE C(k) == Cardinality(Done(p, k))
<1>a. PICK u, nodes, target : u = order[p] /\ nodes = NodesOf(u) /\ target = TargetOf(u)
  OBVIOUS
<1>b. PICK n : n = Len(nodes)
  OBVIOUS
<1>0. u \in Units /\ Len(order) \in Nat /\ n \in Nat /\ DOMAIN nodes = 1..n
  BY <1>a, <1>b, UnitAt
<1>c. PICK B : B = [k \in 0..n |-> SeenBy(u, f[C(k)])]
  OBVIOUS
<1>1. PICK N : N = Cardinality(Nodes)
  OBVIOUS
<1>2. N \in Nat /\ Rounds("seen", f, N)
  BY <1>1, HandledAll DEF IsSeen
<1>3. /\ C(0) = Cardinality(Handled(p)) /\ C(n) = Cardinality(Handled(p + 1))
      /\ \A k \in 0..n : C(k) \in 0..N /\ Cardinality(Handled(p)) <= C(k)
      /\ \A k \in 0..(n - 1) : C(k + 1) = C(k) + 1
  BY <1>1, <1>a, <1>b, Counts
<1>4. \A k \in 0..n : B[k] = SeenBy(u, f[C(k)])
  BY <1>c
<1> HIDE DEF C
<1>5. Pairs(sc[u]) \subseteq B[0]
  <2>1. p \in p..Len(order)
    BY <1>0
  <2>2. Pairs(sc[u]) = SeenBy(u, Start)
    BY <1>0, <1>a, <2>1, StartIs DEF DeclaredOK
  <2>3. 0 \in 0..N /\ 0 \in 0..n /\ C(0) \in 0..N /\ 0 <= C(0)
    BY <1>0, <1>2, <1>3
  <2>4. Start \subseteq f[C(0)]
    BY <1>2, <2>3, SeenGrows, RoundsAre
  <2> QED
    BY <1>4, <2>2, <2>3, <2>4, SeenByMore
<1>6. ASSUME NEW k \in 0..(n - 1)
      PROVE  B[k] \subseteq B[k + 1] /\ Room(sc, u, target, nodes[k + 1], B[k + 1], B[k])
  <2>1. k \in 0..n /\ k + 1 \in 0..n /\ k + 1 \in 1..n
    BY <1>0
  <2>2. PICK c : c = C(k)
    OBVIOUS
  <2>3. c \in 0..N /\ c + 1 \in 0..N /\ C(k + 1) = c + 1 /\ Cardinality(Handled(p)) <= c
    BY <1>3, <2>1, <2>2
  <2>4. c \in 0..(N - 1)
    BY <1>2, <2>3
  <2>5. f[c + 1] = Spread(f[c])
    BY <1>2, <2>4, RoundsAre
  <2>6. B[k] = SeenBy(u, f[c]) /\ B[k + 1] = SeenBy(u, Spread(f[c]))
    BY <1>4, <2>1, <2>2, <2>3, <2>5
  <2>7. f[c] \subseteq Spread(f[c])
    BY DEF Spread
  <2>8. B[k] \subseteq B[k + 1]
    BY <2>6, <2>7, SeenByMore
  <2>9. PICK m : m = nodes[k + 1]
    OBVIOUS
  <2>10. ASSUME m.kind = "import"
         PROVE  PassedOn(m, IF target[m.path] = u THEN B[k] ELSE Pairs(sc[target[m.path]])) \subseteq B[k + 1]
    <3>1. m \in ImportsOf(u)
      BY <1>0, <1>a, <2>1, <2>9, <2>10 DEF ImportsOf, ToSet
    <3>2. PICK v : v = target[m.path]
      OBVIOUS
    <3>3. v = Target(u, m) /\ v \in Units
      BY <1>0, <1>a, <3>1, <3>2, TargetAt DEF Ordered, AllWhole
    <3>4. PassedOn(m, SeenBy(v, f[c])) \subseteq B[k + 1]
      BY <1>0, <2>6, <3>1, <3>3, SpreadIs
    <3>5. CASE v = u
      BY <2>6, <3>2, <3>4, <3>5
    <3>6. CASE v # u
      <4>1. Pairs(sc[v]) \subseteq SeenBy(v, f[c])
        BY <1>1, <1>a, <2>3, <3>3, <3>6, FromOthers
      <4>2. PassedOn(m, Pairs(sc[v])) \subseteq PassedOn(m, SeenBy(v, f[c]))
        BY <4>1, PassedOnMore
      <4> QED
        BY <3>2, <3>4, <3>6, <4>2
    <3> QED
      BY <3>5, <3>6
  <2>11. Room(sc, u, target, m, B[k + 1], B[k])
    BY <2>10 DEF Room
  <2> QED
    BY <2>8, <2>9, <2>11
<1>7. B[n] = SeenBy(u, f[Cardinality(Handled(p + 1))])
  <2>1. n \in 0..n
    BY <1>0
  <2> QED
    BY <1>3, <1>4, <2>1
<1>8. Below(sc, u, nodes, f[Cardinality(Handled(p + 1))], B)
  BY <1>a, <1>b, <1>5, <1>6, <1>7 DEF Below
<1> QED
  BY <1>a, <1>8

LEMMA ImportsOne ==
    ASSUME FilesOK, Ordered, NEW p \in 1..Len(order), NEW sc,
           \A j \in 1..(p - 1) : ImportedOK(sc, j), \A j \in p..Len(order) : DeclaredOK(sc, j),
           NEW r, r = WithImports(sc, order[p], NodesOf(order[p]), TargetOf(order[p])), ~r.error,
           NEW more, more = [sc EXCEPT ![order[p]] = r.scope]
    PROVE  /\ \A j \in 1..p : ImportedOK(more, j)
           /\ \A j \in (p + 1)..Len(order) : DeclaredOK(more, j)
<1>0. PICK u, nodes, target, n : /\ u = order[p] /\ nodes = NodesOf(u) /\ target = TargetOf(u)
                                 /\ n = Len(nodes)
  OBVIOUS
<1>1. u \in Units /\ Len(order) \in Nat /\ n \in Nat /\ DOMAIN nodes = 1..n
  BY <1>0, UnitAt
<1>2. \A j \in 1..Len(order) : j # p => order[j] # u
  BY <1>0, UnitAt
<1>3. p \in p..Len(order)
  BY <1>1
<1>4. u \in DOMAIN sc /\ sc[u] = Declared(u, nodes)
  BY <1>0, <1>3 DEF DeclaredOK
<1>5. more[u] = r.scope /\ DOMAIN more = DOMAIN sc /\ \A j \in 1..Len(order) : j # p => more[order[j]] = sc[order[j]]
  BY <1>0, <1>2, <1>4
<1>6. r = WithImports(sc, u, nodes, target)
  BY <1>0
<1>7. ASSUME NEW f, IsSeen(f)
      PROVE  /\ Pairs(r.scope) \subseteq SeenBy(u, f[Cardinality(Handled(p + 1))])
             /\ Pairs(sc[u]) \subseteq Pairs(r.scope)
             /\ \A i \in 1..n : nodes[i].kind = "import" /\ target[nodes[i].path] # u =>
                    Brings(sc, target, nodes[i], r)
  <2>1. PICK B : Below(sc, order[p], NodesOf(order[p]), f[Cardinality(Handled(p + 1))], B)
    BY <1>7, ImportsNoMore
  <2>2. Pairs(sc[u]) \subseteq B[0] /\ B[n] = SeenBy(u, f[Cardinality(Handled(p + 1))])
    BY <1>0, <2>1 DEF Below
  <2>3. \A k \in 0..(n - 1) : B[k] \subseteq B[k + 1] /\ Room(sc, u, target, nodes[k + 1], B[k + 1], B[k])
    BY <1>0, <2>1 DEF Below
  <2>4. n \in Nat
    BY <1>1
  <2>5. DOMAIN nodes = 1..n
    BY <1>1
  <2>6. Pairs(sc[u]) \subseteq B[0]
    BY <2>2
  <2>7. /\ Pairs(r.scope) \subseteq B[n]
        /\ ~r.error => /\ Pairs(sc[u]) \subseteq Pairs(r.scope)
                       /\ \A i \in 1..n : nodes[i].kind = "import" /\ target[nodes[i].path] # u =>
                              Brings(sc, target, nodes[i], r)
    BY <1>6, <2>3, <2>4, <2>5, <2>6, ImportsAdd, Zenon
  <2> QED
    BY <2>2, <2>7
<1>8. \E f : IsSeen(f)
  BY HandledAll, RoundsExist DEF IsSeen
<1>9. NoMore(more, p)
  BY <1>0, <1>5, <1>7 DEF NoMore
<1>10. NoLess(more, p)
  <2>1. Pairs(sc[u]) \subseteq Pairs(r.scope)
    BY <1>7, <1>8
  <2>2. Pairs(Declared(u, nodes)) \subseteq Pairs(more[u])
    BY <1>4, <1>5, <2>1
  <2>3. ASSUME NEW m \in ImportsOf(u), NEW j \in 1..(p - 1), order[j] = Target(u, m)
        PROVE  PassedOn(m, Pairs(more[order[j]])) \subseteq Pairs(more[u])
    <3>1. j \in 1..Len(order) /\ j # p
      BY <1>1
    <3>2. order[j] # u /\ more[order[j]] = sc[order[j]] /\ target[m.path] = order[j]
      BY <1>0, <1>2, <1>5, <2>3, <3>1, TargetAt
    <3>3. m \in ToSet(nodes) /\ m.kind = "import"
      BY <1>0 DEF ImportsOf
    <3>4. PICK i \in 1..n : nodes[i] = m
      BY <1>1, <3>3 DEF ToSet
    <3>5. Brings(sc, target, m, r)
      BY <1>7, <1>8, <3>2, <3>3, <3>4
    <3> QED
      BY <1>5, <3>2, <3>5 DEF Brings
  <2> QED
    BY <1>0, <2>2, <2>3 DEF NoLess
<1>11. ASSUME NEW j \in 1..(p - 1) PROVE ImportedOK(more, j)
  <2>1. \A i \in 1..j : i \in 1..Len(order) /\ i # p
    BY <1>1
  <2>2. \A i \in 1..j : more[order[i]] = sc[order[i]]
    BY <1>5, <2>1
  <2>3. j \in 1..j /\ \A i \in 1..(j - 1) : i \in 1..j
    OBVIOUS
  <2>4. NoMore(sc, j) /\ NoLess(sc, j)
    BY DEF ImportedOK
  <2>5. NoMore(more, j)
    BY <2>2, <2>3, <2>4 DEF NoMore
  <2>6. NoLess(more, j)
    BY <2>2, <2>3, <2>4 DEF NoLess
  <2> QED
    BY <2>5, <2>6 DEF ImportedOK
<1>12. ASSUME NEW j \in (p + 1)..Len(order) PROVE DeclaredOK(more, j)
  <2>1. j \in p..Len(order) /\ j \in 1..Len(order) /\ j # p
    BY <1>1
  <2> QED
    BY <1>5, <2>1 DEF DeclaredOK
<1>13. \A j \in 1..p : j \in 1..(p - 1) \/ j = p
  OBVIOUS
<1> QED
  BY <1>9, <1>10, <1>11, <1>12, <1>13 DEF ImportedOK

-----------------------------------------------------------------------------
(* The scopes as the passes go on.                                         *)

LEMMA RoundsStay ==
    ASSUME sources' = sources
    PROVE  \A f : IsSeen(f)' <=> IsSeen(f)
<1>1. /\ Units' = Units /\ \A u : NodesOf(u)' = NodesOf(u) /\ ImportsOf(u)' = ImportsOf(u)
      /\ \A u, m : Target(u, m)' = Target(u, m)
  BY DEF Units, NodesOf, ImportsOf, Target
<1>2. Nodes' = Nodes
  BY DEF Nodes, Units, NodesOf
<1>3. Start' = Start
  BY DEF Start, Units, NodesOf
<1>4. \A seen : Spread(seen)' = Spread(seen)
  BY DEF Spread, Units, ImportsOf, NodesOf, Target
<1>5. \A f, k : Round("seen", f[k - 1], k)' = Round("seen", f[k - 1], k)
  BY <1>3, <1>4 DEF Round
<1>6. ASSUME NEW f, NEW N PROVE Rounds("seen", f, N)' <=> Rounds("seen", f, N)
  <2>1. [k \in 0..N |-> Round("seen", f[k - 1], k)'] = [k \in 0..N |-> Round("seen", f[k - 1], k)]
    BY <1>5
  <2> QED
    BY <2>1 DEF Rounds
<1>7. PICK N : N = Cardinality(Nodes)
  OBVIOUS
<1>8. Cardinality(Nodes)' = N
  BY <1>2, <1>7
<1> QED
  BY <1>6, <1>7, <1>8 DEF IsSeen

LEMMA ScopesStay ==
    ASSUME UNCHANGED <<sources, order>>
    PROVE  /\ Ordered => Ordered'
           /\ \A sc, i : ImportedOK(sc, i) => ImportedOK(sc, i)'
           /\ \A sc, i : DeclaredOK(sc, i) => DeclaredOK(sc, i)'
<1>1. /\ Units' = Units /\ \A u : NodesOf(u)' = NodesOf(u) /\ ImportsOf(u)' = ImportsOf(u) /\ Targets(u)' = Targets(u)
      /\ \A u, m : Target(u, m)' = Target(u, m)
  BY DEF Units, NodesOf, ImportsOf, Target, Targets
<1>2. \A u : Reach(u)' = Reach(u)
  BY ReachStays
<1>3. \A i : Handled(i)' = Handled(i)
  BY DEF Handled, NodesOf
<1>4. Ordered => Ordered'
  <2>1. ImportsFirst(order)' = ImportsFirst(order)
    BY <1>1, <1>2 DEF ImportsFirst
  <2>2. AllWhole' = AllWhole
    BY <1>1 DEF AllWhole
  <2> QED
    BY <1>1, <2>1, <2>2 DEF Ordered
<1>5. ASSUME NEW sc, NEW i, ImportedOK(sc, i) PROVE ImportedOK(sc, i)'
  <2>1. NoMore(sc, i) /\ NoLess(sc, i)
    BY <1>5 DEF ImportedOK
  <2>2. NoMore(sc, i)'
    <3>1. Handled(i + 1)' = Handled(i + 1)
      BY <1>3
    <3> QED
      BY <2>1, <3>1, RoundsStay DEF NoMore
  <2>3. NoLess(sc, i)'
    BY <1>1, <2>1 DEF NoLess
  <2> QED
    BY <2>2, <2>3 DEF ImportedOK
<1>6. ASSUME NEW sc, NEW i, DeclaredOK(sc, i) PROVE DeclaredOK(sc, i)'
  BY <1>1, <1>6 DEF DeclaredOK
<1> QED
  BY <1>4, <1>5, <1>6

ScopesOK ==
    Analysing \/ pass > 4 =>
        /\ Ordered
        /\ \A i \in 1..Len(order) : /\ pass > 4 \/ (pass = 4 /\ i < pos) => ImportedOK(scopes, i)
                                    /\ (pass = 4 /\ i >= pos) \/ (pass = 3 /\ i < pos) => DeclaredOK(scopes, i)

LEMMA ScopesMove ==
    ASSUME UNCHANGED <<sources, order>>, NEW sc, sc = scopes', Ordered,
           \A i \in 1..Len(order) :
               /\ pass' > 4 \/ (pass' = 4 /\ i < pos') => ImportedOK(sc, i)
               /\ (pass' = 4 /\ i >= pos') \/ (pass' = 3 /\ i < pos') => DeclaredOK(sc, i)
    PROVE  ScopesOK'
<1>1. Ordered'
  BY ScopesStay
<1>2. \A i \in 1..Len(order) :
          /\ pass' > 4 \/ (pass' = 4 /\ i < pos') => ImportedOK(sc, i)'
          /\ (pass' = 4 /\ i >= pos') \/ (pass' = 3 /\ i < pos') => DeclaredOK(sc, i)'
  BY ScopesStay
<1> QED
  BY <1>1, <1>2 DEF ScopesOK

LEMMA ScopesNext == ASSUME Loaded, OrderOK, PlaceOK, ScopesOK, [Next]_vars PROVE ScopesOK'
<1>1. ASSUME UNCHANGED <<sources, order, scopes>>, Analysing \/ pass > 4,
             \/ UNCHANGED <<pass, pos>>
             \/ Forward /\ (pass < 3 \/ pass > 4) /\ pass \in Nat /\ pos \in 1..Len(order)
      PROVE  ScopesOK'
  <2>1. PICK sc : sc = scopes'
    OBVIOUS
  <2>2. Ordered /\ \A i \in 1..Len(order) :
            /\ pass > 4 \/ (pass = 4 /\ i < pos) => ImportedOK(sc, i)
            /\ (pass = 4 /\ i >= pos) \/ (pass = 3 /\ i < pos) => DeclaredOK(sc, i)
    BY <1>1, <2>1 DEF ScopesOK
  <2>3. CASE UNCHANGED <<pass, pos>>
    BY <1>1, <2>1, <2>2, <2>3, ScopesMove
  <2>4. CASE Forward /\ (pass < 3 \/ pass > 4) /\ pass \in Nat /\ pos \in 1..Len(order)
    <3>1. /\ pass' > 4 => pass > 4
          /\ pass' # 4
          /\ pass' = 3 => pos' = 1
      BY <2>4 DEF Forward
    <3>2. \A i \in 1..Len(order) : ~(i < 1)
      OBVIOUS
    <3> QED
      BY <1>1, <2>1, <2>2, <3>1, <3>2, ScopesMove
  <2> QED
    BY <1>1, <2>3, <2>4
<1>2. ASSUME ~Analysing', ~(pass' > 4) PROVE ScopesOK'
  BY <1>2 DEF ScopesOK
<1>3. CASE ReadMain
  BY <1>2, <1>3 DEF ReadMain, PlaceOK, Analysing
<1>4. CASE Parse
  BY <1>2, <1>4 DEF Parse, PlaceOK, Analysing
<1>5. CASE ParsingDone
  BY <1>2, <1>5 DEF ParsingDone, PlaceOK, Analysing
<1>6. CASE ResolveImports
  <2>1. stage = "parsed" /\ stage' = "analysing" /\ pass' = 1 /\ pass = 1
    BY <1>6 DEF ResolveImports, PlaceOK
  <2>2. Loaded' /\ OrderOK'
    BY LoadedNext, OrderNext
  <2>3. Analysing' /\ AllWhole'
    BY <2>1, <2>2, WholeIs DEF Analysing, Loaded, WholeOK, Whole, AllWhole
  <2>4. Ordered'
    BY <2>2, <2>3 DEF OrderOK, Ordered
  <2> QED
    BY <2>1, <2>4 DEF ScopesOK
<1>7. ASSUME NEW p \in Checks, Check(p) PROVE ScopesOK'
  <2>1. Running(p) /\ (Forward \/ GiveUp) /\ p \notin {"register", "import"} /\ UNCHANGED <<sources, order, scopes>>
    BY <1>7 DEF Check, Checks
  <2>2. pass \in 1..13 /\ pass # 3 /\ pass # 4 /\ Analysing /\ pos \in 1..Len(order)
    BY <2>1, RunningIs DEF Analysing
  <2> QED
    BY <1>1, <2>1, <2>2 DEF GiveUp
<1>8. CASE RegisterDeclarations
  <2>1. /\ pass = 3 /\ Analysing /\ pos \in 1..Len(order) /\ Forward /\ UNCHANGED <<sources, order>>
        /\ scopes' = With(scopes, Unit, Declared(Unit, NodesOf(Unit)))
    BY <1>8, RunningIs DEF RegisterDeclarations, Analysing
  <2>2. PICK sc, u : sc = scopes' /\ u = Unit
    OBVIOUS
  <2>3. u = order[pos] /\ Ordered /\ FilesOK
    BY <2>1, <2>2 DEF ScopesOK, Unit, Loaded
  <2>4. /\ u \in DOMAIN sc /\ sc[u] = Declared(u, NodesOf(u)) /\ DOMAIN scopes \subseteq DOMAIN sc
        /\ \A v \in DOMAIN scopes : v # u => sc[v] = scopes[v]
    BY <2>1, <2>2 DEF With
  <2>5. \A i \in 1..pos : DeclaredOK(sc, i)
    <3>1. DeclaredOK(sc, pos)
      BY <2>3, <2>4 DEF DeclaredOK
    <3>2. ASSUME NEW i \in 1..(pos - 1) PROVE DeclaredOK(sc, i)
      <4>1. i \in 1..Len(order) /\ i < pos /\ i # pos /\ Len(order) \in Nat
        BY <2>1, <2>3, UnitAt
      <4>2. order[i] # u
        BY <2>1, <2>3, <4>1, UnitAt
      <4>3. DeclaredOK(scopes, i)
        BY <2>1, <4>1 DEF ScopesOK
      <4> QED
        BY <2>4, <4>2, <4>3 DEF DeclaredOK
    <3>3. \A i \in 1..pos : i \in 1..(pos - 1) \/ i = pos
      BY <2>1
    <3> QED
      BY <3>1, <3>2, <3>3
  <2>6. Len(order) \in Nat
    BY <2>1, <2>3, UnitAt
  <2>7. CASE pos < Len(order)
    <3>1. pass' = 3 /\ pos' = pos + 1
      BY <2>1, <2>7 DEF Forward
    <3>2. \A i \in 1..Len(order) : i < pos + 1 => i \in 1..pos
      BY <2>1, <2>6
    <3> QED
      BY <2>1, <2>2, <2>3, <2>5, <3>1, <3>2, ScopesMove
  <2>8. CASE ~(pos < Len(order))
    <3>1. pass' = 4 /\ pos' = 1 /\ pos = Len(order)
      BY <2>1, <2>6, <2>8 DEF Forward
    <3>2. \A i \in 1..Len(order) : i \in 1..pos /\ ~(i < 1)
      BY <2>6, <3>1
    <3> QED
      BY <2>1, <2>2, <2>3, <2>5, <3>1, <3>2, ScopesMove
  <2> QED
    BY <2>7, <2>8
<1>9. CASE PerformImports
  <2>1. PICK r : /\ r = WithImports(scopes, Unit, NodesOf(Unit), TargetOf(Unit))
                 /\ scopes' = [scopes EXCEPT ![Unit] = r.scope]
                 /\ IF r.error THEN GiveUp ELSE Forward
    BY <1>9 DEF PerformImports
  <2>2. pass = 4 /\ stage = "analysing" /\ Analysing /\ pos \in 1..Len(order) /\ UNCHANGED <<sources, order>>
    BY <1>9, RunningIs DEF PerformImports, Analysing
  <2>3. CASE r.error
    <3>1. stage' = "rejected" /\ pass' = 4
      BY <2>1, <2>2, <2>3 DEF GiveUp
    <3> QED
      BY <1>2, <3>1 DEF Analysing
  <2>4. CASE ~r.error
    <3>1. PICK sc, more, p : sc = scopes /\ more = scopes' /\ p = pos
      OBVIOUS
    <3>2. Ordered /\ FilesOK /\ p \in 1..Len(order) /\ Len(order) \in Nat
      BY <2>2, <3>1, UnitAt DEF ScopesOK, Loaded
    <3>3. /\ \A j \in 1..(p - 1) : ImportedOK(sc, j)
          /\ \A j \in p..Len(order) : DeclaredOK(sc, j)
      <4>1. \A j \in 1..(p - 1) : j \in 1..Len(order) /\ j < p
        BY <3>2
      <4>2. \A j \in p..Len(order) : j \in 1..Len(order) /\ j >= p
        BY <3>2
      <4> QED
        BY <2>2, <3>1, <4>1, <4>2 DEF ScopesOK
    <3>4. /\ r = WithImports(sc, order[p], NodesOf(order[p]), TargetOf(order[p]))
          /\ more = [sc EXCEPT ![order[p]] = r.scope]
      BY <2>1, <3>1 DEF Unit
    <3>5. /\ \A j \in 1..p : ImportedOK(more, j)
          /\ \A j \in (p + 1)..Len(order) : DeclaredOK(more, j)
      BY <2>4, <3>2, <3>3, <3>4, ImportsOne
    <3>6. CASE pos < Len(order)
      <4>1. pass' = 4 /\ pos' = p + 1
        BY <2>1, <2>2, <2>4, <3>1, <3>6 DEF Forward
      <4>2. \A i \in 1..Len(order) : (i < p + 1 => i \in 1..p) /\ (i >= p + 1 => i \in (p + 1)..Len(order))
        BY <3>2
      <4> QED
        BY <2>2, <3>1, <3>2, <3>5, <4>1, <4>2, ScopesMove
    <3>7. CASE ~(pos < Len(order))
      <4>1. pass' = 5 /\ p = Len(order)
        BY <2>1, <2>2, <2>4, <3>1, <3>2, <3>7 DEF Forward
      <4> QED
        BY <2>2, <3>1, <3>2, <3>5, <4>1, ScopesMove
    <3> QED
      BY <3>6, <3>7
  <2> QED
    BY <2>3, <2>4
<1>10. CASE ResolveNames
  <2>1. /\ pass = 5 /\ Analysing /\ pos \in 1..Len(order) /\ (Forward \/ GiveUp)
        /\ UNCHANGED <<sources, order, scopes>>
    BY <1>10, RunningIs DEF ResolveNames, Analysing
  <2> QED
    BY <1>1, <2>1 DEF GiveUp
<1>11. CASE CheckMutability
  <2>1. pass = 12 /\ pass' = 13 /\ UNCHANGED <<sources, order, scopes>>
    BY <1>11, RunningIs DEF CheckMutability
  <2>2. PICK sc : sc = scopes'
    OBVIOUS
  <2>3. Ordered /\ \A i \in 1..Len(order) : ImportedOK(sc, i)
    BY <2>1, <2>2 DEF ScopesOK
  <2> QED
    BY <2>1, <2>2, <2>3, ScopesMove
<1>12. CASE Leave
  BY <1>1, <1>12 DEF Leave, Analysing
<1>13. CASE RunEngine
  BY <1>1, <1>13 DEF RunEngine, Analysing
<1>14. CASE UNCHANGED vars
  <2>1. CASE Analysing \/ pass > 4
    BY <1>1, <1>14, <2>1 DEF vars
  <2>2. CASE ~(Analysing \/ pass > 4)
    BY <1>2, <1>14, <2>2 DEF vars, Analysing
  <2> QED
    BY <2>1, <2>2
<1> QED
  BY <1>3, <1>4, <1>5, <1>6, <1>7, <1>8, <1>9, <1>10, <1>11, <1>12, <1>13, <1>14 DEF Next, Over

\* Where imports lead from what is imported, they lead from the unit.
LEMMA ReachOn ==
    ASSUME AllWhole, NEW u \in Units, NEW v \in Targets(u)
    PROVE  /\ v \in Units /\ Reach(v) \subseteq Reach(u)
           /\ ~Cyclic(u) => ~Cyclic(v) /\ u \notin Reach(v)
<1>1. v \in Units /\ v \in Reach(u) /\ \A o \in Units : u \in Reach(o) => v \in Reach(o)
  BY ReachTargets DEF AllWhole
<1>2. Reach(v) \subseteq Reach(u)
  <2> SUFFICES ASSUME NEW w \in Reach(v), NEW S \in SUBSET Units,
                      Targets(u) \cup UNION {Targets(x) : x \in S} \subseteq S
               PROVE  w \in S
    BY DEF Reach
  <2>1. Targets(v) \cup UNION {Targets(x) : x \in S} \subseteq S
    OBVIOUS
  <2> QED
    BY <2>1 DEF Reach
<1>3. ASSUME ~Cyclic(u) PROVE ~Cyclic(v) /\ u \notin Reach(v)
  <2>1. \A w \in Reach(u) : w \notin Reach(w)
    BY <1>3 DEF Cyclic
  <2> QED
    BY <1>1, <1>2, <2>1 DEF Cyclic
<1> QED
  BY <1>1, <1>2, <1>3

LEMMA ScopesAre == ASSUME Loaded, ScopesOK PROVE ScopesRight
<1> SUFFICES ASSUME pass > 4
             PROVE  \A u \in Units :
                        /\ Pairs(scopes[u]) \subseteq SeenBy(u, Seen[Cardinality(Nodes)])
                        /\ ~Cyclic(u) => Pairs(scopes[u]) = SeenBy(u, Seen[Cardinality(Nodes)])
  BY Zenon DEF ScopesRight
<1>1. FilesOK /\ Ordered /\ AllWhole /\ \A i \in 1..Len(order) : NoMore(scopes, i) /\ NoLess(scopes, i)
  BY DEF Loaded, ScopesOK, Ordered, ImportedOK
<1>2. PICK N : N = Cardinality(Nodes)
  OBVIOUS
<1>3. PICK f : f = Seen
  OBVIOUS
<1>4. N \in Nat /\ Rounds("seen", f, N) /\ IsSeen(f)
  BY <1>1, <1>2, <1>3, HandledAll, SeenIs DEF IsSeen
<1>5. Len(order) \in Nat /\ \A u \in Units : \E i \in 1..Len(order) : order[i] = u
  BY <1>1, LenProperties, SeqRange DEF Ordered
<1>6. ASSUME NEW u \in Units PROVE Pairs(scopes[u]) \subseteq SeenBy(u, f[N])
  <2>1. PICK i \in 1..Len(order) : order[i] = u
    BY <1>5
  <2>2. i + 1 \in 1..(Len(order) + 1)
    BY <1>5
  <2>3. PICK b : b = Cardinality(Handled(i + 1))
    OBVIOUS
  <2>4. b \in 0..N /\ N \in 0..N /\ b <= N
    BY <1>1, <1>2, <1>4, <2>2, <2>3, HandledAll
  <2>5. f[b] \subseteq f[N]
    BY <1>4, <2>4, SeenGrows
  <2>6. Pairs(scopes[u]) \subseteq SeenBy(u, f[b])
    BY <1>1, <1>4, <2>1, <2>3 DEF NoMore
  <2> QED
    BY <2>5, <2>6, SeenByMore
<1> DEFINE S == {n \in Nat : n <= N => \A u \in Units : ~Cyclic(u) => SeenBy(u, f[n]) \subseteq Pairs(scopes[u])}
<1>7. 0 \in S
  <2> SUFFICES ASSUME NEW u \in Units PROVE SeenBy(u, f[0]) \subseteq Pairs(scopes[u])
    OBVIOUS
  <2>1. PICK i \in 1..Len(order) : order[i] = u
    BY <1>5
  <2> QED
    BY <1>1, <1>4, <2>1, StartIs, RoundsAre DEF NoLess
<1>8. ASSUME NEW n \in Nat, n \in S PROVE n + 1 \in S
  <2> SUFFICES ASSUME n + 1 <= N, NEW u \in Units, ~Cyclic(u), NEW x \in SeenBy(u, f[n + 1])
               PROVE  x \in Pairs(scopes[u])
    OBVIOUS
  <2>1. PICK seen : seen = f[n]
    OBVIOUS
  <2>2. n \in 0..(N - 1) /\ n <= N
    BY <1>4
  <2>3. \A v \in Units : ~Cyclic(v) => SeenBy(v, seen) \subseteq Pairs(scopes[v])
    BY <1>8, <2>1, <2>2
  <2>4. f[n + 1] = Spread(seen)
    BY <1>4, <2>1, <2>2, RoundsAre
  <2>5. CASE x \in SeenBy(u, seen)
    BY <2>3, <2>5
  <2>6. CASE x \notin SeenBy(u, seen)
    <3>1. PICK m \in ImportsOf(u) : x \in PassedOn(m, SeenBy(Target(u, m), seen))
      BY <2>4, <2>6, SpreadIs
    <3>2. PICK v : v = Target(u, m)
      OBVIOUS
    <3>3. v \in Targets(u)
      BY <3>2, TargetAt
    <3>4. v \in Units /\ ~Cyclic(v) /\ u \notin Reach(v)
      BY <1>1, <3>3, ReachOn
    <3>5. x \in PassedOn(m, Pairs(scopes[v]))
      BY <2>3, <3>1, <3>2, <3>4, PassedOnMore
    <3>6. PICK i \in 1..Len(order) : order[i] = u
      BY <1>5
    <3>7. DOMAIN order = 1..Len(order)
      BY <1>1, LenProperties DEF Ordered
    <3>8. PICK j \in 1..(i - 1) : order[j] = v
      BY <1>1, <3>3, <3>4, <3>6, <3>7 DEF Ordered, ImportsFirst
    <3> QED
      BY <1>1, <3>2, <3>5, <3>6, <3>8 DEF NoLess
  <2> QED
    BY <2>5, <2>6
<1> HIDE DEF S
<1>9. Nat \subseteq S
  BY <1>7, <1>8, NatSetInduction
<1>10. \A u \in Units : ~Cyclic(u) => SeenBy(u, f[N]) \subseteq Pairs(scopes[u])
  <2>1. N \in S /\ N <= N
    BY <1>4, <1>9
  <2> QED
    BY <2>1 DEF S
<1>11. \A u \in Units : /\ Pairs(scopes[u]) \subseteq SeenBy(u, f[N])
                        /\ ~Cyclic(u) => Pairs(scopes[u]) = SeenBy(u, f[N])
  BY <1>6, <1>10
<1> QED
  BY <1>2, <1>3, <1>11

(* performImports: for all projects, what a unit sees when all imports are *)
(* performed is what it declares or some chain of imports leads to, under  *)
(* the names the chain gives; and it is all of that as long as no chain    *)
(* from it leads into a cycle, whatever the order of the files.            *)
THEOREM ScopesAreRight == Spec => []ScopesRight
<1> DEFINE I == StackOK /\ ScopesOK
<1>1. Init => I
  <2> SUFFICES ASSUME Init PROVE I
    OBVIOUS
  <2>1. ScopesOK
    BY DEF Init, ScopesOK, Analysing
  <2> QED
    BY <2>1, StackInit
<1>2. I /\ [Next]_vars => I'
  BY StackNext, ScopesNext DEF StackOK
<1>3. I => ScopesRight
  BY ScopesAre DEF StackOK
<1> QED
  BY <1>1, <1>2, <1>3, PTL DEF Spec

-----------------------------------------------------------------------------
(* What a function that is declared view or pure leads to.                 *)

LEMMA RankIs ==
    /\ ToSet(Levels) = {"pure", "view", "nonpayable", "payable"}
    /\ Rank("pure") = 1 /\ Rank("view") = 2 /\ Rank("nonpayable") = 3 /\ Rank("payable") = 4
<1>1. Len(Levels) = 4 /\ DOMAIN Levels = 1..4
  BY DEF Levels
<1>2. /\ Levels[1] = "pure" /\ Levels[2] = "view" /\ Levels[3] = "nonpayable" /\ Levels[4] = "payable"
      /\ \A k \in 1..4 : k = 1 \/ k = 2 \/ k = 3 \/ k = 4
  BY DEF Levels
<1>3. ToSet(Levels) = {"pure", "view", "nonpayable", "payable"}
  <2>1. ToSet(Levels) = {Levels[k] : k \in 1..4}
    BY <1>1 DEF ToSet
  <2>2. {Levels[k] : k \in 1..4} \subseteq {"pure", "view", "nonpayable", "payable"}
    BY <1>2
  <2>3. 1 \in 1..4 /\ 2 \in 1..4 /\ 3 \in 1..4 /\ 4 \in 1..4
    OBVIOUS
  <2>4. {"pure", "view", "nonpayable", "payable"} \subseteq {Levels[k] : k \in 1..4}
    BY <1>2, <2>3
  <2> QED
    BY <2>1, <2>2, <2>4
<1>4. ASSUME NEW k \in 1..4 PROVE Rank(Levels[k]) = k
  <2> DEFINE I == {i \in 1..Len(Levels) : Levels[i] = Levels[k]}
  <2>1. I = {k}
    BY <1>1, <1>2
  <2>2. Rank(Levels[k]) = IF I # {} THEN Min(I) ELSE 0
    BY Zenon DEF Rank, SelectInSeq
  <2> HIDE DEF I
  <2>3. Min(I) \in I
    BY <2>1, MinIs
  <2> QED
    BY <2>1, <2>2, <2>3
<1>5. 1 \in 1..4 /\ 2 \in 1..4 /\ 3 \in 1..4 /\ 4 \in 1..4
  OBVIOUS
<1> QED
  BY <1>2, <1>3, <1>4, <1>5

LEMMA HighestIs ==
    ASSUME NEW levels, levels \subseteq ToSet(Levels), levels # {}
    PROVE  Highest(levels) \in levels /\ \A k \in levels : Rank(k) <= Rank(Highest(levels))
<1>1. \E l \in levels : \A k \in levels : Rank(k) <= Rank(l)
  <2>1. \A k \in levels : k \in {"pure", "view", "nonpayable", "payable"}
    BY RankIs
  <2>2. CASE "payable" \in levels
    BY <2>1, <2>2, RankIs
  <2>3. CASE "payable" \notin levels /\ "nonpayable" \in levels
    BY <2>1, <2>3, RankIs
  <2>4. CASE "payable" \notin levels /\ "nonpayable" \notin levels /\ "view" \in levels
    BY <2>1, <2>4, RankIs
  <2>5. CASE levels \subseteq {"pure"}
    <3>1. levels = {"pure"}
      BY <2>5
    <3> QED
      BY <3>1, RankIs
  <2> QED
    <3>1. \/ "payable" \in levels \/ "nonpayable" \in levels \/ "view" \in levels \/ levels \subseteq {"pure"}
      BY <2>1
    <3> QED
      BY <2>2, <2>3, <2>4, <2>5, <3>1
<1> QED
  BY <1>1 DEF Highest

\* The members of a contract.
LEMMA MemberIs ==
    ASSUME FilesOK, NEW d \in Contracts, NEW m \in ToSet(MembersOf(d))
    PROVE  /\ m.at = d /\ m.mut \in ToSet(Levels) /\ m.body \subseteq ToSet(Levels)
           /\ m.kind = "modifier" => m.mods = <<>>
<1>1. PICK u \in Units : d \in ContractsOf(u)
  BY DEF Contracts
<1>2. PICK i \in DOMAIN NodesOf(u) : NodesOf(u)[i].kind = "contract" /\ d = [unit |-> u, node |-> i]
  BY <1>1 DEF ContractsOf, Declaration
<1>3. PICK node : node = NodesOf(u)[i] /\ node = NodeOf(d)
  BY <1>2 DEF NodeOf
<1>4. node.kind = "contract" /\ node \in ToSet(NodesOf(u))
  BY <1>2, <1>3 DEF ToSet
<1>5. /\ project \in Projects /\ Canonical(u) \in DOMAIN project.disk
      /\ NodesOf(u) = project.disk[Canonical(u)].nodes
  BY NodesAre DEF FilesOK, NodesOf
<1>6. PICK j \in DOMAIN node.members : m = With(node.members[j], "at", d)
  BY <1>3 DEF MembersOf, ToSet
<1>7. PICK n : n = node.members[j]
  OBVIOUS
<1>8. /\ DOMAIN n = {"kind", "name", "params", "vis", "mut", "ret", "impl", "body", "calls", "mods"}
      /\ n.mut \in ToSet(Levels) /\ n.body \subseteq ToSet(Levels)
      /\ n.kind = "modifier" => n.mods = <<>>
  <2>1. n \in ToSet(node.members)
    BY <1>6, <1>7 DEF ToSet
  <2> QED
    BY <1>4, <1>5, <2>1, MembersAssumption
<1>9. m = [y \in DOMAIN n \cup {"at"} |-> IF y = "at" THEN d ELSE n[y]]
  BY <1>6, <1>7 DEF With
<1>10. m.at = d /\ m.mut = n.mut /\ m.body = n.body /\ m.kind = n.kind /\ m.mods = n.mods
  BY <1>8, <1>9
<1> QED
  BY <1>8, <1>10

LEMMA MembersSeq ==
    ASSUME FilesOK, NEW d \in Contracts
    PROVE  \E n \in Nat : DOMAIN MembersOf(d) = 1..n
<1>1. PICK u \in Units : d \in ContractsOf(u)
  BY DEF Contracts
<1>2. PICK i \in DOMAIN NodesOf(u) : NodesOf(u)[i].kind = "contract" /\ d = [unit |-> u, node |-> i]
  BY <1>1 DEF ContractsOf, Declaration
<1>3. PICK node : node = NodesOf(u)[i] /\ node = NodeOf(d)
  BY <1>2 DEF NodeOf
<1>4. node.kind = "contract" /\ node \in ToSet(NodesOf(u))
  BY <1>2, <1>3 DEF ToSet
<1>5. /\ project \in Projects /\ Canonical(u) \in DOMAIN project.disk
      /\ NodesOf(u) = project.disk[Canonical(u)].nodes
  BY NodesAre DEF FilesOK, NodesOf
<1>6. node.members \in Seq(ToSet(node.members))
  BY <1>4, <1>5, MembersAssumption
<1>7. DOMAIN MembersOf(d) = DOMAIN node.members
  BY <1>3 DEF MembersOf
<1> QED
  BY <1>6, <1>7, LenProperties

\* A chain is the members of the contracts of a linearization.
LEMMA ChainIs ==
    ASSUME FilesOK, LinesOK(linear), NEW d \in DOMAIN linear
    PROVE  /\ d \in Contracts /\ Chain(d)[1] = MembersOf(d)
           /\ \E n \in Nat : /\ DOMAIN Chain(d) = 1..n /\ 1 \in 1..n
                             /\ \A i \in 1..n : /\ linear[d][i] \in DOMAIN linear
                                                /\ Chain(d)[i] = MembersOf(linear[d][i])
           /\ \A m : m \in Everything(Chain(d)) <=> \E e \in ToSet(linear[d]) : m \in ToSet(MembersOf(e))
           /\ ToSet(linear[d]) \subseteq DOMAIN linear
<1>1. PICK l : l = linear[d]
  OBVIOUS
<1>2. d \in Contracts /\ l \in Seq(DOMAIN linear) /\ l # <<>> /\ l[1] = d
  BY <1>1 DEF LinesOK, LineOK
<1>3. PICK n : n = Len(l)
  OBVIOUS
<1>4. n \in Nat /\ 1 \in 1..n /\ DOMAIN l = 1..n /\ ToSet(l) \subseteq DOMAIN linear
      /\ \A i \in 1..n : l[i] \in DOMAIN linear
  BY <1>2, <1>3, EmptySeq, LenProperties, SeqRange, ElementOfSeq
<1>5. PICK chain : chain = Chain(d)
  OBVIOUS
<1>6. chain = [i \in 1..n |-> MembersOf(l[i])]
  BY <1>1, <1>4, <1>5 DEF Chain
<1>7. \A m : m \in Everything(chain) <=> \E i \in 1..n : m \in ToSet(chain[i])
  <2>1. ToSet(chain) = {chain[i] : i \in 1..n}
    BY <1>6 DEF ToSet
  <2> QED
    BY <2>1 DEF Everything
<1>8. ToSet(l) = {l[i] : i \in 1..n}
  BY <1>4 DEF ToSet
<1>9. \A m : m \in Everything(chain) <=> \E e \in ToSet(l) : m \in ToSet(MembersOf(e))
  BY <1>6, <1>7, <1>8
<1>10. chain[1] = MembersOf(d) /\ DOMAIN chain = 1..n /\ \A i \in 1..n : chain[i] = MembersOf(l[i])
  BY <1>2, <1>4, <1>6
<1> QED
  BY <1>1, <1>2, <1>4, <1>5, <1>9, <1>10

\* A member stands in a contract of the chain, and sees nothing that is not
\* in the chain.
LEMMA InChain ==
    ASSUME FilesOK, LinesOK(linear), NEW d \in DOMAIN linear, NEW m \in Everything(Chain(d))
    PROVE  /\ m.at \in DOMAIN linear /\ m.at \in Contracts
           /\ m \in ToSet(MembersOf(m.at)) /\ m \in ToSet(Chain(m.at)[1])
           /\ m.mut \in ToSet(Levels) /\ m.body \subseteq ToSet(Levels)
           /\ m.kind = "modifier" => m.mods = <<>>
           /\ Everything(Chain(m.at)) \subseteq Everything(Chain(d))
<1>1. PICK e \in ToSet(linear[d]) : m \in ToSet(MembersOf(e))
  BY ChainIs
<1>2. e \in DOMAIN linear /\ e \in Contracts
  BY <1>1, ChainIs
<1>3. /\ m.at = e /\ m.mut \in ToSet(Levels) /\ m.body \subseteq ToSet(Levels)
      /\ m.kind = "modifier" => m.mods = <<>>
  BY <1>1, <1>2, MemberIs
<1>4. ToSet(linear[e]) \subseteq ToSet(linear[d])
  BY <1>1 DEF LinesOK, LineOK
<1>5. Everything(Chain(e)) \subseteq Everything(Chain(d))
  <2> SUFFICES ASSUME NEW x \in Everything(Chain(e)) PROVE x \in Everything(Chain(d))
    OBVIOUS
  <2>1. \E c \in ToSet(linear[e]) : x \in ToSet(MembersOf(c))
    BY <1>2, ChainIs
  <2>2. \E c \in ToSet(linear[d]) : x \in ToSet(MembersOf(c))
    BY <1>4, <2>1
  <2> QED
    BY <2>2, ChainIs
<1> QED
  BY <1>1, <1>2, <1>3, <1>5, ChainIs

\* What names refer to.
LEMMA ReferencedIs ==
    ASSUME NEW chain, NEW uses, NEW kind, NEW g \in ReferencedBy(chain, uses, kind)
    PROVE  g \in Everything(chain) /\ g.kind = kind /\ ToSet(uses) # {}
<1>1. PICK use \in ToSet(uses) : g \in Referenced(chain, use, kind)
  BY DEF ReferencedBy
<1>2. g \in {m \in InScope(chain) : m.kind = kind /\ m.name = use.name /\ m.params = use.params}
  BY <1>1 DEF Referenced, Nearest
<1> QED
  BY <1>1, <1>2 DEF InScope

\* No contract is wrong: what the passes contracts and mutability find.
Contented == \A d \in Contracts : ~ContractWrong(Chain(d)) /\ ~MutabilityWrong(Chain(d), Chains, NodeOf(d).library)

\* What overrides a function is declared as the function is.
LEMMA OverridingIs ==
    ASSUME FilesOK, LinesOK(linear), Contented, NEW d \in DOMAIN linear,
           NEW g \in Everything(Chain(d)), g.kind = "function", NEW x \in Overriding(Chain(d), g)
    PROVE  x.mut = g.mut
<1>1. PICK chain, some : /\ chain = Chain(d)
                         /\ some = {m \in Everything(chain) : m.kind = g.kind /\ m.name = g.name /\ m.params = g.params}
  OBVIOUS
<1>2. x \in Nearest(chain, some) /\ g \in some
  BY <1>1 DEF Overriding
<1>3. x.kind = "function" /\ x.name = g.name /\ x.params = g.params
  BY <1>1, <1>2 DEF Nearest
<1>4. SameParameters(x, g) /\ SameParameters(g, x)
  BY <1>3 DEF SameParameters
<1>5. PICK n \in Nat : /\ DOMAIN chain = 1..n
                       /\ \A i \in 1..n : linear[d][i] \in DOMAIN linear /\ chain[i] = MembersOf(linear[d][i])
  BY <1>1, ChainIs
<1>6. PICK i \in 1..n : x \in ToSet(chain[i]) /\ \A j \in 1..(i - 1) : ToSet(chain[j]) \cap some = {}
  BY <1>2, <1>5 DEF Nearest
<1>7. PICK j \in 1..n : g \in ToSet(chain[j])
  <2>1. ToSet(chain) = {chain[j] : j \in 1..n}
    BY <1>5 DEF ToSet
  <2> QED
    BY <1>1, <2>1 DEF Everything
<1>8. i <= j
  BY <1>2, <1>6, <1>7
<1>9. CASE i < j
  <2>1. ~IllegalOverride(chain)
    BY <1>1, ChainIs DEF Contented, ContractWrong
  <2>2. MayOverride(x, g)
    BY <1>4, <1>5, <1>6, <1>7, <1>9, <2>1 DEF IllegalOverride
  <2> QED
    BY <2>2 DEF MayOverride
<1>10. CASE i = j
  <2>1. PICK e : e = linear[d][i]
    OBVIOUS
  <2>2. e \in DOMAIN linear /\ chain[i] = MembersOf(e)
    BY <1>5, <2>1
  <2>3. e \in Contracts /\ Chain(e)[1] = MembersOf(e)
    BY <2>2, ChainIs
  <2>4. PICK members : members = MembersOf(e)
    OBVIOUS
  <2>5. ~Duplicates(members)
    BY <2>3, <2>4 DEF Contented, ContractWrong
  <2>6. PICK k \in Nat : DOMAIN members = 1..k
    BY <2>3, <2>4, MembersSeq
  <2>7. PICK a, b \in 1..k : members[a] = x /\ members[b] = g
    BY <1>6, <1>7, <1>10, <2>2, <2>4, <2>6 DEF ToSet
  <2>8. ~(a < b) /\ ~(b < a)
    BY <1>4, <2>5, <2>6, <2>7 DEF Duplicates
  <2>9. a = b
    BY <2>8
  <2> QED
    BY <2>7, <2>9
<1> QED
  BY <1>8, <1>9, <1>10

\* No more than level b, b being view or pure; a modifier or a body may also
\* read msg.value for a view function.
Within(b, level) == level = "pure" \/ (b = "view" /\ level = "view")
Quiet(b, level)  == Within(b, level) \/ (b = "view" /\ level = "payable")

Tame(b, m) ==
    \/ m.kind = "function" /\ Within(b, m.mut)
    \/ m.kind = "modifier" /\ \A level \in BodyReports(m, Chain(m.at)) : Quiet(b, level)

\* What is not refused in a function.
LEMMA NotRefused ==
    ASSUME NEW f, NEW b \in {"pure", "view"}, Within(b, f.mut), NEW level \in ToSet(Levels),
           NEW library, ~Refused(f, level, library)
    PROVE  Quiet(b, level)
<1>1. level \in {"pure", "view", "nonpayable", "payable"}
  BY RankIs
<1>2. f.mut = "pure" \/ (f.mut = "view" /\ b = "view")
  BY DEF Within
<1>3. CASE level = "pure"
  BY <1>3 DEF Quiet, Within
<1>4. CASE level = "view"
  <2>1. f.mut = "view"
    BY <1>2, <1>4, RankIs DEF Refused
  <2> QED
    BY <1>2, <1>4, <2>1 DEF Quiet, Within
<1>5. CASE level = "nonpayable"
  BY <1>2, <1>5, RankIs DEF Refused
<1>6. CASE level = "payable"
  <2>1. f.mut # "pure"
    BY <1>6, RankIs DEF Refused
  <2> QED
    BY <1>2, <1>6, <2>1 DEF Quiet
<1> QED
  BY <1>1, <1>3, <1>4, <1>5, <1>6

\* Reports are levels.
LEMMA ReportsAre ==
    ASSUME FilesOK, LinesOK(linear), NEW d \in DOMAIN linear, NEW m \in Everything(Chain(d))
    PROVE  BodyReports(m, Chain(m.at)) \subseteq ToSet(Levels)
<1>1. m.body \subseteq ToSet(Levels) /\ m.at \in DOMAIN linear
  BY InChain
<1>2. ASSUME NEW g \in ReferencedBy(Chain(m.at), m.calls, "function") PROVE Demand(g) \in ToSet(Levels)
  <2>1. g.mut \in ToSet(Levels)
    BY <1>1, <1>2, ReferencedIs, InChain
  <2> QED
    BY <2>1, RankIs DEF Demand
<1> QED
  BY <1>1, <1>2 DEF BodyReports

\* The body of what is tame reports no more than it may.
LEMMA TameReports ==
    ASSUME FilesOK, LinesOK(linear), Contented, NEW d \in DOMAIN linear, NEW m \in Everything(Chain(d)),
           NEW b \in {"pure", "view"}, Tame(b, m), NEW level \in BodyReports(m, Chain(m.at))
    PROVE  Quiet(b, level)
<1>1. level \in ToSet(Levels)
  BY ReportsAre
<1>2. m.at \in Contracts /\ m \in ToSet(Chain(m.at)[1])
  BY InChain
<1>3. CASE m.kind = "modifier"
  <2>1. m.kind # "function"
    BY <1>3
  <2> QED
    BY <2>1 DEF Tame
<1>4. CASE m.kind = "function"
  <2>1. Within(b, m.mut)
    BY <1>4 DEF Tame
  <2>2. ~Refused(m, level, NodeOf(m.at).library)
    BY <1>2, <1>4 DEF Contented, MutabilityWrong
  <2> QED
    BY <1>1, <2>1, <2>2, NotRefused
<1> QED
  BY <1>3, <1>4 DEF Tame

\* A function that is called by what is tame is tame.
LEMMA TameCalls ==
    ASSUME FilesOK, LinesOK(linear), Contented, NEW d \in DOMAIN linear, NEW m \in Everything(Chain(d)),
           NEW b \in {"pure", "view"}, Tame(b, m),
           NEW g \in ReferencedBy(Chain(m.at), m.calls, "function"), NEW x \in Overriding(Chain(d), g)
    PROVE  Tame(b, x)
<1>1. Quiet(b, Demand(g))
  <2>1. Demand(g) \in BodyReports(m, Chain(m.at))
    BY DEF BodyReports
  <2> QED
    BY <2>1, TameReports
<1>2. m.at \in DOMAIN linear /\ Everything(Chain(m.at)) \subseteq Everything(Chain(d))
  BY InChain
<1>3. g \in Everything(Chain(d)) /\ g.kind = "function"
  BY <1>2, ReferencedIs
<1>4. x.mut = g.mut /\ x.kind = "function"
  <2>1. x.kind = g.kind
    BY DEF Overriding, Nearest
  <2> QED
    BY <1>3, <2>1, OverridingIs
<1>5. Within(b, g.mut)
  BY <1>1 DEF Quiet, Within, Demand
<1> QED
  BY <1>4, <1>5 DEF Tame

\* A modifier that a tame function carries is, when it is no way around.
LEMMA TameModifiers ==
    ASSUME FilesOK, LinesOK(linear), Contented, NEW d \in DOMAIN linear, NEW m \in Everything(Chain(d)),
           NEW b \in {"pure", "view"}, Tame(b, m),
           NEW s \in ReferencedBy(Chain(m.at), m.mods, "modifier"),
           ~({"payable", "nonpayable"} \subseteq BodyReports(s, Chain(s.at)))
    PROVE  Tame(b, s)
<1>1. /\ m.at \in DOMAIN linear /\ m.at \in Contracts /\ m \in ToSet(Chain(m.at)[1])
      /\ m.kind = "modifier" => m.mods = <<>>
      /\ Everything(Chain(m.at)) \subseteq Everything(Chain(d))
  BY InChain
<1>2. s \in Everything(Chain(d)) /\ s.kind = "modifier" /\ ToSet(m.mods) # {}
  BY <1>1, ReferencedIs
<1>3. ToSet(<<>>) = {}
  BY DEF ToSet
<1>4. m.kind = "function" /\ Within(b, m.mut)
  BY <1>1, <1>2, <1>3 DEF Tame
<1>5. s.at \in DOMAIN linear
  BY <1>2, InChain
<1>6. PICK reports : reports = BodyReports(s, Chain(s.at))
  OBVIOUS
<1>7. reports \subseteq ToSet(Levels)
  BY <1>2, <1>6, ReportsAre
<1>8. PICK levels, top : levels = {"pure"} \cup reports /\ top = Highest(levels)
  OBVIOUS
<1>9. ~Refused(m, top, NodeOf(m.at).library)
  <2>1. Chains[s.at] = Chain(s.at)
    BY <1>5 DEF Chains
  <2>2. ~Refused(m, Inferred(s, Chains[s.at]), NodeOf(m.at).library)
    BY <1>1, <1>4 DEF Contented, MutabilityWrong
  <2> QED
    BY <1>6, <1>8, <2>1, <2>2 DEF Inferred
<1>10. levels \subseteq ToSet(Levels) /\ levels # {}
  BY <1>7, <1>8, RankIs
<1>11. top \in levels /\ \A k \in levels : Rank(k) <= Rank(top)
  BY <1>8, <1>10, HighestIs
<1>12. Quiet(b, top)
  BY <1>4, <1>9, <1>10, <1>11, NotRefused
<1>13. ASSUME NEW level \in reports PROVE Quiet(b, level)
  <2>1. level \in {"pure", "view", "nonpayable", "payable"} /\ level \in levels /\ Rank(level) <= Rank(top)
    BY <1>7, <1>8, <1>11, RankIs
  <2>2. CASE top = "payable"
    <3>1. "payable" \in reports
      BY <1>8, <1>11, <2>2
    <3>2. "nonpayable" \notin reports
      BY <1>6, <3>1
    <3>3. b = "view"
      BY <1>12, <2>2 DEF Quiet, Within
    <3> QED
      BY <2>1, <3>2, <3>3 DEF Quiet, Within
  <2>3. CASE top = "view"
    <3>1. level \in {"pure", "view"}
      BY <2>1, <2>3, RankIs
    <3>2. b = "view"
      BY <1>12, <2>3 DEF Quiet, Within
    <3> QED
      BY <3>1, <3>2 DEF Quiet, Within
  <2>4. CASE top = "pure"
    <3>1. level = "pure"
      BY <2>1, <2>4, RankIs
    <3> QED
      BY <3>1 DEF Quiet, Within
  <2> QED
    BY <1>12, <2>2, <2>3, <2>4 DEF Quiet, Within
<1> QED
  BY <1>2, <1>6, <1>13 DEF Tame

\* What is executed is what every closed set has, and is closed itself.
LEMMA ExecutedIs ==
    ASSUME NEW chain, NEW f \in Everything(chain)
    PROVE  /\ f \in Executed(chain, f)
           /\ \A m \in Executed(chain, f) : LeadsTo(chain, m) \subseteq Executed(chain, f)
           /\ \A S \in SUBSET Everything(chain) :
                  f \in S /\ (\A m \in S : LeadsTo(chain, m) \subseteq S) => Executed(chain, f) \subseteq S
<1>1. ASSUME NEW m \in Executed(chain, f), NEW x \in LeadsTo(chain, m) PROVE x \in Executed(chain, f)
  <2>1. x \in Everything(chain)
    BY DEF LeadsTo, Overriding, Nearest
  <2>2. \A S \in SUBSET Everything(chain) : f \in S /\ (\A n \in S : LeadsTo(chain, n) \subseteq S) => m \in S
    BY DEF Executed
  <2>3. \A S \in SUBSET Everything(chain) : f \in S /\ (\A n \in S : LeadsTo(chain, n) \subseteq S) => x \in S
    BY <2>2
  <2> QED
    BY <2>1, <2>3 DEF Executed
<1> QED
  BY <1>1 DEF Executed

\* All that a function declared view or pure leads to is tame.
LEMMA ExecutedTame ==
    ASSUME FilesOK, LinesOK(linear), Contented, NEW d \in DOMAIN linear, NEW f \in Everything(Chain(d)),
           f.kind = "function", f.mut \in {"pure", "view"}, ~ByModifier(Chain(d), f)
    PROVE  \A m \in Executed(Chain(d), f) : Tame(f.mut, m)
<1>1. PICK chain, b : chain = Chain(d) /\ b = f.mut
  OBVIOUS
<1>2. /\ f \in Executed(chain, f)
      /\ \A m \in Executed(chain, f) : LeadsTo(chain, m) \subseteq Executed(chain, f)
      /\ \A S \in SUBSET Everything(chain) :
             f \in S /\ (\A m \in S : LeadsTo(chain, m) \subseteq S) => Executed(chain, f) \subseteq S
  BY <1>1, ExecutedIs
<1>3. Executed(chain, f) \subseteq Everything(chain)
  BY DEF Executed
<1>4. PICK S : S = {m \in Executed(chain, f) : Tame(b, m)}
  OBVIOUS
<1>5. f \in S
  BY <1>1, <1>2, <1>4 DEF Tame, Within
<1>6. ASSUME NEW m \in S, NEW x \in LeadsTo(chain, m) PROVE x \in S
  <2>1. m \in Executed(chain, f) /\ m \in Everything(Chain(d)) /\ Tame(b, m) /\ b \in {"pure", "view"}
    BY <1>1, <1>3, <1>4
  <2>2. x \in Executed(chain, f)
    BY <1>2, <2>1
  <2>3. PICK g \in ReferencedBy(Chain(m.at), m.calls, "function") \cup ReferencedBy(Chain(m.at), m.mods, "modifier") :
            x \in Overriding(chain, g)
    BY DEF LeadsTo
  <2>4. CASE g \in ReferencedBy(Chain(m.at), m.calls, "function")
    <3>1. Tame(b, x)
      BY <1>1, <2>1, <2>3, <2>4, TameCalls
    <3> QED
      BY <1>4, <2>2, <3>1
  <2>5. CASE g \in ReferencedBy(Chain(m.at), m.mods, "modifier")
    <3>1. Overriding(chain, g) = {g} /\ ~({"payable", "nonpayable"} \subseteq BodyReports(g, Chain(g.at)))
      BY <1>1, <2>1, <2>5 DEF ByModifier
    <3>2. x = g
      BY <2>3, <3>1
    <3>3. Tame(b, g)
      BY <2>1, <2>5, <3>1, TameModifiers
    <3> QED
      BY <1>4, <2>2, <3>2, <3>3
  <2> QED
    BY <2>3, <2>4, <2>5
<1>7. Executed(chain, f) \subseteq S
  BY <1>2, <1>3, <1>4, <1>5, <1>6
<1> QED
  BY <1>1, <1>4, <1>7

\* ... so that it does no more than that.
LEMMA ContentedKeeps ==
    ASSUME FilesOK, LinesOK(linear), Contented, NEW d \in DOMAIN linear, NEW f \in Everything(Chain(d)),
           f.kind = "function", f.mut \in {"pure", "view"}, ~ByModifier(Chain(d), f)
    PROVE  /\ "nonpayable" \notin Does(Chain(d), f)
           /\ f.mut = "pure" => Does(Chain(d), f) \subseteq {"pure"}
<1>1. ASSUME NEW level \in Does(Chain(d), f) PROVE Quiet(f.mut, level)
  <2>1. PICK m \in Executed(Chain(d), f) : level \in m.body
    BY DEF Does
  <2>2. m \in Everything(Chain(d)) /\ Tame(f.mut, m)
    BY ExecutedTame DEF Executed
  <2>3. level \in BodyReports(m, Chain(m.at))
    BY <2>1 DEF BodyReports
  <2> QED
    BY <2>2, <2>3, TameReports
<1> QED
  BY <1>1 DEF Quiet, Within

\* After the pass mutability no contract is wrong unless ok is FALSE.
MutabilityOK ==
    (stage = "analysing" /\ pass > 12 /\ ok) \/ Accepted =>
        \A d \in Contracts : ~MutabilityWrong(Chain(d), Chains, NodeOf(d).library)

LEMMA MutabilityStays ==
    ASSUME UNCHANGED <<sources, linear>>
    PROVE  /\ Contracts' = Contracts
           /\ \A d : MutabilityWrong(Chain(d), Chains, NodeOf(d).library)'
                     = MutabilityWrong(Chain(d), Chains, NodeOf(d).library)
<1>1. Contracts' = Contracts
  BY DEF Contracts, ContractsOf, NodesOf, Units
<1>2. \A d : NodeOf(d)' = NodeOf(d) /\ MembersOf(d)' = MembersOf(d)
  BY DEF NodeOf, NodesOf, MembersOf
<1>3. \A d : Chain(d)' = Chain(d)
  BY <1>2 DEF Chain
<1>4. Chains' = Chains
  BY <1>3 DEF Chains
<1>5. \A d : MutabilityWrong(Chain(d), Chains, NodeOf(d).library)'
             = MutabilityWrong(Chain(d)', Chains', NodeOf(d)'.library)
  OBVIOUS
<1> QED
  BY <1>1, <1>2, <1>3, <1>4, <1>5

LEMMA MutabilityNext == ASSUME PlaceOK, MutabilityOK, [Next]_vars PROVE MutabilityOK'
<1>1. ASSUME ~Accepted', ~(stage' = "analysing" /\ pass' > 12) PROVE MutabilityOK'
  BY <1>1 DEF MutabilityOK
<1>2. ASSUME UNCHANGED <<sources, linear>>,
             \/ (stage' = "analysing" /\ pass' > 12 /\ ok') \/ Accepted' => (stage = "analysing" /\ pass > 12 /\ ok) \/ Accepted
      PROVE  MutabilityOK'
  BY <1>2, MutabilityStays DEF MutabilityOK
<1>3. pass \in Nat
  BY DEF PlaceOK, Passes
<1>4. CASE ReadMain \/ Parse \/ ParsingDone
  <2>1. stage' \notin {"analysing", "analysed", "running"}
    BY <1>4 DEF ReadMain, Parse, ParsingDone
  <2> QED
    BY <1>1, <2>1 DEF Accepted
<1>5. CASE ResolveImports
  <2>1. stage' = "analysing" /\ pass' = 1
    BY <1>5 DEF ResolveImports, PlaceOK
  <2> QED
    BY <1>1, <2>1 DEF Accepted
<1>6. ASSUME NEW p \in Checks, Check(p) PROVE MutabilityOK'
  <2>1. /\ Running(p) /\ UNCHANGED <<sources, linear>> /\ (Forward \/ GiveUp) /\ (ok' => ok) /\ p # "mutability"
    BY <1>6 DEF Check, Checks
  <2>2. stage = "analysing" /\ pass # 12
    BY <2>1, RunningIs
  <2>3. CASE GiveUp
    BY <1>1, <2>3 DEF GiveUp, Accepted
  <2>4. CASE Forward
    <3>1. stage' = "analysing" /\ (pass' = pass \/ pass' = pass + 1)
      BY <2>2, <2>4 DEF Forward
    <3>2. pass' > 12 => pass > 12
      BY <1>3, <2>2, <3>1
    <3> QED
      BY <1>2, <2>1, <2>2, <3>1, <3>2 DEF Accepted
  <2> QED
    BY <2>1, <2>3, <2>4
<1>7. CASE RegisterDeclarations \/ PerformImports \/ ResolveNames
  <2>1. (Forward \/ GiveUp) /\ pass < 12 /\ stage = "analysing"
    BY <1>7, RunningIs DEF RegisterDeclarations, PerformImports, ResolveNames
  <2>2. stage' \in {"analysing", "rejected"} /\ (pass' = pass \/ pass' = pass + 1)
    BY <2>1 DEF Forward, GiveUp
  <2>3. ~(pass' > 12)
    BY <1>3, <2>1, <2>2
  <2> QED
    BY <1>1, <2>2, <2>3 DEF Accepted
<1>8. CASE CheckMutability
  <2>1. PICK wrong : /\ wrong = {u \in Units : \E d \in ContractsOf(u) : MutabilityWrong(Chain(d), Chains, NodeOf(d).library)}
                     /\ ok' = (ok /\ wrong = {})
                     /\ UNCHANGED <<sources, linear, stage>>
    BY <1>8 DEF CheckMutability
  <2>2. stage = "analysing"
    BY <1>8, RunningIs DEF CheckMutability
  <2>3. ~Accepted'
    BY <2>1, <2>2 DEF Accepted
  <2>4. ASSUME ok' PROVE \A d \in Contracts : ~MutabilityWrong(Chain(d), Chains, NodeOf(d).library)
    <3>1. wrong = {}
      BY <2>1, <2>4
    <3> QED
      BY <2>1, <3>1 DEF Contracts
  <2> QED
    BY <2>1, <2>3, <2>4, MutabilityStays DEF MutabilityOK
<1>9. CASE Leave
  <2>1. Len(Passes) = 13 /\ stage = "analysing" /\ UNCHANGED <<sources, linear, pass, ok>>
    BY <1>9 DEF Leave, Passes
  <2>2. CASE stage' = "rejected"
    BY <1>1, <2>2 DEF Accepted
  <2>3. CASE stage' # "rejected"
    <3>1. pass > 12 /\ ok /\ stage' = "analysed"
      BY <1>3, <1>9, <2>1, <2>3 DEF Leave
    <3> QED
      BY <1>2, <2>1, <3>1
  <2> QED
    BY <2>2, <2>3
<1>10. CASE RunEngine
  BY <1>2, <1>10 DEF RunEngine, Accepted
<1>11. CASE UNCHANGED vars
  BY <1>2, <1>11 DEF vars, Accepted
<1> QED
  BY <1>4, <1>5, <1>6, <1>7, <1>8, <1>9, <1>10, <1>11 DEF Next, Over

(* ViewPureChecker with checkIllegalOverrides: for all hierarchies, when   *)
(* the engine is run, whatever a function declared view or pure leads to   *)
(* in any contract that inherits it, calls bound to what overrides them,   *)
(* keeps the declaration, unless a modifier is overridden or hides behind  *)
(* msg.value.  The checker never looks at what overrides what is called.   *)
THEOREM MutabilityIsKept == Spec => []DeclarationsKept
<1>1. Spec => []StackOK
  BY StackInit, StackNext, PTL DEF Spec
<1>2. Init => MutabilityOK
  BY DEF Init, MutabilityOK, Accepted
<1>3. StackOK /\ MutabilityOK /\ [Next]_vars => MutabilityOK'
  BY MutabilityNext DEF StackOK
<1>4. StackOK /\ NoErrorLeft /\ MutabilityOK => DeclarationsKept
  <2> SUFFICES ASSUME StackOK, NoErrorLeft, MutabilityOK, stage = "running"
               PROVE  \A d \in DOMAIN linear : \A f \in Everything(Chain(d)) :
                          f.kind = "function" /\ f.mut \in {"pure", "view"} /\ ~ByModifier(Chain(d), f) =>
                              /\ "nonpayable" \notin Does(Chain(d), f)
                              /\ f.mut = "pure" => Does(Chain(d), f) \subseteq {"pure"}
    BY DEF DeclarationsKept
  <2>1. Accepted /\ FilesOK /\ LinesOK(linear)
    BY DEF Accepted, StackOK, Loaded, LinearOK
  <2>2. Contented
    <3>1. NothingEscapes
      BY AllCleared
    <3>2. \A d \in Contracts : ~ContractWrong(Chain(d))
      BY <2>1, <3>1 DEF NothingEscapes, Contracts
    <3> QED
      BY <2>1, <3>2 DEF Contented, MutabilityOK
  <2> QED
    BY <2>1, <2>2, ContentedKeeps
<1> QED
  BY <1>1, <1>2, <1>3, <1>4, AcceptedIsClean, PTL DEF Spec
=============================================================================
