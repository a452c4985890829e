------------------------- MODULE OlderChecks_proofs -------------------------
(* What every harness, formula, exception and unknown leaves true of the   *)
(* solver of the older checks, and of what they print: the globals that    *)
(* synthesis has merged say what the paths of the function say, so a query *)
(* about them is a query about the paths.                                  *)
EXTENDS OlderChecks, SequenceTheorems, WellFoundedInduction, TLAPS

LEMMA FollowingDomain ==
    DOMAIN Following = {Truthful, Collusion, Efficient, Optimal}
BY DEF Following

(* "execute", "merge" and the other stages of the loop are not checks.     *)
LEMMA StagesApart ==
    /\ DOMAIN Following \cap {"execute", "merge", "mechanism", "patterns", "choose",
                              "report", "end", "undefined", "aborted"} = {}
    /\ Optimal # Truthful
BY FollowingDomain DEF Truthful, Collusion, Efficient, Optimal

LEMMA FollowingStages ==
    /\ \A s \in DOMAIN Following : Following[s] \in Stages
    /\ DOMAIN Following \subseteq Stages
BY FollowingDomain DEF Following, Stages, Truthful, Collusion, Efficient, Optimal

LEMMA KeptType ==
    ASSUME NEW scope \in SUBSET Inputs, slv \in Seq(SUBSET Inputs)
    PROVE  Kept(scope) \in Seq(SUBSET Inputs)
BY DEF Kept

LEMMA ScopesType ==
    /\ Tempted \in SUBSET Inputs
    /\ Worse \in SUBSET Inputs
    /\ Differs \in SUBSET Inputs
<1>1. Differs \in SUBSET Inputs
  BY DEF Differs
<1>2. \A i : Better(i) \subseteq Inputs
  BY DEF Better
<1>3. Worse \in SUBSET Inputs
  BY <1>2 DEF Worse
<1>4. Tempted \in SUBSET Inputs
  BY DEF Tempted
<1> QED BY <1>1, <1>3, <1>4

\* The path the checks are read from, once there is one.
LEMMA CurStep ==
    ASSUME TypeOK, [Next]_vars
    PROVE  stage' \in DOMAIN Following => cur' \in DOMAIN contexts'
<1> SUFFICES ASSUME stage' \in DOMAIN Following PROVE cur' \in DOMAIN contexts'
  OBVIOUS
<1>1. CASE stage \in DOMAIN Following /\ UNCHANGED <<program, fn, cur>>
  BY <1>1 DEF TypeOK, contexts
<1>2. CASE Choose
  <2>1. stage' # "report" /\ UNCHANGED <<program, fn>>
    BY <1>2, StagesApart DEF Choose
  <2>2. cur' \in Feasible
    BY <1>2, <2>1 DEF Choose, Goto
  <2> QED
    BY <2>1, <2>2 DEF Feasible, contexts
<1>3. CASE Skip \/ Execute \/ Synthesis \/ Examine \/ Patterns \/ Uncaught \/ Report \/ Finish
  <2>1. stage' \notin DOMAIN Following
    BY <1>3, StagesApart, Zenon
       DEF Skip, Execute, Synthesis, Examine, Patterns, Uncaught, Report, Finish, Goto
  <2> QED
    BY <2>1
<1>4. CASE NoMore \/ Deviate \/ Compare \/ CompareInterrupted
  <2>1. stage \in DOMAIN Following /\ UNCHANGED <<program, fn, cur>>
    BY <1>4, FollowingDomain DEF NoMore, Deviate, Compare, CompareInterrupted
  <2> QED
    BY <1>1, <2>1
<1>5. CASE UNCHANGED vars
  BY <1>1, <1>5 DEF vars
<1> QED
  BY <1>2, <1>3, <1>4, <1>5 DEF Next, Over

\* What a check notes of the solver.
Noted(us) == \A u \in us : u.fn \in Nat /\ u.op \in {Postcond} \cup DOMAIN Following

LEMMA NotedStep ==
    ASSUME TypeOK, Deviate \/ Compare
    PROVE  Noted(undecided')
<1>1. \/ undecided' = undecided
      \/ undecided' = undecided \cup {[fn |-> fn, op |-> stage, i |-> index]}
  BY DEF Deviate, Compare, Decided, GivenUp
<1>2. stage \in DOMAIN Following /\ fn \in Nat
  BY FollowingDomain DEF Deviate, Compare, TypeOK
<1> QED
  BY <1>1, <1>2 DEF TypeOK, Noted

LEMMA TypeStep == TypeOK /\ [Next]_vars => TypeOK'
<1> SUFFICES ASSUME TypeOK, [Next]_vars PROVE TypeOK'
  OBVIOUS
<1>0. stage' \in DOMAIN Following => cur' \in DOMAIN contexts'
  BY CurStep
<1> USE <1>0, FollowingStages DEF TypeOK
<1>1. ASSUME Skip PROVE TypeOK'
  BY <1>1 DEF Skip
<1>2. ASSUME Execute PROVE TypeOK'
  BY <1>2 DEF Execute, Goto, Stages
<1>3. ASSUME Synthesis PROVE TypeOK'
  BY <1>3 DEF Synthesis, Goto, Stages
<1>4. ASSUME Examine PROVE TypeOK'
  BY <1>4 DEF Examine, Goto, Stages
<1>5. ASSUME Patterns PROVE TypeOK'
  <2>1. UNCHANGED <<program, fn, index, slv, thrown>> /\ stage' = "choose"
    BY <1>5, Zenon DEF Patterns, Goto
  <2>2. \/ undecided' = undecided
        \/ \E lost, unsure : undecided' = undecided \cup
               {[fn |-> fn, op |-> Postcond, i |-> desc] : desc \in Unheard(lost, unsure)}
    BY <1>5, Zenon DEF Patterns
  <2>3. \A u \in undecided' : u.fn \in Nat /\ u.op \in {Postcond} \cup DOMAIN Following
    BY <2>2
  <2> QED BY <2>1, <2>3 DEF Stages
<1>6. ASSUME Choose PROVE TypeOK'
  BY <1>6, FollowingDomain DEF Choose, Goto, Stages
<1>7. ASSUME NoMore PROVE TypeOK'
  BY <1>7 DEF NoMore, Leave, Goto
<1>8. ASSUME Deviate PROVE TypeOK'
  <2>1. UNCHANGED <<program, fn>>
    BY <1>8 DEF Deviate
  <2>2. stage' \in Stages /\ index' \in Nat \ {0}
    BY <1>8 DEF Deviate, Step, Goto, Stages
  <2>3. slv' \in Seq(SUBSET Inputs) /\ thrown' \subseteq Nat \X DOMAIN Following
    BY <1>8, ScopesType, KeptType, FollowingDomain DEF Deviate, Interrupt
  <2>4. Noted(undecided')
    BY <1>8, NotedStep
  <2> QED BY <2>1, <2>2, <2>3, <2>4 DEF Noted
<1>9. ASSUME Compare PROVE TypeOK'
  <2>0. (Leave \/ Step) /\ UNCHANGED <<program, fn, slv, thrown>>
    BY <1>9, Zenon DEF Compare
  <2>1. index' \in Nat \ {0}
    BY <2>0 DEF Leave, Step
  <2>2. stage \in DOMAIN Following
    BY <1>9, FollowingDomain DEF Compare
  <2>3. stage' = stage \/ stage' = Following[stage]
    BY <2>0 DEF Leave, Step, Goto
  <2>4. Noted(undecided')
    BY <1>9, NotedStep
  <2> QED BY <2>0, <2>1, <2>2, <2>3, <2>4 DEF Noted
<1>10. ASSUME CompareInterrupted PROVE TypeOK'
  <2>1. UNCHANGED <<program, fn, undecided>> /\ stage' \in Stages /\ index' \in Nat \ {0}
    BY <1>10 DEF CompareInterrupted, Step
  <2>2. \E scope \in {Worse, Differs} : slv' = Kept(scope) /\ thrown' = thrown \cup {<<fn, stage>>}
    BY <1>10, Zenon DEF CompareInterrupted, Interrupt
  <2>3. slv' \in Seq(SUBSET Inputs)
    BY <2>2, ScopesType, KeptType
  <2>4. stage \in DOMAIN Following
    BY <1>10, FollowingDomain DEF CompareInterrupted
  <2>5. thrown' \subseteq Nat \X DOMAIN Following
    BY <2>2, <2>4
  <2> QED BY <2>1, <2>3, <2>5
<1>11. ASSUME Report PROVE TypeOK'
  BY <1>11 DEF Report, Goto, Stages
<1>12. ASSUME Finish \/ Uncaught PROVE TypeOK'
  BY <1>12 DEF Finish, Uncaught, Goto, Stages
<1>13. ASSUME UNCHANGED vars PROVE TypeOK'
  BY <1>13 DEF vars
<1> QED
  BY <1>1, <1>2, <1>3, <1>4, <1>5, <1>6, <1>7, <1>8, <1>9, <1>10, <1>11,
     <1>12, <1>13 DEF Next, Over

(* The loop over the functions and the loops over the requests stay at the *)
(* stages of symbolicExecution, the solver holds formulas only, and a      *)
(* check is in hand only while there is a path to read it from.            *)
THEOREM TypeCorrect == Spec => []TypeOK
<1>1. Init => TypeOK
  BY StagesApart DEF Init, TypeOK, Stages
<1>2. TypeOK /\ [Next]_vars => TypeOK'
  BY TypeStep
<1> QED BY <1>1, <1>2, PTL DEF Spec

LEMMA CleanStep == Clean /\ [Next]_vars => Clean'
<1> SUFFICES ASSUME Clean, [Next]_vars PROVE Clean'
  OBVIOUS
<1> USE StagesApart, FollowingDomain
<1>1. ASSUME stage' \notin DOMAIN Following PROVE Clean'
  BY <1>1 DEF Clean
<1>2. ASSUME Skip \/ Execute \/ Synthesis \/ Examine \/ Patterns \/ Uncaught
              \/ Report \/ Finish
      PROVE  Clean'
  <2>1. stage' \notin DOMAIN Following
    BY <1>2, StagesApart, Zenon
       DEF Skip, Execute, Synthesis, Examine, Patterns, Uncaught, Report, Finish, Goto
  <2> QED BY <1>1, <2>1
<1>3. ASSUME Choose PROVE Clean'
  BY <1>3 DEF Choose, Clean
<1>4. ASSUME stage \in DOMAIN Following, UNCHANGED <<fn, slv, thrown>>,
             stage' = stage \/ stage' = Following[stage] \/ stage' \notin DOMAIN Following
      PROVE  Clean'
  <2>1. stage' \in {Truthful, Collusion} => stage \in {Truthful, Collusion}
    BY <1>4 DEF Following, Truthful, Collusion, Efficient, Optimal
  <2>2. Leaked(fn)' <=> Leaked(fn)
    BY <1>4 DEF Leaked
  <2> QED BY <1>4, <2>1, <2>2 DEF Clean
<1>5. ASSUME NoMore PROVE Clean'
  BY <1>4, <1>5 DEF NoMore, Leave, Goto
<1>6. ASSUME Deviate PROVE Clean'
  <2>1. stage \in {Truthful, Collusion} /\ slv' = slv
    BY <1>6 DEF Deviate, Interrupt, Kept
  <2>2. stage' = stage \/ stage' \notin DOMAIN Following
    BY <1>6 DEF Deviate, Step, Goto
  <2> QED BY <2>1, <2>2 DEF Clean
<1>7. ASSUME Compare PROVE Clean'
  <2>1. stage \in DOMAIN Following /\ UNCHANGED <<fn, slv, thrown>>
    BY <1>7 DEF Compare
  <2>2. Leave \/ Step
    BY <1>7, Zenon DEF Compare
  <2> QED BY <1>4, <2>1, <2>2 DEF Leave, Step, Goto
<1>8. ASSUME CompareInterrupted PROVE Clean'
  <2>1. fn' = fn /\ stage' = stage /\ stage \in {Efficient, Optimal} /\ <<fn, stage>> \in thrown'
    BY <1>8 DEF CompareInterrupted, Interrupt, Step
  <2>2. Leaked(fn)'
    BY <2>1 DEF Leaked
  <2>3. {Truthful, Collusion} \cap {Efficient, Optimal} = {}
    BY DEF Truthful, Collusion, Efficient, Optimal
  <2> QED BY <2>1, <2>2, <2>3 DEF Clean
<1>9. ASSUME UNCHANGED vars PROVE Clean'
  BY <1>9 DEF vars, Clean, Leaked
<1> QED
  BY <1>2, <1>3, <1>5, <1>6, <1>7, <1>8, <1>9 DEF Next, Over

(* A check starts with the solver that Choose made for its function; the   *)
(* truth and collusion loops leave it as it was, whatever is thrown, and   *)
(* the other two find a scope on it only when one of the two has thrown    *)
(* for this function.                                                      *)
THEOREM SolverIsFresh == Spec => []Clean
<1>1. Init => Clean
  BY StagesApart, FollowingDomain DEF Init, Clean
<1>2. Clean /\ [Next]_vars => Clean'
  BY CleanStep
<1> QED BY <1>1, <1>2, PTL DEF Spec

-----------------------------------------------------------------------------
(* The folds of the model: over the directives of a path, and over the     *)
(* paths for the globals and for the patterns.                             *)

LEMMA NatSetInduction ==
    ASSUME NEW S, 0 \in S, \A n \in Nat : n \in S => n + 1 \in S
    PROVE  Nat \subseteq S
<1> DEFINE R == {ss \in Nat \X Nat : ss[1] < ss[2]}
           T == Nat \ S
<1>1. IsWellFoundedOn(R, Nat)
  BY NatLessThanWellFounded DEF OpToRel
<1> SUFFICES ASSUME T # {} PROVE FALSE
  OBVIOUS
<1>2. PICK x \in T : \A y \in T : ~(<<y, x>> \in R)
  <2>1. T \subseteq Nat
    OBVIOUS
  <2> HIDE DEF T, R
  <2> QED
    BY <1>1, <2>1, WFMin
<1>3. x \in Nat /\ x \notin S /\ x # 0
  OBVIOUS
<1>4. x - 1 \in Nat /\ (x - 1) + 1 = x /\ x - 1 < x
  BY <1>3
<1>5. x - 1 \in S
  BY <1>2, <1>4
<1> QED
  BY <1>3, <1>4, <1>5

\* One more directive of a path, one more path for the patterns, one more
\* path for the global of this name.
MergeOne(name, v, c) ==
    [j \in DOMAIN v |-> IF j \in DOMAIN Of(c, name) THEN Ite(c.pc, Of(c, name)[j], v[j])
                        ELSE v[j]]
CountOne(v, h) == IF h.sat THEN Count(v, h) ELSE v

OneMore(what, v, x) ==
    IF what = "directives" THEN Directive(v, x)
    ELSE IF what = "patterns" THEN CountOne(v, x)
    ELSE MergeOne(what, v, x)

\* FoldLeft is defined on the sets of positions; it[1..k] is its value after
\* k elements.
FoldOn(it, what, base, seq, n) ==
    it = [s \in SUBSET (1..n) |->
             IF s = {} THEN base
             ELSE OneMore(what, it[s \ {Max(s)}], seq[Max(s)])]

LEMMA MaxOf ==
    ASSUME NEW n \in Nat, NEW s, n \in s, \A y \in s : n >= y, s \subseteq Nat
    PROVE  Max(s) = n
<1>1. \A x \in s : (\A y \in s : x >= y) => x = n
  OBVIOUS
<1>2. Max(s) \in s /\ \A y \in s : Max(s) >= y
  BY DEF Max
<1> QED
  BY <1>1, <1>2

LEMMA FoldExists ==
    ASSUME NEW what, NEW base, NEW seq
    PROVE  \A n \in Nat : \E it : FoldOn(it, what, base, seq, n)
<1> DEFINE S == {n \in Nat : \E it : FoldOn(it, what, base, seq, n)}
           val(it, s) == IF s = {} THEN base
                         ELSE OneMore(what, it[s \ {Max(s)}], seq[Max(s)])
<1>1. 0 \in S
  <2> DEFINE it == [s \in SUBSET (1..0) |-> base]
  <2>1. \A s \in SUBSET (1..0) : s = {}
    OBVIOUS
  <2>2. it = [s \in SUBSET (1..0) |-> val(it, s)]
    BY <2>1
  <2>3. FoldOn(it, what, base, seq, 0)
    BY <2>2 DEF FoldOn
  <2> QED
    BY <2>3
<1>2. ASSUME NEW n \in Nat, n \in S PROVE n + 1 \in S
  <2>1. PICK it : FoldOn(it, what, base, seq, n)
    BY <1>2
  <2> DEFINE t == [s \in SUBSET (1..(n + 1)) |->
                      IF n + 1 \in s
                      THEN OneMore(what, it[s \ {n + 1}], seq[n + 1]) ELSE it[s]]
  <2>2. ASSUME NEW s \in SUBSET (1..(n + 1)) PROVE t[s] = val(t, s)
    <3>1. CASE n + 1 \in s
      <4>0. n + 1 \in Nat /\ (\A y \in s : n + 1 >= y) /\ s \subseteq Nat
        OBVIOUS
      <4>1. Max(s) = n + 1 /\ s # {}
        BY <3>1, <4>0, MaxOf
      <4>2. s \ {n + 1} \in SUBSET (1..(n + 1)) /\ n + 1 \notin s \ {n + 1}
        OBVIOUS
      <4>3. t[s \ {n + 1}] = it[s \ {n + 1}]
        BY <4>2
      <4>4. t[s] = OneMore(what, it[s \ {n + 1}], seq[n + 1])
        BY <3>1
      <4> HIDE DEF t
      <4> QED
        BY <4>1, <4>3, <4>4
    <3>2. CASE n + 1 \notin s
      <4>1. s \in SUBSET (1..n)
        BY <3>2
      <4>2. it[s] = val(it, s)
        BY <2>1, <4>1 DEF FoldOn
      <4>3. s \ {Max(s)} \in SUBSET (1..(n + 1)) /\ n + 1 \notin s \ {Max(s)}
        BY <3>2
      <4>4. t[s] = it[s] /\ t[s \ {Max(s)}] = it[s \ {Max(s)}]
        BY <3>2, <4>3
      <4> HIDE DEF t
      <4> QED
        BY <4>2, <4>4
    <3> QED
      BY <3>1, <3>2
  <2>3. t = [s \in SUBSET (1..(n + 1)) |-> t[s]]
    OBVIOUS
  <2> HIDE DEF t
  <2>4. t = [s \in SUBSET (1..(n + 1)) |-> val(t, s)]
    BY <2>2, <2>3
  <2>5. FoldOn(t, what, base, seq, n + 1)
    BY <2>4 DEF FoldOn
  <2> QED
    BY <2>5
<1> HIDE DEF S
<1>3. Nat \subseteq S
  BY <1>1, <1>2, NatSetInduction
<1> QED
  BY <1>3 DEF S

\* The values after 0, 1, ..., n elements.
Loop(it, what, base, seq, n) ==
    /\ it[1..0] = base
    /\ \A k \in 0..(n - 1) : it[1..(k + 1)] = OneMore(what, it[1..k], seq[k + 1])

LEMMA FoldLoop ==
    ASSUME NEW it, NEW what, NEW base, NEW seq, NEW n \in Nat,
           FoldOn(it, what, base, seq, n)
    PROVE  Loop(it, what, base, seq, n)
<1>1. ASSUME NEW s \in SUBSET (1..n)
      PROVE  it[s] = IF s = {} THEN base
                     ELSE OneMore(what, it[s \ {Max(s)}], seq[Max(s)])
  BY DEF FoldOn
<1>2. it[1..0] = base
  <2>1. 1..0 = {} /\ 1..0 \in SUBSET (1..n)
    OBVIOUS
  <2> QED
    BY <1>1, <2>1
<1>3. ASSUME NEW k \in 0..(n - 1)
      PROVE  it[1..(k + 1)] = OneMore(what, it[1..k], seq[k + 1])
  <2>1. 1..(k + 1) \in SUBSET (1..n) /\ 1..(k + 1) # {}
    OBVIOUS
  <2>2. Max(1..(k + 1)) = k + 1
    BY MaxOf
  <2>3. (1..(k + 1)) \ {k + 1} = 1..k
    OBVIOUS
  <2> QED
    BY <1>1, <2>1, <2>2, <2>3
<1> QED
  BY <1>2, <1>3 DEF Loop

\* Each fold of the model is such a loop.
LEMMA AfterLoop ==
    ASSUME NEW path, NEW n \in Nat, DOMAIN path.does = 1..n
    PROVE  \E it : /\ Loop(it, "directives", Blank(path.pc), path.does, n)
                   /\ After(path) = it[1..n]
<1> DEFINE P(it) == it = [s \in SUBSET (1..n) |->
                             IF s = {} THEN Blank(path.pc)
                             ELSE Directive(it[s \ {Max(s)}], path.does[Max(s)])]
           it == CHOOSE it : P(it)
<1>1. After(path) = it[1..n]
  BY Zenon DEF After, FoldLeft, MapThenFoldSet
<1>2. \A u : P(u) <=> FoldOn(u, "directives", Blank(path.pc), path.does, n)
  BY DEF FoldOn, OneMore
<1>3. \E u : P(u)
  BY <1>2, FoldExists
<1>4. P(it)
  <2> HIDE DEF P
  <2> QED
    BY <1>3
<1>5. FoldOn(it, "directives", Blank(path.pc), path.does, n)
  <2> HIDE DEF P
  <2> QED
    BY <1>2, <1>4
<1> QED
  BY <1>1, <1>5, FoldLoop

LEMMA MergedLoop ==
    ASSUME NEW name \in Globals, NEW old, NEW cs, NEW n \in Nat, DOMAIN cs = 1..n
    PROVE  \E it : Loop(it, name, old, cs, n) /\ MergedInto(name, old, cs) = it[1..n]
<1> DEFINE P(it) == it = [s \in SUBSET (1..n) |->
                             IF s = {} THEN old
                             ELSE MergeOne(name, it[s \ {Max(s)}], cs[Max(s)])]
           it == CHOOSE it : P(it)
<1>1. MergedInto(name, old, cs) = it[1..n]
  BY Zenon DEF MergedInto, FoldLeft, MapThenFoldSet, MergeOne
<1>2. \A u : P(u) <=> FoldOn(u, name, old, cs, n)
  BY DEF FoldOn, OneMore, Globals
<1>3. \E u : P(u)
  BY <1>2, FoldExists
<1>4. P(it)
  <2> HIDE DEF P
  <2> QED
    BY <1>3
<1>5. FoldOn(it, name, old, cs, n)
  <2> HIDE DEF P
  <2> QED
    BY <1>2, <1>4
<1> QED
  BY <1>1, <1>5, FoldLoop

Counted(old, hs) == FoldLeft(LAMBDA n, h : IF h.sat THEN Count(n, h) ELSE n, old, hs)

LEMMA CountedLoop ==
    ASSUME NEW old, NEW hs, NEW n \in Nat, DOMAIN hs = 1..n
    PROVE  \E it : Loop(it, "patterns", old, hs, n) /\ Counted(old, hs) = it[1..n]
<1> DEFINE P(it) == it = [s \in SUBSET (1..n) |->
                             IF s = {} THEN old
                             ELSE CountOne(it[s \ {Max(s)}], hs[Max(s)])]
           it == CHOOSE it : P(it)
<1>1. Counted(old, hs) = it[1..n]
  BY Zenon DEF Counted, FoldLeft, MapThenFoldSet, CountOne
<1>2. \A u : P(u) <=> FoldOn(u, "patterns", old, hs, n)
  BY DEF FoldOn, OneMore
<1>3. \E u : P(u)
  BY <1>2, FoldExists
<1>4. P(it)
  <2> HIDE DEF P
  <2> QED
    BY <1>3
<1>5. FoldOn(it, "patterns", old, hs, n)
  <2> HIDE DEF P
  <2> QED
    BY <1>2, <1>4
<1> QED
  BY <1>1, <1>5, FoldLoop

-----------------------------------------------------------------------------
(* The paths.                                                              *)

Registered == UNION {[K -> [Inputs -> Int]] : K \in SUBSET Keys}
Context == [pc : SUBSET Inputs, ok : BOOLEAN, done : [Lists -> Seq(Directives)],
            reg : [Registers -> Registered]]

\* What a check compares with has been registered by then.
KeysKnown(c) ==
    \A op \in {Efficient, Optimal} : \A j \in DOMAIN c.done[op] :
        c.done[op][j].key \in DOMAIN c.reg[Register(op)]

ContextOK(c) == c \in Context /\ KeysKnown(c)

LEMMA OpsApart ==
    /\ Lists \cap Registers = {}
    /\ {Truthful, Collusion, Efficient, Optimal, Utility} \subseteq Lists
    /\ \A op : Register(op) \in Registers
    /\ Postcond \in Registers
BY DEF Lists, Registers, Register, Utility, Truthful, Collusion, Efficient, Optimal,
       Expectation, Payment, Postcond

LEMMA BlankOK == ASSUME NEW pc \in SUBSET Inputs PROVE ContextOK(Blank(pc)) /\ Blank(pc).pc = pc
<1>1. <<>> \in Registered
  <2>1. <<>> \in [{} -> [Inputs -> Int]]
    OBVIOUS
  <2> QED
    BY <2>1 DEF Registered
<1>2. Blank(pc) \in Context
  BY <1>1 DEF Blank, Context
<1>3. KeysKnown(Blank(pc))
  BY OpsApart DEF Blank, KeysKnown
<1> QED
  BY <1>2, <1>3 DEF ContextOK, Blank

\* A register grows: what it has stays.
LEMMA RegisterGrows ==
    ASSUME NEW r \in Registered, NEW d \in Directives
    PROVE  Entered(r, d) \in Registered /\ DOMAIN r \subseteq DOMAIN Entered(r, d)
<1>1. PICK K \in SUBSET Keys : r \in [K -> [Inputs -> Int]]
  BY DEF Registered
<1>2. Entered(r, d) \in [K \cup {d.key} -> [Inputs -> Int]] /\ d.key \in Keys
  BY <1>1 DEF Entered, Directives
<1> QED
  BY <1>1, <1>2 DEF Registered

LEMMA DirectiveOK ==
    ASSUME NEW c, ContextOK(c), NEW d \in Directives
    PROVE  ContextOK(Directive(c, d)) /\ Directive(c, d).pc = c.pc
<1>0. /\ d.op \in Lists \cup Registers /\ d.e \in [Inputs -> Int] /\ d.key \in Keys
      /\ c \in Context /\ KeysKnown(c)
      /\ c.done \in [Lists -> Seq(Directives)] /\ c.reg \in [Registers -> Registered]
  BY DEF Directives, ContextOK, Context
<1>1. CASE d.op \in Registers
  <2> DEFINE r == Entered(c.reg[d.op], d)
  <2>1. Directive(c, d) = [c EXCEPT !.reg[d.op] = r]
    BY <1>1 DEF Directive, Insert
  <2>2. r \in Registered /\ DOMAIN c.reg[d.op] \subseteq DOMAIN r
    BY <1>0, <1>1, RegisterGrows
  <2> HIDE DEF r
  <2> DEFINE n == [c EXCEPT !.reg[d.op] = r]
  <2>3. /\ n.reg = [c.reg EXCEPT ![d.op] = r] /\ n.done = c.done
        /\ n.pc = c.pc /\ n \in Context
    BY <1>0, <1>1, <2>2 DEF Context
  <2>4. \A op \in Registers : DOMAIN c.reg[op] \subseteq DOMAIN n.reg[op]
    BY <1>0, <1>1, <2>2, <2>3
  <2> HIDE DEF n
  <2>5. KeysKnown(n)
    BY <1>0, <2>3, <2>4, OpsApart DEF KeysKnown
  <2> QED
    BY <2>1, <2>3, <2>5 DEF ContextOK, n
<1>2. CASE d.op \in {Efficient, Optimal} /\ d.key \notin DOMAIN c.reg[Register(d.op)]
  <2>1. Directive(c, d) = [c EXCEPT !.ok = FALSE]
    BY <1>2, OpsApart DEF Directive
  <2> DEFINE n == [c EXCEPT !.ok = FALSE]
  <2>2. n \in Context /\ n.pc = c.pc /\ n.done = c.done /\ n.reg = c.reg
    BY <1>0 DEF Context
  <2> HIDE DEF n
  <2>3. KeysKnown(n)
    BY <1>0, <2>2 DEF KeysKnown
  <2> QED
    BY <2>1, <2>2, <2>3 DEF ContextOK, n
<1>3. CASE /\ d.op \in Lists
           /\ d.op \in {Efficient, Optimal} => d.key \in DOMAIN c.reg[Register(d.op)]
  <2> DEFINE s == Append(c.done[d.op], d)
             n == [c EXCEPT !.done[d.op] = s]
  <2>1. Directive(c, d) = n
    BY <1>3, OpsApart DEF Directive
  <2>2. c.done[d.op] \in Seq(Directives)
    BY <1>0, <1>3
  <2>3. /\ s \in Seq(Directives)
        /\ \A j \in DOMAIN s : s[j] = d \/ (j \in DOMAIN c.done[d.op] /\ s[j] = c.done[d.op][j])
    BY <2>2
  <2> HIDE DEF s
  <2>4. /\ n.done = [c.done EXCEPT ![d.op] = s] /\ n.reg = c.reg
        /\ n.pc = c.pc /\ n \in Context
    BY <1>0, <1>3, <2>3 DEF Context
  <2> HIDE DEF n
  <2>5. ASSUME NEW op \in {Efficient, Optimal}, NEW j \in DOMAIN n.done[op]
        PROVE  n.done[op][j].key \in DOMAIN n.reg[Register(op)]
    <3>1. CASE op = d.op
      <4>1. n.done[op] = s
        BY <1>0, <1>3, <2>4, <3>1
      <4>2. j \in DOMAIN s /\ (s[j] = d \/ (j \in DOMAIN c.done[op] /\ s[j] = c.done[op][j]))
        BY <2>3, <2>5, <3>1, <4>1
      <4> QED
        BY <1>0, <1>3, <2>4, <2>5, <3>1, <4>1, <4>2 DEF KeysKnown
    <3>2. CASE op # d.op
      BY <1>0, <2>4, <2>5, <3>2, OpsApart DEF KeysKnown
    <3> QED
      BY <3>1, <3>2
  <2>6. KeysKnown(n)
    BY <2>5 DEF KeysKnown
  <2> QED
    BY <2>1, <2>4, <2>6 DEF ContextOK
<1> QED
  BY <1>0, <1>1, <1>2, <1>3

LEMMA AfterOK ==
    ASSUME NEW path \in Path
    PROVE  ContextOK(After(path)) /\ After(path).pc = path.pc
<1> DEFINE n == Len(path.does)
<1>1. path.pc \in SUBSET Inputs /\ path.does \in Seq(Directives)
  BY DEF Path
<1>2. n \in Nat /\ DOMAIN path.does = 1..n /\ \A k \in 1..n : path.does[k] \in Directives
  BY <1>1
<1> HIDE DEF n
<1>3. PICK it : /\ Loop(it, "directives", Blank(path.pc), path.does, n)
                /\ After(path) = it[1..n]
  BY <1>2, AfterLoop
<1> DEFINE P(c) == ContextOK(c) /\ c.pc = path.pc
           S == {k \in Nat : k <= n => P(it[1..k])}
<1>4. 0 \in S
  <2>1. it[1..0] = Blank(path.pc)
    BY <1>3 DEF Loop
  <2>2. P(it[1..0])
    BY <1>1, <2>1, BlankOK
  <2> QED
    BY <2>2
<1>5. ASSUME NEW k \in Nat, k \in S PROVE k + 1 \in S
  <2>1. SUFFICES ASSUME k + 1 <= n PROVE P(it[1..(k + 1)])
    OBVIOUS
  <2>2. k \in 0..(n - 1) /\ k <= n /\ k + 1 \in 1..n
    BY <1>2, <2>1
  <2>3. it[1..(k + 1)] = Directive(it[1..k], path.does[k + 1])
    BY <1>3, <2>2 DEF Loop, OneMore
  <2>4. P(it[1..k]) /\ path.does[k + 1] \in Directives
    BY <1>2, <1>5, <2>2
  <2> DEFINE c == it[1..k]
  <2> HIDE DEF c
  <2>5. P(Directive(c, path.does[k + 1]))
    BY <2>4, DirectiveOK DEF c
  <2> QED
    BY <2>3, <2>5 DEF c
<1> HIDE DEF S
<1>6. n \in S
  BY <1>2, <1>4, <1>5, NatSetInduction
<1>7. P(it[1..n])
  BY <1>2, <1>6 DEF S
<1> QED
  BY <1>3, <1>7

\* What the exploration of a function returns.
PathsOK(cs) ==
    /\ cs \in Seq(Context)
    /\ \A k \in DOMAIN cs : ContextOK(cs[k])
    /\ \A k, l \in DOMAIN cs : k # l => cs[k].pc \cap cs[l].pc = {}

LEMMA ExecutedOK ==
    ASSUME NEW f \in DOMAIN Functions
    PROVE  PathsOK(Executed[f])
<1> DEFINE paths == Functions[f].paths
           cs == Contexts(paths)
<1>1. Executed[f] = cs
  BY DEF Executed, ContextsOf
<1>2. /\ paths \in Seq(Path)
      /\ \A k, l \in DOMAIN paths : k # l => paths[k].pc \cap paths[l].pc = {}
  BY HarnessAssumption
<1>3. DOMAIN cs = DOMAIN paths /\ DOMAIN paths = 1..Len(paths) /\ Len(paths) \in Nat
  BY <1>2 DEF Contexts
<1>4. ASSUME NEW k \in DOMAIN cs
      PROVE  ContextOK(cs[k]) /\ cs[k].pc = paths[k].pc
  <2>1. cs[k] = After(paths[k]) /\ paths[k] \in Path
    BY <1>2, <1>3 DEF Contexts
  <2> HIDE DEF cs, paths
  <2> QED
    BY <2>1, AfterOK
<1>5. cs = [k \in 1..Len(paths) |-> cs[k]]
  BY <1>3 DEF Contexts
<1> HIDE DEF cs, paths
<1>6. \A k \in 1..Len(paths) : cs[k] \in Context
  BY <1>3, <1>4 DEF ContextOK
<1>7. cs \in [1..Len(paths) -> Context]
  BY <1>5, <1>6
<1>8. cs \in Seq(Context)
  BY <1>3, <1>7
<1> QED
  BY <1>1, <1>2, <1>3, <1>4, <1>8 DEF PathsOK

-----------------------------------------------------------------------------
(* Merging the paths of a function into one global.                        *)

Expr == [Inputs -> Int]

\* The list that is merged into this global.
ListOf(name) == CASE name = "utilities"         -> Utility
                  [] name = "collude_utilities" -> Collusion
                  [] name \in {"benefits", "optional_benefits"} -> Efficient
                  [] OTHER -> Optimal

LEMMA OfOK ==
    ASSUME NEW c, ContextOK(c), NEW name \in Globals
    PROVE  /\ Of(c, name) \in Seq(Expr)
           /\ DOMAIN Of(c, name) = DOMAIN c.done[ListOf(name)]
<1>1. ASSUME NEW s \in Seq(Directives)
      PROVE  /\ [j \in DOMAIN s |-> s[j].e] \in Seq(Expr)
             /\ DOMAIN s = 1..Len(s) /\ Len(s) \in Nat
  <2>1. DOMAIN s = 1..Len(s) /\ Len(s) \in Nat
    OBVIOUS
  <2>2. \A j \in 1..Len(s) : s[j] \in Directives
    BY <2>1
  <2>3. \A d \in Directives : d.e \in Expr
    BY DEF Directives, Expr
  <2> QED
    BY <2>1, <2>2, <2>3
<1>2. /\ c.done \in [Lists -> Seq(Directives)] /\ c.reg \in [Registers -> Registered]
      /\ KeysKnown(c)
  BY DEF ContextOK, Context
<1>3. ASSUME NEW op \in Lists
      PROVE  Exprs(c, op) \in Seq(Expr) /\ DOMAIN Exprs(c, op) = DOMAIN c.done[op]
  <2>1. c.done[op] \in Seq(Directives)
    BY <1>2
  <2> QED
    BY <1>1, <2>1 DEF Exprs
<1>4. ASSUME NEW op \in {Efficient, Optimal}
      PROVE  Optionals(c, op) \in Seq(Expr) /\ DOMAIN Optionals(c, op) = DOMAIN c.done[op]
  <2> DEFINE s == c.done[op]
             r == c.reg[Register(op)]
  <2>1. s \in Seq(Directives) /\ r \in Registered
    BY <1>2, OpsApart
  <2>2. \A j \in DOMAIN s : s[j].key \in DOMAIN r
    BY <1>2 DEF KeysKnown
  <2>3. \A key \in DOMAIN r : r[key] \in Expr
    BY <2>1 DEF Registered, Expr
  <2>4. Optionals(c, op) = [j \in DOMAIN s |-> r[s[j].key]]
    BY DEF Optionals
  <2> HIDE DEF s, r
  <2>5. DOMAIN s = 1..Len(s) /\ Len(s) \in Nat
    BY <2>1
  <2>6. Optionals(c, op) \in [1..Len(s) -> Expr]
    BY <2>2, <2>3, <2>4, <2>5
  <2>7. Optionals(c, op) \in Seq(Expr) /\ DOMAIN Optionals(c, op) = DOMAIN s
    BY <2>5, <2>6
  <2> QED
    BY <2>7 DEF s
<1> QED
  BY <1>3, <1>4, OpsApart DEF Of, ListOf, Globals

\* The path c declares the i-th expression of this list, and w is on it.
Declares(c, name, i, w) == w \in c.pc /\ i \in DOMAIN Of(c, name)

LEMMA MergeOneOK ==
    ASSUME NEW c, ContextOK(c), NEW name \in Globals, NEW v \in Seq(Expr)
    PROVE  /\ MergeOne(name, v, c) \in Seq(Expr) /\ Len(MergeOne(name, v, c)) = Len(v)
           /\ \A i \in 1..Len(v), w \in Inputs :
                  MergeOne(name, v, c)[i][w] =
                      IF Declares(c, name, i, w) THEN Of(c, name)[i][w] ELSE v[i][w]
<1> DEFINE u == MergeOne(name, v, c)
           x == Of(c, name)
           n == Len(v)
<1>1. x \in Seq(Expr) /\ n \in Nat /\ DOMAIN v = 1..n /\ \A i \in 1..n : v[i] \in Expr
  BY OfOK
<1>2. \A i \in DOMAIN x : x[i] \in Expr
  BY <1>1
<1>3. u = [j \in 1..n |-> IF j \in DOMAIN x THEN Ite(c.pc, x[j], v[j]) ELSE v[j]]
  BY <1>1 DEF MergeOne
<1>4. \A i, w : Declares(c, name, i, w) <=> w \in c.pc /\ i \in DOMAIN x
  BY DEF Declares
<1> HIDE DEF u, x, n
<1>5. ASSUME NEW i \in 1..n
      PROVE  /\ u[i] \in Expr
             /\ \A w \in Inputs :
                    u[i][w] = IF w \in c.pc /\ i \in DOMAIN x THEN x[i][w] ELSE v[i][w]
  <2>1. CASE i \in DOMAIN x
    <3>1. u[i] = Ite(c.pc, x[i], v[i])
      BY <1>3, <2>1
    <3>2. x[i] \in Expr /\ v[i] \in Expr
      BY <1>1, <1>2, <2>1
    <3> QED
      BY <2>1, <3>1, <3>2 DEF Ite, Expr
  <2>2. CASE i \notin DOMAIN x
    BY <1>1, <1>3, <2>2
  <2> QED
    BY <2>1, <2>2
<1>6. u \in [1..n -> Expr]
  BY <1>3, <1>5
<1>7. u \in Seq(Expr) /\ Len(u) = n
  BY <1>1, <1>6
<1> QED
  BY <1>4, <1>5, <1>7 DEF u, n, x

\* m is old with the values of the first k paths in force.
Merged(m, name, old, cs, k) ==
    /\ m \in Seq(Expr) /\ Len(m) = Len(old)
    /\ \A i \in 1..Len(old), w \in Inputs :
           \/ \E l \in 1..k : /\ Declares(cs[l], name, i, w)
                              /\ m[i][w] = Of(cs[l], name)[i][w]
           \/ /\ \A l \in 1..k : ~Declares(cs[l], name, i, w)
              /\ m[i][w] = old[i][w]

LEMMA MergedOne ==
    ASSUME NEW cs, PathsOK(cs), NEW name \in Globals, NEW old \in Seq(Expr),
           NEW k \in Nat, k + 1 \in DOMAIN cs, NEW m, Merged(m, name, old, cs, k)
    PROVE  Merged(MergeOne(name, m, cs[k + 1]), name, old, cs, k + 1)
<1> DEFINE c == cs[k + 1]
           u == MergeOne(name, m, c)
<1>1. m \in Seq(Expr) /\ Len(m) = Len(old) /\ ContextOK(c)
  BY DEF Merged, PathsOK
<1>2. /\ u \in Seq(Expr) /\ Len(u) = Len(old)
      /\ \A i \in 1..Len(old), w \in Inputs :
             u[i][w] = IF Declares(c, name, i, w) THEN Of(c, name)[i][w] ELSE m[i][w]
  <2> HIDE DEF c
  <2> QED
    BY <1>1, MergeOneOK
<1> HIDE DEF u
<1>3. ASSUME NEW i \in 1..Len(old), NEW w \in Inputs
      PROVE  \/ \E l \in 1..(k + 1) : /\ Declares(cs[l], name, i, w)
                                      /\ u[i][w] = Of(cs[l], name)[i][w]
             \/ /\ \A l \in 1..(k + 1) : ~Declares(cs[l], name, i, w)
                /\ u[i][w] = old[i][w]
  <2>1. k + 1 \in 1..(k + 1) /\ \A l \in 1..(k + 1) : l = k + 1 \/ l \in 1..k
    OBVIOUS
  <2>2. 1..k \subseteq 1..(k + 1)
    OBVIOUS
  <2>3. u[i][w] = IF Declares(c, name, i, w) THEN Of(c, name)[i][w] ELSE m[i][w]
    BY <1>2
  <2>4. \/ \E l \in 1..k : /\ Declares(cs[l], name, i, w)
                           /\ m[i][w] = Of(cs[l], name)[i][w]
        \/ /\ \A l \in 1..k : ~Declares(cs[l], name, i, w)
           /\ m[i][w] = old[i][w]
    BY DEF Merged
  <2> QED
    BY <2>1, <2>2, <2>3, <2>4
<1> QED
  BY <1>2, <1>3 DEF Merged, u

LEMMA MergedAll ==
    ASSUME NEW cs, PathsOK(cs), NEW name \in Globals, NEW old \in Seq(Expr)
    PROVE  Merged(MergedInto(name, old, cs), name, old, cs, Len(cs))
<1> DEFINE n == Len(cs)
<1>1. n \in Nat /\ DOMAIN cs = 1..n
  BY DEF PathsOK
<1> HIDE DEF n
<1>2. PICK it : Loop(it, name, old, cs, n) /\ MergedInto(name, old, cs) = it[1..n]
  BY <1>1, MergedLoop
<1> DEFINE P(k) == Merged(it[1..k], name, old, cs, k)
           S == {k \in Nat : k <= n => P(k)}
<1>3. 0 \in S
  <2>1. it[1..0] = old
    BY <1>2 DEF Loop
  <2>2. Merged(old, name, old, cs, 0)
    <3>1. 1..0 = {}
      OBVIOUS
    <3> QED
      BY <3>1 DEF Merged
  <2> QED
    BY <2>1, <2>2
<1>4. ASSUME NEW k \in Nat, k \in S PROVE k + 1 \in S
  <2>1. SUFFICES ASSUME k + 1 <= n PROVE P(k + 1)
    OBVIOUS
  <2>2. k \in 0..(n - 1) /\ k <= n /\ k + 1 \in DOMAIN cs
    BY <1>1, <2>1
  <2>3. it[1..(k + 1)] = OneMore(name, it[1..k], cs[k + 1])
    BY <1>2, <2>2 DEF Loop
  <2>4. OneMore(name, it[1..k], cs[k + 1]) = MergeOne(name, it[1..k], cs[k + 1])
    BY DEF OneMore, Globals
  <2>5. P(k)
    BY <1>4, <2>2
  <2> DEFINE m == it[1..k]
  <2>6. Merged(m, name, old, cs, k)
    BY <2>5
  <2> HIDE DEF m
  <2>7. Merged(MergeOne(name, m, cs[k + 1]), name, old, cs, k + 1)
    BY <2>2, <2>6, MergedOne
  <2> QED
    BY <2>3, <2>4, <2>7 DEF m
<1> HIDE DEF S
<1>5. n \in S
  BY <1>1, <1>3, <1>4, NatSetInduction
<1>6. P(n)
  BY <1>1, <1>5 DEF S
<1> QED
  BY <1>2, <1>6 DEF n

-----------------------------------------------------------------------------
(* Counting the patterns.                                                  *)

\* The path happens, declares the pattern, and the pattern holds on it; and
\* what Z3 lets the loop see of that.
Bears(c, desc)  == c.pc # {} /\ desc \in DOMAIN c.reg[Postcond] /\ Valid(c, desc)
Scores(h, desc) == h.sat /\ desc \in DOMAIN h.kept /\ h.kept[desc]

LEMMA HeardRight ==
    ASSUME NEW lost, NEW unsure, NEW k \in DOMAIN contexts,
           NEW desc, desc \notin Unheard(lost, unsure)
    PROVE  Scores(Heard(k, lost, unsure), desc) <=> Bears(contexts[k], desc)
<1> DEFINE r == contexts[k].reg[Postcond]
           h == Heard(k, lost, unsure)
<1>1. h.sat <=> contexts[k].pc # {} /\ k \notin lost
  BY DEF Heard
<1>2. DOMAIN h.kept = DOMAIN r
  BY DEF Heard
<1>3. desc \in DOMAIN r => (h.kept[desc] <=> Valid(contexts[k], desc) \/ <<k, desc>> \in unsure)
  BY DEF Heard
<1>4. <<k, desc>> \notin unsure
  BY DEF Unheard
<1>5. desc \in DOMAIN r => k \notin lost
  BY DEF Unheard
<1> HIDE DEF r, h
<1>6. Scores(h, desc) <=> contexts[k].pc # {} /\ desc \in DOMAIN r /\ Valid(contexts[k], desc)
  BY <1>1, <1>2, <1>3, <1>4, <1>5, Zenon DEF Scores
<1> QED
  BY <1>6 DEF Bears, r, h

CountOf(m, desc) == IF desc \in DOMAIN m THEN m[desc] ELSE 0

\* After k paths a count is k exactly when each of them scores.
CountsOK(m, hs, k) ==
    \A desc : /\ CountOf(m, desc) \in Int /\ CountOf(m, desc) <= k
              /\ CountOf(m, desc) = k <=> \A l \in 1..k : Scores(hs[l], desc)

LEMMA CountedOne ==
    ASSUME NEW hs, NEW k \in Nat, NEW m, CountsOK(m, hs, k)
    PROVE  CountsOK(CountOne(m, hs[k + 1]), hs, k + 1)
<1> DEFINE h == hs[k + 1]
           u == CountOne(m, h)
           delta(desc) == IF ~h.sat \/ desc \notin DOMAIN h.kept THEN 0
                          ELSE IF h.kept[desc] THEN 1 ELSE -1
<1>1. \A desc : delta(desc) \in {-1, 0, 1} /\ (delta(desc) = 1 <=> Scores(h, desc))
  BY DEF Scores
<1>2. ASSUME NEW desc PROVE CountOf(u, desc) = CountOf(m, desc) + delta(desc)
  <2>0. CountOf(m, desc) \in Int
    BY DEF CountsOK
  <2>1. CASE ~h.sat
    <3>1. u = m /\ delta(desc) = 0
      BY <2>1 DEF CountOne
    <3> QED
      BY <2>0, <3>1
  <2>2. CASE h.sat
    <3>1. u = Count(m, h)
      BY <2>2 DEF CountOne
    <3>2. DOMAIN u = DOMAIN m \cup DOMAIN h.kept
      BY <3>1 DEF Count
    <3>3. desc \in DOMAIN u => u[desc] = CountOf(m, desc) + delta(desc)
      BY <2>2, <3>1 DEF Count, CountOf
    <3>4. desc \notin DOMAIN u => CountOf(m, desc) = 0 /\ delta(desc) = 0
      BY <3>2 DEF CountOf
    <3> HIDE DEF u, delta
    <3> QED
      BY <2>0, <3>3, <3>4 DEF CountOf
  <2> QED
    BY <2>1, <2>2
<1> HIDE DEF u, delta
<1>3. ASSUME NEW desc
      PROVE  /\ CountOf(u, desc) \in Int /\ CountOf(u, desc) <= k + 1
             /\ CountOf(u, desc) = k + 1 <=> \A l \in 1..(k + 1) : Scores(hs[l], desc)
  <2>1. k + 1 \in 1..(k + 1) /\ \A l \in 1..(k + 1) : l = k + 1 \/ l \in 1..k
    OBVIOUS
  <2>2. 1..k \subseteq 1..(k + 1)
    OBVIOUS
  <2>3. (\A l \in 1..(k + 1) : Scores(hs[l], desc)) <=>
            (\A l \in 1..k : Scores(hs[l], desc)) /\ Scores(h, desc)
    BY <2>1, <2>2
  <2>4. /\ CountOf(m, desc) \in Int /\ CountOf(m, desc) <= k
        /\ CountOf(m, desc) = k <=> \A l \in 1..k : Scores(hs[l], desc)
    BY DEF CountsOK
  <2>5. CountOf(u, desc) = CountOf(m, desc) + delta(desc) /\ delta(desc) \in {-1, 0, 1}
        /\ (delta(desc) = 1 <=> Scores(h, desc))
    BY <1>1, <1>2
  <2>6. CountOf(u, desc) = k + 1 <=> CountOf(m, desc) = k /\ delta(desc) = 1
    BY <2>4, <2>5
  <2>7. CountOf(u, desc) \in Int /\ CountOf(u, desc) <= k + 1
    BY <2>4, <2>5
  <2> QED
    BY <2>3, <2>4, <2>5, <2>6, <2>7
<1> QED
  BY <1>3 DEF CountsOK, u

LEMMA CountedAll ==
    ASSUME NEW hs, NEW n \in Nat, DOMAIN hs = 1..n
    PROVE  CountsOK(Counted(<<>>, hs), hs, n)
<1>1. PICK it : Loop(it, "patterns", <<>>, hs, n) /\ Counted(<<>>, hs) = it[1..n]
  BY CountedLoop
<1> DEFINE S == {k \in Nat : k <= n => CountsOK(it[1..k], hs, k)}
<1>2. 0 \in S
  <2>1. it[1..0] = <<>>
    BY <1>1 DEF Loop
  <2>2. \A desc : CountOf(<<>>, desc) = 0
    BY DEF CountOf
  <2>3. 1..0 = {}
    OBVIOUS
  <2>4. CountsOK(<<>>, hs, 0)
    BY <2>2, <2>3 DEF CountsOK
  <2> QED
    BY <2>1, <2>4
<1>3. ASSUME NEW k \in Nat, k \in S PROVE k + 1 \in S
  <2>1. SUFFICES ASSUME k + 1 <= n PROVE CountsOK(it[1..(k + 1)], hs, k + 1)
    OBVIOUS
  <2>2. k \in 0..(n - 1) /\ k <= n
    BY <2>1
  <2> DEFINE m == it[1..k]
  <2>3. it[1..(k + 1)] = CountOne(m, hs[k + 1])
    BY <1>1, <2>2 DEF Loop, OneMore
  <2>4. CountsOK(m, hs, k)
    BY <1>3, <2>2
  <2> HIDE DEF m
  <2>5. CountsOK(CountOne(m, hs[k + 1]), hs, k + 1)
    BY <2>4, CountedOne
  <2> QED
    BY <2>3, <2>5
<1> HIDE DEF S
<1>4. n \in S
  BY <1>2, <1>3, NatSetInduction
<1> QED
  BY <1>1, <1>4 DEF S

-----------------------------------------------------------------------------
(* What the paths of a function say, and what is in the globals.           *)

LEMMA DeclaredIs ==
    ASSUME NEW f, PathsOK(Paths(f)), NEW name, NEW i, NEW w
    PROVE  /\ \A k \in DOMAIN Paths(f) : Declares(Paths(f)[k], name, i, w) =>
                  Declared(f, name, i, w) = Of(Paths(f)[k], name)[i][w]
           /\ (\A k \in DOMAIN Paths(f) : ~Declares(Paths(f)[k], name, i, w)) =>
                  Declared(f, name, i, w) = 0
<1> DEFINE cs == Paths(f)
           ks == {k \in DOMAIN cs : w \in cs[k].pc /\ i \in DOMAIN Of(cs[k], name)}
<1>1. Declared(f, name, i, w) =
          IF ks = {} THEN 0 ELSE Of(cs[CHOOSE k \in ks : TRUE], name)[i][w]
  BY Zenon DEF Declared
<1>2. \A k \in DOMAIN cs : k \in ks <=> Declares(cs[k], name, i, w)
  BY DEF Declares
<1>3. \A k, l \in ks : k = l
  BY DEF PathsOK
<1>4. ks \subseteq DOMAIN cs
  OBVIOUS
<1> HIDE DEF ks, cs
<1>5. ASSUME NEW k \in ks PROVE (CHOOSE l \in ks : TRUE) = k
  <2>1. (CHOOSE l \in ks : TRUE) \in ks
    BY <1>5
  <2> QED
    BY <1>3, <1>5, <2>1
<1>6. ASSUME NEW k \in DOMAIN cs, Declares(cs[k], name, i, w)
      PROVE  Declared(f, name, i, w) = Of(cs[k], name)[i][w]
  <2>1. k \in ks /\ ks # {}
    BY <1>2, <1>6
  <2> QED
    BY <1>1, <1>5, <2>1
<1>7. (\A k \in DOMAIN cs : ~Declares(cs[k], name, i, w)) => ks = {}
  BY <1>2, <1>4
<1> QED
  BY <1>1, <1>6, <1>7 DEF cs

-----------------------------------------------------------------------------
(* The invariant of the loop over the functions.                           *)

MergedStages  == {"mechanism", "patterns", "choose", "report"} \cup DOMAIN Following
CountedStages == {"choose", "report"} \cup DOMAIN Following

GlobalsOK == g \in [Globals -> Seq(Expr)]

HandOK == stage \in {"merge"} \cup MergedStages =>
              /\ fn \in DOMAIN program.funcs
              /\ program.main => Function.name = "main"

\* Nothing is left by earlier functions when there are none.
Fresh ==
    First(fn) =>
        /\ stage \in {"execute", "merge"} => \A name \in Globals : g[name] = <<>>
        /\ stage \in {"execute", "merge", "mechanism", "patterns"} => patterns = <<>>

\* A global has room for what each path declares, and it has the declared
\* value wherever a path declares one, for the first function everywhere.
Holds(name) ==
    /\ \A k \in DOMAIN contexts : DOMAIN Of(contexts[k], name) \subseteq DOMAIN g[name]
    /\ \A i \in DOMAIN g[name], w \in Inputs :
           First(fn) \/ (\E k \in DOMAIN contexts : Declares(contexts[k], name, i, w))
           => g[name][i][w] = Declared(fn, name, i, w)
MergedOK == stage \in MergedStages => \A name \in Globals : Holds(name)

\* The counts say what the paths bear, where Z3 has not given up.
CountsRight(m) ==
    \A desc : ~Unknown(fn, Postcond, desc) =>
        (CountOf(m, desc) = Len(contexts) <=>
             \A l \in 1..Len(contexts) : Bears(contexts[l], desc))

PatternsOK ==
    stage \in CountedStages /\ First(fn) => patterns = <<>> \/ CountsRight(patterns)

DInv == TypeOK /\ GlobalsOK /\ HandOK /\ Fresh /\ MergedOK /\ PatternsOK

LEMMA PathsAre ==
    ASSUME program \in Programs, NEW f \in DOMAIN program.funcs
    PROVE  PathsOK(Paths(f))
<1>1. program.funcs \in Seq(DOMAIN Functions)
  BY HarnessAssumption
<1>2. program.funcs[f] \in DOMAIN Functions
  BY <1>1
<1> QED
  BY <1>2, ExecutedOK DEF Paths

LEMMA HandPaths ==
    ASSUME TypeOK, HandOK, stage \in {"merge"} \cup MergedStages
    PROVE  contexts = Paths(fn) /\ PathsOK(contexts)
<1>1. contexts = Paths(fn)
  BY DEF contexts, Paths
<1> QED
  BY <1>1, PathsAre DEF TypeOK, HandOK

\* Most steps only move on.
Quiet ==
    /\ UNCHANGED <<program, fn, g, patterns>> /\ undecided \subseteq undecided'
    /\ \/ stage' = stage
       \/ stage' \in {"end", "aborted", "undefined"}
       \/ /\ stage = "execute" /\ stage' = "merge" /\ fn \in DOMAIN program.funcs
          /\ program.main => Function.name = "main"
       \/ stage = "mechanism" /\ stage' = "patterns"
       \/ stage \in DOMAIN Following /\ stage' \in {"report"} \cup DOMAIN Following

LEMMA FollowingNext ==
    \A s \in DOMAIN Following : Following[s] \in {"report"} \cup DOMAIN Following
BY FollowingDomain DEF Following, Truthful, Collusion, Efficient, Optimal

LEMMA StepKinds ==
    ASSUME TypeOK, [Next]_vars
    PROVE  Skip \/ Synthesis \/ Patterns \/ Choose \/ Report \/ Quiet
<1>1. ASSUME Execute PROVE Quiet
  BY <1>1 DEF Execute, Goto, Quiet
<1>2. ASSUME Examine PROVE Quiet
  BY <1>2 DEF Examine, Goto, Quiet
<1>3. ASSUME NoMore PROVE Quiet
  BY <1>3, FollowingNext DEF NoMore, Leave, Goto, Quiet
<1>4. ASSUME Deviate PROVE Quiet
  <2>1. undecided \subseteq undecided'
    BY <1>4 DEF Deviate, Decided, GivenUp
  <2>2. UNCHANGED <<program, fn, g, patterns>> /\ (stage' = stage \/ stage' = "undefined")
    BY <1>4 DEF Deviate, Step, Goto
  <2> QED
    BY <2>1, <2>2 DEF Quiet
<1>5. ASSUME Compare PROVE Quiet
  <2>1. UNCHANGED <<program, fn, g, patterns>> /\ stage \in DOMAIN Following
    BY <1>5, FollowingDomain DEF Compare
  <2>2. Leave \/ Step
    BY <1>5, Zenon DEF Compare
  <2>3. undecided \subseteq undecided'
    BY <1>5 DEF Compare, Decided, GivenUp
  <2> QED
    BY <2>1, <2>2, <2>3, FollowingNext DEF Leave, Step, Goto, Quiet
<1>6. ASSUME CompareInterrupted PROVE Quiet
  BY <1>6 DEF CompareInterrupted, Step, Quiet
<1>7. ASSUME Finish \/ Uncaught PROVE Quiet
  BY <1>7 DEF Finish, Uncaught, Goto, Quiet
<1>8. ASSUME Over \/ UNCHANGED vars PROVE Quiet
  BY <1>8 DEF Over, vars, Quiet
<1> QED
  BY <1>1, <1>2, <1>3, <1>4, <1>5, <1>6, <1>7, <1>8 DEF Next

LEMMA StageSets ==
    /\ {"execute", "merge", "end", "aborted", "undefined"} \cap MergedStages = {}
    /\ CountedStages \subseteq MergedStages /\ DOMAIN Following \subseteq CountedStages
    /\ {"report", "choose"} \subseteq CountedStages
    /\ {"mechanism", "patterns"} \subseteq MergedStages
    /\ {"mechanism", "patterns"} \cap CountedStages = {}
    /\ {"report", "choose"} \cap DOMAIN Following = {}
BY StagesApart DEF MergedStages, CountedStages

\* What is said of a function depends on the program only.
LEMMA SameProgram ==
    ASSUME program' = program
    PROVE  /\ \A f : First(f)' <=> First(f)
           /\ \A f : Paths(f)' = Paths(f) /\ OnPaths(f)' = OnPaths(f)
           /\ \A f, name, i, w : Declared(f, name, i, w)' = Declared(f, name, i, w)
           /\ fn' = fn => contexts' = contexts /\ Function' = Function
<1>1. \A f : First(f)' <=> First(f)
  BY DEF First
<1>2. \A f : Paths(f)' = Paths(f)
  BY DEF Paths
<1>3. \A f : OnPaths(f)' = OnPaths(f)
  BY <1>2 DEF OnPaths
<1>4. \A f, name, i, w : Declared(f, name, i, w)' = Declared(f, name, i, w)
  BY DEF Declared, Paths
<1>5. fn' = fn => contexts' = contexts /\ Function' = Function
  BY DEF contexts, Function
<1> QED
  BY <1>1, <1>2, <1>3, <1>4, <1>5

LEMMA DInit == Init => DInv
<1> SUFFICES ASSUME Init PROVE DInv
  OBVIOUS
<1>1. TypeOK
  BY StagesApart DEF Init, TypeOK, Stages
<1>2. stage = "execute" /\ g = [name \in Globals |-> <<>>] /\ patterns = <<>>
  BY DEF Init
<1>3. GlobalsOK
  BY <1>2 DEF GlobalsOK
<1>4. HandOK /\ Fresh /\ MergedOK /\ PatternsOK
  BY <1>2, StageSets DEF HandOK, Fresh, MergedOK, PatternsOK
<1> QED
  BY <1>1, <1>3, <1>4 DEF DInv

LEMMA QuietStep == ASSUME DInv, Quiet, TypeOK' PROVE DInv'
<1>1. UNCHANGED <<program, fn, g, patterns>> /\ undecided \subseteq undecided'
  BY DEF Quiet
<1>2. /\ stage' \in MergedStages => stage \in MergedStages
      /\ stage' \in CountedStages => stage \in CountedStages
      /\ stage' \in DOMAIN Following => stage \in DOMAIN Following
      /\ stage' \in {"execute", "merge"} => stage \in {"execute", "merge"}
      /\ stage' \in {"execute", "merge", "mechanism", "patterns"} =>
             stage \in {"execute", "merge", "mechanism", "patterns"}
  BY StageSets, StagesApart DEF Quiet, MergedStages, CountedStages
<1>3. GlobalsOK'
  BY <1>1 DEF DInv, GlobalsOK
<1>4. HandOK'
  <2>1. Function' = Function
    BY <1>1 DEF Function
  <2> QED
    BY <1>1, <1>2, <2>1, StageSets DEF DInv, HandOK, Quiet
<1>5. Fresh'
  BY <1>1, <1>2, SameProgram DEF DInv, Fresh
<1>6. MergedOK'
  <2>1. contexts' = contexts /\ (First(fn)' <=> First(fn))
    BY <1>1 DEF contexts, First
  <2>2. \A name, i, w : Declared(fn, name, i, w)' = Declared(fn, name, i, w)
    BY <1>1 DEF Declared, Paths
  <2>3. \A name : Holds(name)' <=> Holds(name)
    BY <1>1, <2>1, <2>2 DEF Holds
  <2> QED
    BY <1>2, <2>3 DEF DInv, MergedOK
<1>7. PatternsOK'
  <2>1. contexts' = contexts /\ (First(fn)' <=> First(fn)) /\ patterns' = patterns
    BY <1>1 DEF contexts, First
  <2>2. CountsRight(patterns) => CountsRight(patterns)'
    BY <1>1, <2>1 DEF CountsRight, Unknown, Bears, Valid, CountOf
  <2> QED
    BY <1>2, <2>1, <2>2 DEF DInv, PatternsOK
<1> QED
  BY <1>3, <1>4, <1>5, <1>6, <1>7 DEF DInv

\* A function that is left has run unless it is skipped.
LEMMA FirstOnward ==
    ASSUME program' = program, fn' = fn + 1, fn \in Nat \ {0}, First(fn)'
    PROVE  First(fn) /\ program.main /\ Function.name # "main"
<1>1. \A e \in 1..((fn + 1) - 1) : program.main /\ Functions[program.funcs[e]].name # "main"
  BY DEF First
<1>2. fn >= 1 => First(fn) /\ program.main /\ Function.name # "main"
  <2> SUFFICES ASSUME fn >= 1 PROVE First(fn) /\ program.main /\ Function.name # "main"
    OBVIOUS
  <2>1. fn \in 1..((fn + 1) - 1) /\ 1..(fn - 1) \subseteq 1..((fn + 1) - 1)
    OBVIOUS
  <2> QED
    BY <1>1, <2>1 DEF First, Function
<1> QED
  BY <1>2

LEMMA SkipStep == ASSUME DInv, Skip, TypeOK' PROVE DInv'
<1>1. /\ stage = "execute" /\ stage' = "execute" /\ UNCHANGED <<program, g, patterns>>
      /\ fn' = fn + 1 /\ fn \in Nat \ {0}
  BY DEF Skip, DInv, TypeOK
<1>2. GlobalsOK'
  BY <1>1 DEF DInv, GlobalsOK
<1>3. Fresh'
  <2> SUFFICES ASSUME First(fn)'
               PROVE  (\A name \in Globals : g'[name] = <<>>) /\ patterns' = <<>>
    BY <1>1 DEF Fresh
  <2>1. First(fn)
    BY <1>1, FirstOnward
  <2> QED
    BY <1>1, <2>1 DEF DInv, Fresh
<1>4. HandOK' /\ MergedOK' /\ PatternsOK'
  BY <1>1, StageSets DEF HandOK, MergedOK, PatternsOK
<1> QED
  BY <1>2, <1>3, <1>4 DEF DInv

LEMMA ReportStep == ASSUME DInv, Report, TypeOK' PROVE DInv'
<1>1. /\ stage = "report" /\ stage' = "execute" /\ UNCHANGED <<program, g, patterns>>
      /\ fn' = fn + 1 /\ fn \in Nat \ {0}
  BY DEF Report, Goto, DInv, TypeOK
<1>2. GlobalsOK'
  BY <1>1 DEF DInv, GlobalsOK
<1>3. ~First(fn)'
  <2>1. program.main => Function.name = "main"
    BY <1>1, StageSets DEF DInv, HandOK
  <2> QED
    BY <1>1, <2>1, FirstOnward
<1>4. Fresh'
  BY <1>3 DEF Fresh
<1>5. HandOK' /\ MergedOK' /\ PatternsOK'
  BY <1>1, StageSets DEF HandOK, MergedOK, PatternsOK
<1> QED
  BY <1>2, <1>4, <1>5 DEF DInv

LEMMA PatternsStep == ASSUME DInv, Patterns, TypeOK' PROVE DInv'
<1> DEFINE Heards(lost, unsure) == [k \in DOMAIN contexts |-> Heard(k, lost, unsure)]
<1>1. /\ stage = "patterns" /\ stage' = "choose" /\ UNCHANGED <<program, fn, g>>
      /\ \/ patterns' = patterns
         \/ \E lost, unsure :
                /\ patterns' = Counted(patterns, Heards(lost, unsure))
                /\ undecided' = undecided \cup
                       {[fn |-> fn, op |-> Postcond, i |-> desc] : desc \in Unheard(lost, unsure)}
  BY Zenon DEF Patterns, Goto, Counted
<1>2. PathsOK(contexts)
  BY <1>1, HandPaths, StageSets DEF DInv
<1>3. contexts' = contexts /\ (First(fn)' <=> First(fn)) /\ Function' = Function
  BY <1>1 DEF contexts, First, Function
<1>4. GlobalsOK'
  BY <1>1 DEF DInv, GlobalsOK
<1>5. HandOK'
  BY <1>1, <1>3, StageSets DEF DInv, HandOK
<1>6. MergedOK'
  <2>1. \A name, i, w : Declared(fn, name, i, w)' = Declared(fn, name, i, w)
    BY <1>1 DEF Declared, Paths
  <2>2. \A name : Holds(name)' <=> Holds(name)
    BY <1>1, <1>3, <2>1 DEF Holds
  <2> QED
    BY <1>1, <2>2, StageSets DEF DInv, MergedOK
<1>7. PatternsOK'
  <2> SUFFICES ASSUME First(fn), patterns' # <<>> PROVE CountsRight(patterns)'
    BY <1>3 DEF PatternsOK
  <2>1. patterns = <<>>
    BY <1>1 DEF DInv, Fresh
  <2>2. PICK lost, unsure :
            /\ patterns' = Counted(<<>>, Heards(lost, unsure))
            /\ undecided' = undecided \cup
                   {[fn |-> fn, op |-> Postcond, i |-> desc] : desc \in Unheard(lost, unsure)}
    BY <1>1, <2>1
  <2> DEFINE hs == Heards(lost, unsure)
             n == Len(contexts)
  <2>3. n \in Nat /\ DOMAIN contexts = 1..n
    BY <1>2 DEF PathsOK
  <2>4. DOMAIN hs = 1..n /\ \A k \in 1..n : hs[k] = Heard(k, lost, unsure)
    BY <2>3
  <2>5. patterns' = Counted(<<>>, hs)
    BY <2>2
  <2> HIDE DEF hs
  <2>6. CountsOK(patterns', hs, n)
    BY <2>3, <2>4, <2>5, CountedAll
  <2>7. ASSUME NEW desc, ~Unknown(fn, Postcond, desc)'
        PROVE  CountOf(patterns', desc) = n <=> \A l \in 1..n : Bears(contexts[l], desc)
    <3>1. [fn |-> fn, op |-> Postcond, i |-> desc] \notin undecided'
      BY <1>1, <2>7 DEF Unknown
    <3>2. desc \notin Unheard(lost, unsure)
      BY <2>2, <3>1
    <3>3. \A l \in 1..n : Scores(hs[l], desc) <=> Bears(contexts[l], desc)
      BY <2>3, <2>4, <3>2, HeardRight
    <3> QED
      BY <2>6, <3>3 DEF CountsOK
  <2>8. CountsRight(patterns)' <=>
            \A desc : ~Unknown(fn, Postcond, desc)' =>
                (CountOf(patterns', desc) = n <=> \A l \in 1..n : Bears(contexts[l], desc))
    BY <1>3 DEF CountsRight, Bears, Valid, CountOf
  <2> QED
    BY <2>7, <2>8
<1>8. Fresh'
  BY <1>1, StageSets DEF Fresh
<1> QED
  BY <1>4, <1>5, <1>6, <1>7, <1>8 DEF DInv

LEMMA ChooseStep == ASSUME DInv, Choose, TypeOK' PROVE DInv'
<1>1. /\ stage = "choose" /\ UNCHANGED <<program, fn, g, patterns, undecided>>
      /\ stage' = "report" \/ stage' = Truthful
  BY DEF Choose, Goto
<1>2. PathsOK(contexts) /\ contexts = Paths(fn)
  BY <1>1, HandPaths, StageSets DEF DInv
<1>3. contexts' = contexts /\ (First(fn)' <=> First(fn)) /\ Function' = Function
  BY <1>1 DEF contexts, First, Function
<1>4. stage' \in CountedStages
  BY <1>1, FollowingDomain DEF CountedStages
<1>5. GlobalsOK'
  BY <1>1 DEF DInv, GlobalsOK
<1>6. HandOK'
  BY <1>1, <1>3, <1>4, StageSets DEF DInv, HandOK
<1>7. MergedOK'
  <2>1. \A name, i, w : Declared(fn, name, i, w)' = Declared(fn, name, i, w)
    BY <1>1 DEF Declared, Paths
  <2>2. \A name : Holds(name)' <=> Holds(name)
    BY <1>1, <1>3, <2>1 DEF Holds
  <2> QED
    BY <1>1, <2>2, StageSets DEF DInv, MergedOK
<1>8. PatternsOK'
  <2>1. CountsRight(patterns)' <=> CountsRight(patterns)
    BY <1>1, <1>3 DEF CountsRight, Unknown, Bears, Valid, CountOf
  <2> QED
    BY <1>1, <1>3, <2>1, StageSets DEF DInv, PatternsOK
<1>9. Fresh'
  BY <1>1, FollowingDomain, StagesApart DEF Fresh
<1> QED
  BY <1>5, <1>6, <1>7, <1>8, <1>9 DEF DInv

LEMMA SynthesisStep == ASSUME DInv, Synthesis, TypeOK' PROVE DInv'
<1>1. stage = "merge" /\ UNCHANGED <<program, fn, patterns, undecided>>
  BY DEF Synthesis
<1>2. PathsOK(contexts) /\ contexts = Paths(fn)
  BY <1>1, HandPaths DEF DInv
<1>3. contexts' = contexts /\ (First(fn)' <=> First(fn)) /\ Function' = Function
  BY <1>1 DEF contexts, First, Function
<1>4. CASE stage' = "undefined" /\ UNCHANGED g
  <2>1. Quiet
    BY <1>1, <1>4 DEF Quiet
  <2> QED
    BY <2>1, QuietStep
<1>5. CASE /\ ~ \E name \in Globals : Overrun(name)
           /\ g' = [name \in Globals |-> MergedInto(name, Extended(name), contexts)]
           /\ contexts # <<>> /\ stage' = "mechanism"
  <2>1. ASSUME NEW name \in Globals
        PROVE  /\ Extended(name) \in Seq(Expr)
               /\ \A k \in DOMAIN contexts :
                      DOMAIN Of(contexts[k], name) \subseteq 1..Len(Extended(name))
               /\ First(fn) => \A i \in 1..Len(Extended(name)), w \in Inputs :
                                   Extended(name)[i][w] = 0
    <3> DEFINE x == Of(contexts[1], name)
               z == [j \in DOMAIN x |-> Zero]
               s == g[name]
               e == Extended(name)
    <3>1. 1 \in DOMAIN contexts
      BY <1>2, <1>5 DEF PathsOK
    <3>2. x \in Seq(Expr)
      BY <1>2, <3>1, OfOK DEF PathsOK
    <3>3. Zero \in Expr /\ \A w \in Inputs : Zero[w] = 0
      BY DEF Zero, Expr
    <3>4. z \in Seq(Expr) /\ \A j \in 1..Len(z) : z[j] = Zero
      <4>1. DOMAIN x = 1..Len(x) /\ Len(x) \in Nat
        BY <3>2
      <4> HIDE DEF x
      <4>2. z \in [1..Len(x) -> Expr]
        BY <3>3, <4>1
      <4>3. Len(z) = Len(x)
        BY <4>1, <4>2
      <4> QED
        BY <4>1, <4>2, <4>3
    <3>5. s \in Seq(Expr)
      BY DEF DInv, GlobalsOK
    <3>6. e = s \o z
      BY DEF Extended
    <3>7. First(fn) => s = <<>>
      BY <1>1 DEF DInv, Fresh
    <3> HIDE DEF x, z, s, e
    <3>8. e \in Seq(Expr)
      BY <3>4, <3>5, <3>6
    <3>9. s = <<>> => e = z
      BY <3>4, <3>6
    <3>10. \A k \in DOMAIN contexts : DOMAIN Of(contexts[k], name) \subseteq 1..Len(e)
      <4> SUFFICES ASSUME NEW k \in DOMAIN contexts
                   PROVE  DOMAIN Of(contexts[k], name) \subseteq 1..Len(e)
        OBVIOUS
      <4>1. ~(Len(Of(contexts[k], name)) > Len(e))
        BY <1>5 DEF Overrun, e
      <4>2. Of(contexts[k], name) \in Seq(Expr)
        BY <1>2, OfOK DEF PathsOK
      <4> DEFINE y == Of(contexts[k], name)
      <4> HIDE DEF y
      <4>3. y \in Seq(Expr) /\ ~(Len(y) > Len(e))
        BY <4>1, <4>2 DEF y
      <4>4. DOMAIN y = 1..Len(y) /\ Len(y) \in Nat /\ Len(e) \in Nat
        BY <3>8, <4>3
      <4>5. DOMAIN y \subseteq 1..Len(e)
        BY <4>3, <4>4
      <4> QED
        BY <4>5 DEF y
    <3>11. s = <<>> => \A i \in 1..Len(e), w \in Inputs : e[i][w] = 0
      BY <3>3, <3>4, <3>9
    <3> QED
      BY <3>7, <3>8, <3>10, <3>11 DEF e
  <2>2. ASSUME NEW name \in Globals
        PROVE  Merged(g'[name], name, Extended(name), contexts, Len(contexts))
    <3> DEFINE e == Extended(name)
               cs == contexts
    <3>1. g'[name] = MergedInto(name, e, cs)
      BY <1>5
    <3>2. e \in Seq(Expr) /\ PathsOK(cs)
      BY <1>2, <2>1
    <3> HIDE DEF e, cs
    <3>3. Merged(MergedInto(name, e, cs), name, e, cs, Len(cs))
      BY <3>2, MergedAll
    <3> QED
      BY <3>1, <3>3 DEF e, cs
  <2>3. GlobalsOK'
    <3>1. \A name \in Globals : g'[name] \in Seq(Expr)
      BY <2>2 DEF Merged
    <3>2. g' = [name \in Globals |-> g'[name]]
      BY <1>5
    <3> QED
      BY <3>1, <3>2, Zenon DEF GlobalsOK
  <2>4. MergedOK'
    <3> SUFFICES ASSUME NEW name \in Globals PROVE Holds(name)'
      BY DEF MergedOK
    <3> DEFINE cs == contexts
               e == Extended(name)
               n == Len(cs)
               m == g'[name]
    <3>1. PathsOK(cs) /\ cs = Paths(fn) /\ DOMAIN cs = 1..n
      BY <1>2 DEF PathsOK
    <3>2. /\ e \in Seq(Expr)
          /\ \A k \in DOMAIN cs : DOMAIN Of(cs[k], name) \subseteq 1..Len(e)
          /\ First(fn) => \A i \in 1..Len(e), w \in Inputs : e[i][w] = 0
      BY <2>1
    <3>3. Merged(m, name, e, cs, n)
      BY <2>2
    <3>4. m \in Seq(Expr) /\ Len(m) = Len(e)
      BY <3>3 DEF Merged
    <3>5. DOMAIN m = 1..Len(e)
      BY <3>4
    <3>6. ASSUME NEW i \in 1..Len(e), NEW w \in Inputs,
                 First(fn) \/ \E k \in DOMAIN cs : Declares(cs[k], name, i, w)
          PROVE  m[i][w] = Declared(fn, name, i, w)
      <4>1. /\ \A k \in 1..n : Declares(cs[k], name, i, w) =>
                   Declared(fn, name, i, w) = Of(cs[k], name)[i][w]
            /\ (\A k \in 1..n : ~Declares(cs[k], name, i, w)) =>
                   Declared(fn, name, i, w) = 0
        BY <3>1, DeclaredIs
      <4>2. \/ \E l \in 1..n : /\ Declares(cs[l], name, i, w)
                               /\ m[i][w] = Of(cs[l], name)[i][w]
            \/ /\ \A l \in 1..n : ~Declares(cs[l], name, i, w)
               /\ m[i][w] = e[i][w]
        <5> HIDE DEF m, e, cs, n
        <5> QED
          BY <3>3 DEF Merged
      <4>3. First(fn) => e[i][w] = 0
        BY <3>2
      <4> HIDE DEF m, e, cs, n
      <4> QED
        BY <3>1, <3>6, <4>1, <4>2, <4>3
    <3>7. \A i, w : Declared(fn, name, i, w)' = Declared(fn, name, i, w)
      BY <1>1 DEF Declared, Paths
    <3>8. \A k \in DOMAIN contexts' : DOMAIN Of(contexts'[k], name) \subseteq DOMAIN g'[name]
      <4>1. \A k \in DOMAIN cs : DOMAIN Of(cs[k], name) \subseteq DOMAIN m
        <5> HIDE DEF m, e, cs, n
        <5> QED
          BY <3>2, <3>5
      <4> QED
        BY <1>3, <4>1
    <3>9. \A i \in DOMAIN g'[name], w \in Inputs :
              First(fn)' \/ (\E k \in DOMAIN contexts' : Declares(contexts'[k], name, i, w))
              => g'[name][i][w] = Declared(fn, name, i, w)'
      <4>1. \A i \in DOMAIN m, w \in Inputs :
                First(fn) \/ (\E k \in DOMAIN cs : Declares(cs[k], name, i, w))
                => m[i][w] = Declared(fn, name, i, w)
        <5> HIDE DEF m, e, cs, n
        <5> QED
          BY <3>5, <3>6
      <4> QED
        BY <1>3, <3>7, <4>1
    <3> QED
      BY <3>8, <3>9 DEF Holds
  <2>5. HandOK'
    BY <1>1, <1>3, <1>5, StageSets DEF DInv, HandOK
  <2>6. Fresh'
    BY <1>1, <1>3, <1>5 DEF DInv, Fresh
  <2>7. PatternsOK'
    BY <1>5, StageSets DEF PatternsOK
  <2> QED
    BY <2>3, <2>4, <2>5, <2>6, <2>7 DEF DInv
<1> QED
  BY <1>4, <1>5 DEF Synthesis, Goto

LEMMA DStep == DInv /\ [Next]_vars => DInv'
<1> SUFFICES ASSUME DInv, [Next]_vars PROVE DInv'
  OBVIOUS
<1>1. TypeOK /\ TypeOK'
  BY TypeStep DEF DInv
<1>2. Skip \/ Synthesis \/ Patterns \/ Choose \/ Report \/ Quiet
  BY <1>1, StepKinds
<1> QED
  BY <1>1, <1>2, SkipStep, SynthesisStep, PatternsStep, ChooseStep, ReportStep, QuietStep

-----------------------------------------------------------------------------
(* What the queries ask is what the paths say.                             *)

LEMMA RequestIs ==
    ASSUME DInv, stage \in DOMAIN Following, index \in DOMAIN Requests(stage)
    PROVE  /\ PathsOK(contexts) /\ contexts = Paths(fn) /\ cur \in DOMAIN contexts
           /\ Request \in Directives
           /\ \A name \in Globals : Holds(name)
<1>1. PathsOK(contexts) /\ contexts = Paths(fn)
  BY HandPaths, StageSets DEF DInv
<1>2. cur \in DOMAIN contexts
  BY DEF DInv, TypeOK
<1>4. contexts[cur].done \in [Lists -> Seq(Directives)] /\ stage \in Lists
  BY <1>1, <1>2, FollowingDomain, OpsApart DEF PathsOK, ContextOK, Context
<1>5. Requests(stage) \in Seq(Directives)
  BY <1>4 DEF Requests
<1>6. Request \in Directives
  BY <1>5 DEF Request
<1>7. \A name \in Globals : Holds(name)
  BY StageSets DEF DInv, MergedOK
<1> QED
  BY <1>1, <1>2, <1>6, <1>7

LEMMA PathsInside == ASSUME NEW f, PathsOK(Paths(f)) PROVE OnPaths(f) \subseteq Inputs
<1>1. \A k \in DOMAIN Paths(f) : Paths(f)[k].pc \subseteq Inputs
  BY DEF PathsOK, ContextOK, Context
<1> QED
  BY <1>1 DEF OnPaths

LEMMA LieQuery ==
    ASSUME DInv, stage \in {Truthful, Collusion}, index \in DOMAIN Requests(stage),
           index \in DOMAIN Merged1
    PROVE  /\ First(fn) /\ Tempted # {} => Violated(fn, stage, index, Request.who, Inputs)
           /\ Untainted(fn, stage, index) /\ Tempted = {} =>
                  ~Violated(fn, stage, index, Request.who, OnPaths(fn))
<1> DEFINE name == Lied(stage)
           who  == Request.who
           D(w) == Declared(fn, name, index, w)
           G(w) == g[name][index][w]
           Pays(among) == \E w \in among \cap Honest(who) :
                              \E v \in among \cap Deviations(who, w) : D(w) < D(v)
<1>1. stage \in DOMAIN Following
  BY FollowingDomain
<1>2. /\ PathsOK(contexts) /\ contexts = Paths(fn)
      /\ Request \in Directives /\ \A n \in Globals : Holds(n)
  BY <1>1, RequestIs
<1>3. name \in Globals /\ index \in DOMAIN g[name]
  BY DEF Lied, Globals, Merged1
<1>4. \A among : Violated(fn, stage, index, Request.who, among) <=> Pays(among)
  <2>1. stage = Truthful => name = "utilities"
    BY DEF Lied
  <2>2. stage = Collusion => name = "collude_utilities" /\ stage # Truthful
    BY DEF Lied, Truthful, Collusion
  <2> DEFINE a == Request.who
             P(n, among) == \E w \in among \cap Honest(a) :
                                \E v \in among \cap Deviations(a, w) :
                                    Declared(fn, n, index, w) < Declared(fn, n, index, v)
  <2>0. /\ Truthful # Collusion /\ Truthful # Efficient /\ Truthful # Optimal
        /\ Collusion # Efficient /\ Collusion # Optimal
    BY DEF Truthful, Collusion, Efficient, Optimal
  <2>3. a = who
    OBVIOUS
  <2>4. stage = Truthful => \A among : Violated(fn, stage, index, Request.who, among) <=> P("utilities", among)
    BY <2>0 DEF Violated
  <2>5. stage = Collusion =>
            \A among : Violated(fn, stage, index, Request.who, among) <=> P("collude_utilities", among)
    BY <2>0 DEF Violated
  <2>6. \A among : Violated(fn, stage, index, Request.who, among) <=> P(name, among)
    <3> HIDE DEF P, name
    <3> QED
      BY <2>1, <2>2, <2>4, <2>5 DEF name
  <2>7. \A among : P(name, among) <=> Pays(among)
    <3> HIDE DEF name, a, who
    <3> QED
      BY <2>3
  <2> QED
    BY <2>6, <2>7
<1>5. Tempted = {w \in Inputs \cap Honest(who) : \E v \in Deviations(who, w) : G(w) < G(v)}
  BY DEF Tempted, Merged1
<1>6. \A w \in Inputs : Deviations(who, w) \subseteq Inputs
  BY <1>2, HarnessAssumption DEF Directives
<1>7. OnPaths(fn) \subseteq Inputs
  BY <1>2, PathsInside
<1>8. First(fn) => \A w \in Inputs : G(w) = D(w)
  BY <1>2, <1>3 DEF Holds
<1>9. Untainted(fn, stage, index) => \A w \in OnPaths(fn) : G(w) = D(w)
  <2> SUFFICES ASSUME Untainted(fn, stage, index), NEW w \in OnPaths(fn), ~First(fn)
               PROVE  G(w) = D(w)
    BY <1>7, <1>8
  <2>1. PICK k \in DOMAIN contexts : w \in contexts[k].pc
    BY <1>2 DEF OnPaths
  <2>2. stage \notin {Efficient, Optimal}
    BY DEF Truthful, Collusion, Efficient, Optimal
  <2>3. index \in DOMAIN Of(contexts[k], name)
    BY <1>2, <2>1, <2>2 DEF Untainted
  <2>4. Declares(contexts[k], name, index, w) /\ w \in Inputs
    BY <1>7, <2>1, <2>3 DEF Declares
  <2> QED
    BY <1>2, <1>3, <2>4 DEF Holds
<1> HIDE DEF name, who, D, G
<1>10. ASSUME First(fn), Tempted # {} PROVE Pays(Inputs)
  <2>1. PICK w \in Inputs \cap Honest(who) : \E v \in Deviations(who, w) : G(w) < G(v)
    BY <1>5, <1>10
  <2>2. PICK v \in Deviations(who, w) : G(w) < G(v)
    BY <2>1
  <2>3. v \in Inputs \cap Deviations(who, w) /\ D(w) < D(v)
    BY <1>6, <1>8, <1>10, <2>2
  <2> QED
    BY <2>3
<1>11. ASSUME Untainted(fn, stage, index), Pays(OnPaths(fn)) PROVE Tempted # {}
  <2>1. PICK w \in OnPaths(fn) \cap Honest(who) :
            \E v \in OnPaths(fn) \cap Deviations(who, w) : D(w) < D(v)
    BY <1>11
  <2>2. PICK v \in OnPaths(fn) \cap Deviations(who, w) : D(w) < D(v)
    BY <2>1
  <2>3. G(w) < G(v) /\ w \in Inputs
    BY <1>7, <1>9, <1>11, <2>2
  <2> QED
    BY <1>5, <2>1, <2>2, <2>3
<1> QED
  BY <1>4, <1>10, <1>11

LEMMA LossQuery ==
    ASSUME DInv, stage \in {Efficient, Optimal}, index \in DOMAIN Requests(stage)
    PROVE  /\ First(fn) /\ Worse # {} => Violated(fn, stage, index, Request.who, Inputs)
           /\ Worse = {} => ~Violated(fn, stage, index, Request.who, OnPaths(fn))
<1> DEFINE less == Names[1]
           more == Names[2]
           D(n, w) == Declared(fn, n, index, w)
           G(n, w) == g[n][index][w]
           Loses(among) == \E w \in among : D(less, w) < D(more, w)
<1>1. stage \in DOMAIN Following
  BY FollowingDomain
<1>2. /\ PathsOK(contexts) /\ contexts = Paths(fn) /\ \A n \in Globals : Holds(n)
      /\ cur \in DOMAIN contexts
  BY <1>1, RequestIs
<1>3. /\ less \in Globals /\ more \in Globals
      /\ ListOf(less) = stage /\ ListOf(more) = stage
  BY OpsApart DEF Names, Globals, ListOf, Efficient, Optimal
<1>4. \A among : Violated(fn, stage, index, Request.who, among) <=> Loses(among)
  <2>1. stage = Efficient => less = "benefits" /\ more = "optional_benefits"
    BY DEF Names
  <2>2. stage = Optimal => less = "payments" /\ more = "optional_payments"
    BY DEF Names, Efficient, Optimal
  <2>3. stage # Truthful /\ stage # Collusion /\ Efficient # Optimal
    BY DEF Truthful, Collusion, Efficient, Optimal
  <2> QED
    BY <2>1, <2>2, <2>3 DEF Violated
<1>5. Better(index) = {w \in Inputs : G(less, w) < G(more, w)}
  BY DEF Better
<1>6. Worse = {} <=> Better(index) = {}
  BY DEF Worse
<1>7. OnPaths(fn) \subseteq Inputs
  BY <1>2, PathsInside
<1>8. \A n \in {less, more} : index \in DOMAIN g[n]
  <2> SUFFICES ASSUME NEW n \in {less, more} PROVE index \in DOMAIN g[n]
    OBVIOUS
  <2>1. DOMAIN Of(contexts[cur], n) = DOMAIN contexts[cur].done[stage]
    BY <1>2, <1>3, OfOK DEF PathsOK
  <2>2. DOMAIN Of(contexts[cur], n) \subseteq DOMAIN g[n]
    BY <1>2, <1>3 DEF Holds
  <2> QED
    BY <2>1, <2>2 DEF Requests
<1>9. First(fn) => \A n \in {less, more}, w \in Inputs : G(n, w) = D(n, w)
  BY <1>2, <1>3, <1>8 DEF Holds
\* Where a path declares no benefit, none is lost.
<1>10. ASSUME NEW w \in OnPaths(fn), D(less, w) < D(more, w)
       PROVE  G(less, w) < G(more, w)
  <2>1. PICK k \in DOMAIN contexts : w \in contexts[k].pc
    BY <1>2 DEF OnPaths
  <2>2. DOMAIN Of(contexts[k], less) = DOMAIN Of(contexts[k], more)
    BY <1>2, <1>3, OfOK DEF PathsOK
  <2>3. CASE index \in DOMAIN Of(contexts[k], less)
    <3>1. \A n \in {less, more} : Declares(contexts[k], n, index, w)
      BY <2>1, <2>2, <2>3 DEF Declares
    <3>2. \A n \in {less, more} : G(n, w) = D(n, w)
      BY <1>2, <1>3, <1>7, <1>8, <3>1 DEF Holds
    <3> QED
      BY <1>10, <3>2
  <2>4. CASE index \notin DOMAIN Of(contexts[k], less)
    <3>1. \A n \in {less, more}, l \in DOMAIN contexts : ~Declares(contexts[l], n, index, w)
      BY <1>2, <2>1, <2>2, <2>4 DEF Declares, PathsOK
    <3>2. \A n \in {less, more} : D(n, w) = 0
      BY <1>2, <3>1, DeclaredIs
    <3> QED
      BY <1>10, <3>2
  <2> QED
    BY <2>3, <2>4
<1> HIDE DEF less, more, D, G
<1>11. ASSUME First(fn), Worse # {} PROVE Loses(Inputs)
  <2>1. PICK w \in Inputs : G(less, w) < G(more, w)
    BY <1>5, <1>6, <1>11
  <2> QED
    BY <1>9, <1>11, <2>1
<1>12. ASSUME Loses(OnPaths(fn)) PROVE Worse # {}
  BY <1>5, <1>6, <1>7, <1>10, <1>12
<1> QED
  BY <1>4, <1>11, <1>12

-----------------------------------------------------------------------------
(* The answers.                                                            *)

\* An answer given now is about the request in hand.
Given(a, bad) == a = [fn |-> fn, op |-> stage, i |-> index, who |-> Request.who, bad |-> bad]

LEMMA AllowedAll == Allowed \subseteq Inputs /\ (slv = <<>> => Allowed = Inputs)
BY DEF Allowed

\* Either the solver decides, or it is noted that it has given up.
LEMMA AnswerIs ==
    ASSUME NEW query, Decided(query) \/ GivenUp(query), NEW a \in answers', a \notin answers
    PROVE  \/ Given(a, TRUE) /\ Allowed \cap query # {}
           \/ Given(a, FALSE) /\ Allowed \cap query = {}
           \/ Given(a, FALSE) /\ [fn |-> fn, op |-> stage, i |-> index] \in undecided'
<1>1. CASE Decided(query)
  <2>1. CASE Allowed \cap query # {}
    BY <1>1, <2>1 DEF Decided, Answer, Given
  <2>2. CASE Allowed \cap query = {}
    BY <1>1, <2>2 DEF Decided, Answer, Given
  <2> QED
    BY <2>1, <2>2
<1>2. CASE GivenUp(query)
  BY <1>2 DEF GivenUp, Answer, Given
<1> QED
  BY <1>1, <1>2

LEMMA LieAnswer ==
    ASSUME DInv, Clean, Deviate, NEW a \in answers', a \notin answers
    PROVE  /\ stage \in DOMAIN Following /\ a.fn = fn /\ a.op = stage /\ a.i = index
           /\ a.who = Request.who
           /\ a.bad /\ First(fn) => Violated(fn, stage, index, Request.who, Inputs)
           /\ ~a.bad /\ [fn |-> fn, op |-> stage, i |-> index] \notin undecided' /\ Untainted(fn, stage, index) =>
                  ~Violated(fn, stage, index, Request.who, OnPaths(fn))
<1>1. stage \in {Truthful, Collusion} /\ index \in DOMAIN Requests(stage)
      /\ stage \in DOMAIN Following
  BY FollowingDomain DEF Deviate
<1>2. index \in DOMAIN Merged1 /\ (Decided(Tempted) \/ GivenUp(Tempted)) /\ fn' = fn
  BY DEF Deviate
<1>3. \/ Given(a, TRUE) /\ Allowed \cap Tempted # {}
      \/ Given(a, FALSE) /\ Allowed \cap Tempted = {}
      \/ Given(a, FALSE) /\ [fn |-> fn, op |-> stage, i |-> index] \in undecided'
  BY <1>2, AnswerIs
<1>4. Allowed = Inputs
  BY <1>1, AllowedAll DEF Clean
<1>5. Tempted \subseteq Inputs
  BY ScopesType
<1>6. /\ First(fn) /\ Tempted # {} => Violated(fn, stage, index, Request.who, Inputs)
      /\ Untainted(fn, stage, index) /\ Tempted = {} =>
             ~Violated(fn, stage, index, Request.who, OnPaths(fn))
  BY <1>1, <1>2, LieQuery
<1>7. CASE Given(a, TRUE) /\ Allowed \cap Tempted # {}
  BY <1>1, <1>6, <1>7 DEF Given
<1>8. CASE Given(a, FALSE) /\ Allowed \cap Tempted = {}
  BY <1>1, <1>4, <1>5, <1>6, <1>8 DEF Given
<1>9. CASE Given(a, FALSE) /\ [fn |-> fn, op |-> stage, i |-> index] \in undecided'
  BY <1>1, <1>9 DEF Given
<1> QED
  BY <1>3, <1>7, <1>8, <1>9

LEMMA LossAnswer ==
    ASSUME DInv, Clean, Compare \/ CompareInterrupted, NEW a \in answers', a \notin answers
    PROVE  /\ stage \in DOMAIN Following /\ a.fn = fn /\ a.op = stage /\ a.i = index
           /\ a.who = Request.who
           /\ a.bad /\ First(fn) => Violated(fn, stage, index, Request.who, Inputs)
           /\ ~a.bad /\ [fn |-> fn, op |-> stage, i |-> index] \notin undecided' /\ ~Leaked(fn)' =>
                  ~Violated(fn, stage, index, Request.who, OnPaths(fn))
<1>1. stage \in {Efficient, Optimal} /\ index \in DOMAIN Requests(stage)
      /\ stage \in DOMAIN Following
  BY FollowingDomain DEF Compare, CompareInterrupted
<1>2. \/ Given(a, TRUE) /\ Allowed \cap Worse # {}
      \/ Given(a, FALSE) /\ Allowed \cap Worse = {} /\ UNCHANGED <<fn, thrown>>
      \/ Given(a, FALSE) /\ [fn |-> fn, op |-> stage, i |-> index] \in undecided'
  <2>1. CASE Compare
    <3>1. (Decided(Worse) \/ GivenUp(Worse)) /\ UNCHANGED <<fn, thrown>>
      BY <2>1, Zenon DEF Compare
    <3> QED
      BY <3>1, AnswerIs
  <2>2. CASE CompareInterrupted
    BY <2>2 DEF CompareInterrupted, Answer, Given
  <2> QED
    BY <2>1, <2>2
<1>3. /\ First(fn) /\ Worse # {} => Violated(fn, stage, index, Request.who, Inputs)
      /\ Worse = {} => ~Violated(fn, stage, index, Request.who, OnPaths(fn))
  BY <1>1, LossQuery
<1>4. Worse \subseteq Inputs
  BY ScopesType
<1>5. CASE Given(a, TRUE) /\ Allowed \cap Worse # {}
  BY <1>1, <1>3, <1>5 DEF Given
<1>6. CASE Given(a, FALSE) /\ Allowed \cap Worse = {} /\ UNCHANGED <<fn, thrown>>
  <2>1. Leaked(fn)' <=> Leaked(fn)
    BY <1>6 DEF Leaked
  <2>2. ~Leaked(fn) => Allowed = Inputs
    BY <1>1, AllowedAll DEF Clean
  <2> QED
    BY <1>1, <1>3, <1>4, <1>6, <2>1, <2>2 DEF Given
<1>7. CASE Given(a, FALSE) /\ [fn |-> fn, op |-> stage, i |-> index] \in undecided'
  <2>1. fn' = fn
    BY DEF Compare, CompareInterrupted
  <2> QED
    BY <1>1, <1>7, <2>1 DEF Given
<1> QED
  BY <1>2, <1>5, <1>6, <1>7

LEMMA PatternAnswer ==
    ASSUME DInv, Report, NEW a \in answers', a \notin answers
    PROVE  /\ a.op = Postcond /\ a.fn = fn
           /\ First(fn) /\ ~Unknown(fn, Postcond, a.i) =>
                  (~a.bad <=> \A k \in DOMAIN Paths(fn) :
                                  /\ Paths(fn)[k].pc # {}
                                  /\ a.i \in DOMAIN Paths(fn)[k].reg[Postcond]
                                  /\ Valid(Paths(fn)[k], a.i))
<1>1. stage = "report"
  BY DEF Report
<1>2. PICK desc \in DOMAIN patterns :
          a = [fn |-> fn, op |-> Postcond, i |-> desc, who |-> {},
               bad |-> patterns[desc] # Len(contexts)]
  BY DEF Report
<1>3. PathsOK(contexts) /\ contexts = Paths(fn)
  BY <1>1, HandPaths, StageSets DEF DInv
<1>4. a.bad <=> patterns[desc] # Len(contexts)
  BY <1>2
<1>5. DOMAIN contexts = 1..Len(contexts)
  BY <1>3 DEF PathsOK
<1>6. ASSUME First(fn), ~Unknown(fn, Postcond, desc)
      PROVE  patterns[desc] = Len(contexts) <=>
                 \A k \in 1..Len(contexts) : Bears(contexts[k], desc)
  <2>1. CountsRight(patterns)
    BY <1>1, <1>6, StageSets DEF DInv, PatternsOK
  <2>2. CountOf(patterns, desc) = patterns[desc]
    BY DEF CountOf
  <2> QED
    BY <1>6, <2>1, <2>2 DEF CountsRight
<1>7. a.fn = fn /\ a.op = Postcond /\ a.i = desc
  BY <1>2
<1> QED
  BY <1>3, <1>4, <1>5, <1>6, <1>7 DEF Bears

LEMMA OtherSteps ==
    ASSUME [Next]_vars, ~Deviate, ~Compare, ~CompareInterrupted, ~Report
    PROVE  answers' = answers
<1>1. Patterns => answers' = answers
  BY Zenon DEF Patterns
<1>2. Skip \/ Execute \/ Synthesis \/ Examine \/ Choose \/ Uncaught \/ NoMore \/ Finish \/ Over
          => answers' = answers
  BY DEF vars, Skip, Execute, Synthesis, Examine, Choose, Uncaught, NoMore, Finish, Over
<1> QED
  BY <1>1, <1>2 DEF Next, vars

\* What is known of the exceptions and of the solver stays known.
LEMMA HistoryGrows ==
    ASSUME [Next]_vars
    PROVE  thrown \subseteq thrown' /\ undecided \subseteq undecided' /\ program' = program
<1>1. CASE Skip \/ Execute \/ Synthesis \/ Examine \/ Choose \/ Uncaught \/ NoMore \/ Report
           \/ Finish \/ Over \/ UNCHANGED vars
  BY <1>1 DEF vars, Skip, Execute, Synthesis, Examine, Choose, Uncaught, NoMore, Report,
              Finish, Over
<1>2. CASE Patterns
  <2>1. UNCHANGED <<thrown, program>>
    BY <1>2, Zenon DEF Patterns
  <2>2. undecided' = undecided \/ \E us : undecided' = undecided \cup us
    BY <1>2, Zenon DEF Patterns
  <2> QED
    BY <2>1, <2>2
<1>3. CASE Deviate \/ Compare \/ CompareInterrupted
  BY <1>3 DEF Deviate, Compare, CompareInterrupted, Interrupt, Decided, GivenUp
<1> QED
  BY <1>1, <1>2, <1>3 DEF Next

\* What an answer says stays right, and an excuse stays one.
LEMMA AnswersStay ==
    ASSUME [Next]_vars
    PROVE  /\ \A f, op, i, who :
                  /\ Violated(f, op, i, who, Inputs)' <=> Violated(f, op, i, who, Inputs)
                  /\ Violated(f, op, i, who, OnPaths(f))' <=> Violated(f, op, i, who, OnPaths(f))
           /\ \A f, op, i : Untainted(f, op, i)' <=> Untainted(f, op, i)
           /\ \A f, op, i : Unknown(f, op, i) => Unknown(f, op, i)'
           /\ \A f : Leaked(f) => Leaked(f)'
<1>0. thrown \subseteq thrown' /\ undecided \subseteq undecided' /\ program' = program
  BY HistoryGrows
<1>1. \A f, op, i, who : Violated(f, op, i, who, Inputs)' <=> Violated(f, op, i, who, Inputs)
  BY <1>0 DEF Violated, Declared, Paths
<1>2. \A f, op, i, who :
          Violated(f, op, i, who, OnPaths(f))' <=> Violated(f, op, i, who, OnPaths(f))
  BY <1>0 DEF Violated, Declared, Paths, OnPaths
<1>3. \A f, op, i : Untainted(f, op, i)' <=> Untainted(f, op, i)
  BY <1>0 DEF Untainted, Paths, First
<1>4. /\ \A f, op, i : Unknown(f, op, i) => Unknown(f, op, i)'
      /\ \A f : Leaked(f) => Leaked(f)'
  BY <1>0 DEF Unknown, Leaked
<1> QED
  BY <1>1, <1>2, <1>3, <1>4

LEMMA ViolationsStep ==
    ASSUME DInv, Clean, ViolationsReal, [Next]_vars
    PROVE  ViolationsReal'
<1>1. program' = program
  BY HistoryGrows
<1> SUFFICES ASSUME NEW a \in answers', a.op # Postcond, a.bad, First(a.fn)
             PROVE  Violated(a.fn, a.op, a.i, a.who, Inputs)
  <2>1. \A f : First(f)' <=> First(f)
    BY <1>1, SameProgram
  <2>2. \A f, op, i, who : Violated(f, op, i, who, Inputs)' <=> Violated(f, op, i, who, Inputs)
    BY AnswersStay
  <2> QED
    BY <2>1, <2>2 DEF ViolationsReal
<1>2. CASE a \in answers
  BY <1>2 DEF ViolationsReal
<1>3. CASE a \notin answers
  <2>1. Deviate \/ Compare \/ CompareInterrupted
    BY <1>3, OtherSteps, PatternAnswer
  <2>2. /\ a.fn = fn /\ a.op = stage /\ a.i = index /\ a.who = Request.who
        /\ a.bad /\ First(fn) => Violated(fn, stage, index, Request.who, Inputs)
    BY <1>3, <2>1, LieAnswer, LossAnswer
  <2> QED
    BY <2>2
<1> QED
  BY <1>2, <1>3

LEMMA MissedStep ==
    ASSUME DInv, Clean, NothingMissed, [Next]_vars
    PROVE  NothingMissed'
<1> SUFFICES ASSUME NEW a \in answers', a.op # Postcond, ~a.bad,
                    ~Unknown(a.fn, a.op, a.i)', Untainted(a.fn, a.op, a.i),
                    a.op \in {Efficient, Optimal} => ~Leaked(a.fn)'
             PROVE  ~Violated(a.fn, a.op, a.i, a.who, OnPaths(a.fn))
  <2>1. \A f, op, i, who :
            Violated(f, op, i, who, OnPaths(f))' <=> Violated(f, op, i, who, OnPaths(f))
    BY AnswersStay
  <2>2. \A f, op, i : Untainted(f, op, i)' <=> Untainted(f, op, i)
    BY AnswersStay
  <2> QED
    BY <2>1, <2>2 DEF NothingMissed
<1>1. CASE a \in answers
  <2>1. ~Unknown(a.fn, a.op, a.i) /\ (a.op \in {Efficient, Optimal} => ~Leaked(a.fn))
    BY AnswersStay
  <2> QED
    BY <1>1, <2>1 DEF NothingMissed
<1>2. CASE a \notin answers
  <2>1. Deviate \/ Compare \/ CompareInterrupted
    BY <1>2, OtherSteps, PatternAnswer
  <2>2. CASE Deviate
    <3>1. /\ a.fn = fn /\ a.op = stage /\ a.i = index /\ a.who = Request.who
          /\ ~a.bad /\ [fn |-> fn, op |-> stage, i |-> index] \notin undecided' /\ Untainted(fn, stage, index) =>
                 ~Violated(fn, stage, index, Request.who, OnPaths(fn))
      BY <1>2, <2>2, LieAnswer
    <3>2. fn' = fn
      BY <2>2 DEF Deviate
    <3>3. [fn |-> fn, op |-> stage, i |-> index] \notin undecided'
      BY <3>1 DEF Unknown
    <3> QED
      BY <3>1, <3>3
  <2>3. CASE Compare \/ CompareInterrupted
    <3>1. /\ a.fn = fn /\ a.op = stage /\ a.i = index /\ a.who = Request.who
          /\ ~a.bad /\ [fn |-> fn, op |-> stage, i |-> index] \notin undecided' /\ ~Leaked(fn)' =>
                 ~Violated(fn, stage, index, Request.who, OnPaths(fn))
      BY <1>2, <2>3, LossAnswer
    <3>2. fn' = fn /\ stage \in {Efficient, Optimal}
      BY <2>3 DEF Compare, CompareInterrupted
    <3>3. [fn |-> fn, op |-> stage, i |-> index] \notin undecided' /\ ~Leaked(fn)'
      BY <3>1, <3>2 DEF Unknown, Leaked
    <3> QED
      BY <3>1, <3>3
  <2> QED
    BY <2>1, <2>2, <2>3
<1> QED
  BY <1>1, <1>2

LEMMA PatternsKept ==
    ASSUME DInv, Clean, PatternsRight, [Next]_vars
    PROVE  PatternsRight'
<1>1. program' = program
  BY HistoryGrows
<1> DEFINE OnAll(f, i) == \A k \in DOMAIN Paths(f) :
                              /\ Paths(f)[k].pc # {}
                              /\ i \in DOMAIN Paths(f)[k].reg[Postcond]
                              /\ Valid(Paths(f)[k], i)
<1> SUFFICES ASSUME NEW a \in answers', a.op = Postcond, First(a.fn),
                    ~Unknown(a.fn, Postcond, a.i)
             PROVE  ~a.bad <=> OnAll(a.fn, a.i)
  <2>1. \A f : (First(f)' <=> First(f)) /\ Paths(f)' = Paths(f)
    BY <1>1, SameProgram
  <2>2. \A f, i : ~Unknown(f, Postcond, i)' => ~Unknown(f, Postcond, i)
    BY AnswersStay
  <2> QED
    BY <2>1, <2>2 DEF PatternsRight, Valid
<1>2. CASE a \in answers
  BY <1>2 DEF PatternsRight
<1>3. CASE a \notin answers
  <2>1. Postcond \notin DOMAIN Following
    BY FollowingDomain DEF Postcond, Truthful, Collusion, Efficient, Optimal
  <2>2. Report
    BY <1>3, <2>1, OtherSteps, LieAnswer, LossAnswer
  <2>3. /\ a.fn = fn
        /\ First(fn) /\ ~Unknown(fn, Postcond, a.i) => (~a.bad <=> OnAll(fn, a.i))
    BY <1>3, <2>2, PatternAnswer
  <2> QED
    BY <2>3
<1> QED
  BY <1>2, <1>3

LEMMA InvInit == Init => DInv /\ Clean
<1>1. Init => Clean
  BY StagesApart, FollowingDomain DEF Init, Clean
<1> QED
  BY <1>1, DInit

LEMMA InvStep == DInv /\ Clean /\ [Next]_vars => (DInv /\ Clean)'
BY DStep, CleanStep

(* The directives of the first function are judged on its own paths: what  *)
(* check_truthful, check_collusion, ... print as violated is borne out by  *)
(* an input of theirs, although the solver does not know the path          *)
(* conditions and may hold scopes an exception has left.  For any harness, *)
(* any number of paths and directives, and any answer or exception.        *)
THEOREM ReportedIsViolated == Spec => []ViolationsReal
<1>1. Init => ViolationsReal
  BY DEF Init, ViolationsReal
<1>2. DInv /\ Clean /\ ViolationsReal /\ [Next]_vars => ViolationsReal'
  BY ViolationsStep
<1> QED
  BY <1>1, <1>2, InvInit, InvStep, PTL DEF Spec

(* No violation on the paths of a function is reported to be fine, of any  *)
(* function of the harness, unless Z3 gave up on the query of this check,  *)
(* an exception in the efficiency or optimality loop of the function is    *)
(* reported with an answer of these two, or an undeclared utility has the  *)
(* value an earlier function left.                                         *)
THEOREM FineIsFine == Spec => []NothingMissed
<1>1. Init => NothingMissed
  BY DEF Init, NothingMissed
<1>2. DInv /\ Clean /\ NothingMissed /\ [Next]_vars => NothingMissed'
  BY MissedStep
<1> QED
  BY <1>1, <1>2, InvInit, InvStep, PTL DEF Spec

(* pattern_count of the first function reaches the number of its paths     *)
(* exactly for the patterns that each path declares and keeps, except for  *)
(* a pattern where Z3 gave up on a path that declares it.                  *)
THEOREM PatternsAreCounted == Spec => []PatternsRight
<1>1. Init => PatternsRight
  BY DEF Init, PatternsRight
<1>2. DInv /\ Clean /\ PatternsRight /\ [Next]_vars => PatternsRight'
  BY PatternsKept
<1> QED
  BY <1>1, <1>2, InvInit, InvStep, PTL DEF Spec
=============================================================================
