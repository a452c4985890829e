-------------------------- MODULE Synthesis_proofs --------------------------
(***************************************************************************)
(* The merged mechanism gives every input the outcome of its own path.     *)
(***************************************************************************)
EXTENDS Synthesis, TLAPS

(* After index paths: those are the paths preCond admits, and each of      *)
(* their inputs has its path's outcome.  The bound on the utilities keeps  *)
(* a later path from leaving a hole under an earlier one.                  *)
Prefix ==
    /\ \A k \in 1..index : /\ contexts[k].pc \subseteq preCond
                           /\ Len(contexts[k].util) <= Len(g.util)
    /\ \A w \in preCond : \E k \in 1..index :
           w \in contexts[k].pc /\ On(contexts[k], w)

IInv == TypeOK /\ (index > 0 /\ g.type # -1 => Prefix)

\* What the vector of contexts is.
LEMMA PathsOK ==
    ASSUME TypeOK
    PROVE  /\ contexts \in Seq(Context)
           /\ \A k, l \in DOMAIN contexts : k # l => contexts[k].pc \cap contexts[l].pc = {}
BY ResultsAssumption DEF TypeOK, Apart

LEMMA ContextType ==
    ASSUME NEW c \in Context
    PROVE  /\ c.pc \subseteq Inputs
           /\ c.alloc \in [Inputs -> Values] /\ c.price \in [Inputs -> Values]
           /\ c.util \in Seq([Inputs -> Values])
           /\ Len(c.util) \in Nat /\ DOMAIN c.util = 1..Len(c.util)
           /\ \A j \in 1..Len(c.util) : c.util[j] \in [Inputs -> Values]
<1>1. c.util \in Seq([Inputs -> Values])
  BY DEF Context
<1>2. Len(c.util) \in Nat /\ DOMAIN c.util = 1..Len(c.util)
  BY <1>1
<1>3. \A j \in 1..Len(c.util) : c.util[j] \in [Inputs -> Values]
  BY <1>1
<1> QED
  BY <1>1, <1>2, <1>3 DEF Context

\* u is old, its number of utilities kept, with new in force on p.
InForce(p, new, old, u) ==
    /\ u \in Seq([Inputs -> Values]) /\ Len(u) = Len(old)
    /\ \A j \in 1..Len(old), w \in Inputs :
           u[j][w] = IF j \in 1..Len(new) /\ w \in p THEN new[j][w] ELSE old[j][w]

LEMMA UtilitiesType ==
    ASSUME NEW p, NEW new \in Seq([Inputs -> Values]),
           NEW old \in Seq([Inputs -> Values]),
           NEW u, u = Utilities(p, new, old)
    PROVE  InForce(p, new, old, u)
<1>1. Len(old) \in Nat /\ DOMAIN old = 1..Len(old) /\ DOMAIN new = 1..Len(new)
  OBVIOUS
<1>2. ASSUME NEW j \in 1..Len(old)
      PROVE  /\ u[j] = IF j \in 1..Len(new) THEN Ite(p, new[j], old[j]) ELSE old[j]
             /\ old[j] \in [Inputs -> Values]
             /\ j \in 1..Len(new) => new[j] \in [Inputs -> Values]
  BY <1>1 DEF Utilities
<1>3. ASSUME NEW j \in 1..Len(old), j \in 1..Len(new)
      PROVE  /\ u[j] \in [Inputs -> Values]
             /\ \A w \in Inputs : u[j][w] = IF w \in p THEN new[j][w] ELSE old[j][w]
  <2>1. u[j] = Ite(p, new[j], old[j])
    BY <1>2, <1>3
  <2>2. new[j] \in [Inputs -> Values] /\ old[j] \in [Inputs -> Values]
    BY <1>2, <1>3
  <2>3. /\ Ite(p, new[j], old[j]) \in [Inputs -> Values]
        /\ \A w \in Inputs : Ite(p, new[j], old[j])[w] =
                                IF w \in p THEN new[j][w] ELSE old[j][w]
    BY <2>2 DEF Ite
  <2> QED
    BY <2>1, <2>3
<1>4. ASSUME NEW j \in 1..Len(old), j \notin 1..Len(new)
      PROVE  u[j] = old[j] /\ u[j] \in [Inputs -> Values]
  BY <1>2, <1>4
<1>5. u \in [1..Len(old) -> [Inputs -> Values]]
  <2>1. \A j \in 1..Len(old) : u[j] \in [Inputs -> Values]
    BY <1>3, <1>4
  <2>2. u = [j \in 1..Len(old) |-> u[j]]
    BY <1>1 DEF Utilities
  <2> QED
    BY <2>1, <2>2
<1>6. u \in Seq([Inputs -> Values]) /\ Len(u) = Len(old)
  BY <1>5, <1>1
<1> QED
  BY <1>3, <1>4, <1>6 DEF InForce

-----------------------------------------------------------------------------
LEMMA InitInv == Init => IInv
<1> SUFFICES ASSUME Init PROVE IInv
  OBVIOUS
<1>1. contexts \in Seq(Context) /\ index = 0
  BY ResultsAssumption DEF Init
<1>2. Len(contexts) \in Nat
  BY <1>1
<1>3. /\ contexts \in Results /\ index \in 0..Len(contexts) /\ ~(index > 0)
      /\ preCond \subseteq Inputs
  BY <1>1, <1>2 DEF Init
<1>4. crashed \in BOOLEAN
  BY DEF Init
<1> QED
  BY <1>3, <1>4 DEF IInv, TypeOK

LEMMA FirstInv == IInv /\ First => IInv'
<1> SUFFICES ASSUME IInv, First PROVE IInv'
  OBVIOUS
<1>1. contexts \in Seq(Context)
  BY PathsOK DEF IInv
<1>2. CASE contexts = <<>>
  <2>1. UNCHANGED <<contexts, index, g, preCond>> /\ crashed' = TRUE
    BY <1>2 DEF First, Crash
  <2>2. TypeOK'
    BY <2>1 DEF IInv, TypeOK, OutcomeOK
  <2>3. index = 0
    BY DEF First
  <2> QED
    BY <2>1, <2>2, <2>3 DEF IInv
<1>3. CASE contexts # <<>>
  <2> DEFINE c == contexts[1]
  <2>1. Len(contexts) \in Nat \ {0} /\ 1 \in DOMAIN contexts /\ c \in Context
    BY <1>1, <1>3
  <2>2. /\ g' = Outcome(c) /\ index' = 1
        /\ preCond' = IF g'.type = -1 THEN preCond ELSE c.pc
        /\ UNCHANGED <<contexts, crashed>>
    BY <1>3 DEF First
  <2>3. /\ g'.type = c.type /\ g'.util = c.util
        /\ g'.alloc = c.alloc /\ g'.price = c.price
    BY <2>2 DEF Outcome
  <2> HIDE DEF c
  <2>4. /\ c.pc \subseteq Inputs
        /\ c.alloc \in [Inputs -> Values] /\ c.price \in [Inputs -> Values]
        /\ c.util \in Seq([Inputs -> Values]) /\ Len(c.util) \in Nat
    BY <2>1, ContextType
  <2>5. OutcomeOK'
    BY <2>2, <2>3, <2>4 DEF OutcomeOK, c
  <2>6. TypeOK'
    BY <2>1, <2>2, <2>4, <2>5 DEF IInv, TypeOK
  <2>7. ASSUME g'.type # -1 PROVE Prefix'
    <3>1. preCond' = c.pc
      BY <2>2, <2>7
    <3>2. \A w \in preCond' : On(contexts[1], w)'
      BY <2>2, <2>3 DEF On, c
    <3>3. \A k \in 1..index' : k = 1 /\ contexts'[k] = c
      BY <2>2 DEF c
    <3>4. 1 \in 1..index' /\ contexts' = contexts /\ contexts[1] = c
      BY <2>2 DEF c
    <3>5. \A k \in 1..index' : /\ contexts'[k].pc \subseteq preCond'
                               /\ Len(contexts'[k].util) <= Len(g'.util)
      BY <3>1, <3>3, <2>3, <2>4
    <3>6. \A w \in preCond' : w \in contexts'[1].pc /\ On(contexts[1], w)'
      BY <3>1, <3>2, <3>4
    <3> QED
      BY <3>4, <3>5, <3>6 DEF Prefix, On
  <2> QED
    BY <2>6, <2>7 DEF IInv
<1> QED
  BY <1>2, <1>3

LEMMA MergeInv == IInv /\ Merge => IInv'
<1> SUFFICES ASSUME IInv, Merge PROVE IInv'
  OBVIOUS
<1> DEFINE c == contexts[index + 1]
<1>1. contexts \in Seq(Context) /\ TypeOK
  BY PathsOK DEF IInv
<1>2. /\ index \in 1..(Len(contexts) - 1) /\ index > 0 /\ g.type # -1
      /\ Len(contexts) \in Nat /\ index + 1 \in DOMAIN contexts /\ c \in Context
  BY <1>1 DEF Merge
<1>3. Prefix /\ OutcomeOK
  BY <1>2 DEF IInv, TypeOK
<1>4. CASE Len(c.util) > Len(g.util)
  <2>1. UNCHANGED <<contexts, index, g, preCond>> /\ crashed' = TRUE
    BY <1>4 DEF Merge, Crash
  <2>2. TypeOK'
    BY <2>1, <1>1 DEF TypeOK, OutcomeOK
  <2>3. Prefix'
    BY <2>1, <1>3 DEF Prefix, On
  <2> QED
    BY <2>2, <2>3 DEF IInv
<1>5. CASE ~(Len(c.util) > Len(g.util))
  <2>1. /\ g' = [type  |-> g.type,
                alloc |-> Ite(c.pc, c.alloc, g.alloc),
                price |-> Ite(c.pc, c.price, g.price),
                util  |-> Utilities(c.pc, c.util, g.util)]
        /\ preCond' = preCond \cup c.pc /\ index' = index + 1
        /\ contexts' = contexts /\ crashed' = crashed
    BY <1>5 DEF Merge
  <2> HIDE DEF c
  <2>2. /\ c.pc \subseteq Inputs
        /\ c.alloc \in [Inputs -> Values] /\ c.price \in [Inputs -> Values]
        /\ c.util \in Seq([Inputs -> Values])
        /\ Len(c.util) \in Nat /\ DOMAIN c.util = 1..Len(c.util)
    BY <1>2, ContextType
  <2>3. /\ g.alloc \in [Inputs -> Values] /\ g.price \in [Inputs -> Values]
        /\ g.util \in Seq([Inputs -> Values]) /\ Len(g.util) \in Nat
        /\ preCond \subseteq Inputs
    BY <1>1, <1>3 DEF OutcomeOK, TypeOK
  <2>4. /\ g'.alloc \in [Inputs -> Values]
        /\ \A w \in Inputs : g'.alloc[w] = IF w \in c.pc THEN c.alloc[w] ELSE g.alloc[w]
    BY <2>1, <2>2, <2>3 DEF Ite
  <2>5. /\ g'.price \in [Inputs -> Values]
        /\ \A w \in Inputs : g'.price[w] = IF w \in c.pc THEN c.price[w] ELSE g.price[w]
    BY <2>1, <2>2, <2>3 DEF Ite
  <2>6. /\ g'.util \in Seq([Inputs -> Values])
        /\ Len(g'.util) = Len(g.util)
        /\ \A j \in 1..Len(g.util), w \in Inputs :
               g'.util[j][w] = IF j \in 1..Len(c.util) /\ w \in c.pc
                               THEN c.util[j][w] ELSE g.util[j][w]
    <3>1. g'.util = Utilities(c.pc, c.util, g.util)
      BY <2>1
    <3>2. InForce(c.pc, c.util, g.util, g'.util)
      BY <3>1, <2>2, <2>3, UtilitiesType
    <3> QED
      BY <3>2 DEF InForce
  <2>7. TypeOK'
    <3>1. OutcomeOK'
      BY <2>1, <2>4, <2>5, <2>6, <1>3 DEF OutcomeOK
    <3>2. index' \in 0..Len(contexts)
      BY <1>2, <2>1
    <3> QED
      BY <3>1, <3>2, <2>1, <2>2, <2>3, <1>1 DEF TypeOK
  \* The inputs of the path merged now have its outcome ...
  <2>8. \A w \in c.pc : /\ g'.alloc[w] = c.alloc[w] /\ g'.price[w] = c.price[w]
                         /\ \A j \in DOMAIN c.util : g'.util[j][w] = c.util[j][w]
    <3>1. ASSUME NEW w \in c.pc, NEW j \in DOMAIN c.util
          PROVE  g'.util[j][w] = c.util[j][w]
      <4>1. j \in 1..Len(c.util) /\ j \in 1..Len(g.util)
        BY <1>5, <2>2, <2>3 DEF c
      <4> QED
        BY <4>1, <2>2, <2>6
    <3> QED
      BY <3>1, <2>2, <2>4, <2>5
  \* ... and those of the others, on no second path, keep theirs.
  <2>9. ASSUME NEW k \in 1..index, NEW w \in contexts[k].pc, On(contexts[k], w)
        PROVE  On(contexts[k], w)'
    <3>1. k \in DOMAIN contexts /\ k # index + 1
      BY <1>1, <1>2
    <3>2. w \notin c.pc
      BY <3>1, <1>1, <1>2, PathsOK DEF c
    <3>3. contexts[k] \in Context /\ Len(contexts[k].util) <= Len(g.util)
      BY <3>1, <1>1, <1>3 DEF Prefix
    <3>4. /\ w \in Inputs /\ Len(contexts[k].util) \in Nat
          /\ DOMAIN contexts[k].util = 1..Len(contexts[k].util)
      BY <3>3, ContextType
    <3>5. \A j \in DOMAIN contexts[k].util : g'.util[j][w] = g.util[j][w]
      <4>1. \A j \in DOMAIN contexts[k].util : j \in 1..Len(g.util)
        BY <3>3, <3>4, <2>3
      <4> QED
        BY <4>1, <3>2, <3>4, <2>6
    <3> QED
      BY <3>2, <3>4, <3>5, <2>1, <2>4, <2>5, <2>9 DEF On
  <2>10. Prefix'
    <3>1. \A k \in 1..(index + 1) : k \in 1..index \/ k = index + 1
      BY <1>2
    <3>2. 1..index \subseteq 1..index' /\ index + 1 \in 1..index'
      BY <1>2, <2>1
    <3>3. \A k \in 1..index' : /\ contexts'[k].pc \subseteq preCond'
                               /\ Len(contexts'[k].util) <= Len(g'.util)
      <4>1. \A k \in 1..index : /\ contexts[k].pc \subseteq preCond
                                /\ Len(contexts[k].util) <= Len(g.util)
        BY <1>3 DEF Prefix
      <4>2. Len(c.util) <= Len(g.util)
        BY <1>5, <2>2, <2>3 DEF c
      <4> QED
        BY <4>1, <4>2, <3>1, <2>1, <2>6 DEF c
    <3>4. ASSUME NEW w \in preCond'
          PROVE  \E k \in 1..index' : w \in contexts'[k].pc /\ On(contexts[k], w)'
      <4>1. CASE w \in c.pc
        <5>1. PICK k \in 1..index' : k = index + 1
          BY <3>2
        <5>2. contexts'[k] = c
          BY <5>1, <2>1 DEF c
        <5>3. w \in contexts'[k].pc /\ On(contexts[k], w)'
          BY <4>1, <5>2, <2>8 DEF On
        <5> QED
          BY <5>3
      <4>2. CASE w \in preCond
        <5>1. PICK k \in 1..index : w \in contexts[k].pc /\ On(contexts[k], w)
          BY <4>2, <1>3 DEF Prefix
        <5> QED
          BY <5>1, <3>2, <2>1, <2>9
      <4> QED
        BY <4>1, <4>2, <2>1
    <3> QED
      BY <3>3, <3>4, <2>1 DEF Prefix, On
  <2> QED
    BY <2>7, <2>10 DEF IInv
<1> QED
  BY <1>4, <1>5

LEMMA StepInv == IInv /\ [Next]_vars => IInv'
<1> SUFFICES ASSUME IInv, [Next]_vars PROVE IInv'
  OBVIOUS
<1>1. CASE First
  BY <1>1, FirstInv
<1>2. CASE Merge
  BY <1>2, MergeInv
<1>3. CASE UNCHANGED vars
  BY <1>3 DEF vars, IInv, TypeOK, OutcomeOK, Prefix, On
<1> QED
  BY <1>1, <1>2, <1>3 DEF Next, Done

LEMMA InvImplies == IInv => OutcomeOfItsPath
<1> SUFFICES ASSUME IInv, Merged, g.type # -1
             PROVE  /\ \A k \in DOMAIN contexts : contexts[k].pc \subseteq preCond
                    /\ \A w \in preCond : \E k \in DOMAIN contexts :
                           w \in contexts[k].pc /\ On(contexts[k], w)
  BY DEF OutcomeOfItsPath
<1>1. contexts \in Seq(Context)
  BY PathsOK DEF IInv
<1>2. DOMAIN contexts = 1..index
  BY <1>1 DEF Merged
<1> QED
  BY <1>2 DEF IInv, Prefix, Merged

(* synthesis gives every input that preCond admits the outcome its own     *)
(* path declares, however many paths there are and in whatever order the   *)
(* executor returns them, provided no input is on two paths.               *)
THEOREM MergeIsFaithful == Spec => []OutcomeOfItsPath
<1>1. Init => IInv
  BY InitInv
<1>2. IInv /\ [Next]_vars => IInv'
  BY StepInv
<1>3. IInv => OutcomeOfItsPath
  BY InvImplies
<1> QED
  BY <1>1, <1>2, <1>3, PTL DEF Spec

(* g_mechanism keeps the type and the number of utilities of the first     *)
(* path, whatever later paths declare, with a value for every input.       *)
THEOREM TypeCorrect == Spec => []TypeOK
<1>1. Init => IInv
  BY InitInv
<1>2. IInv /\ [Next]_vars => IInv'
  BY StepInv
<1>3. IInv => TypeOK
  BY DEF IInv
<1> QED
  BY <1>1, <1>2, <1>3, PTL DEF Spec
=============================================================================
