-------------------------- MODULE Mechanism_proofs --------------------------
(***************************************************************************)
(* check_property, for every mechanism and every sequence of requests:     *)
(* what the solver holds at the head of its loop, whatever Z3 answers; and *)
(* when Z3 decides its queries, that each check gets its verdict and that  *)
(* the verdict is the property of the mechanism it stands for.             *)
(***************************************************************************)
EXTENDS Mechanism, SequenceTheorems, WellFoundedInduction, TLAPS

\* What may be asserted on the solver.
Labels == {"preCond", "declared", "asked", "not asked", "bid=val", "mirror", "apart",
           "gain1", "gain2", "not top valuation", "not top bidder",
           "not top price", "not second price"}
Verdict == [stage : {"property", "invariant"}, i : Nat, kind : 0..3, verdict : BOOLEAN]
KnownNow == Known(Len(report) + 1)

\* The declarations, and bid=val when b holds.
Base(b) == {"preCond", "declared"} \cup (IF b THEN {"bid=val"} ELSE {})

\* Where the check is.
ControlOK ==
    /\ stage \in {"property", "invariant", "done"}
    /\ phase \in {"setup", "type", "push", "probe", "refute", "pop", "leak"}
    /\ i \in Nat \ {0}
    /\ kind \in 0..3
    /\ truthful \in BOOLEAN /\ crashed \in BOOLEAN
    /\ report \in Seq(Verdict)

\* No verdict of this round yet: truthful_flag is as the loop head left it.
FlagFresh == kind = 0 /\ phase \in {"push", "probe", "refute"} => ~truthful

\* One scope between the checks, two inside one; the leak follows kind 1.
DepthOK ==
    /\ scopes # <<>>
    /\ phase \in {"setup", "type", "push", "leak"} => Len(scopes) = 1
    /\ phase \in {"probe", "refute", "pop"} => Len(scopes) = 2
    /\ phase = "leak" => kind = 1

\* Before the leak of a round a verdict of this round is not in the base yet:
\* it is known through truthful_flag only.
BeforeLeak == kind \in {0, 1} /\ phase \in {"push", "probe", "refute", "pop", "leak"}
BaseOK ==
    /\ phase = "setup" => scopes[1] = {"preCond"} /\ report = <<>>
    /\ BeforeLeak => \E b \in BOOLEAN : scopes[1] = Base(b) /\ KnownNow = (b \/ truthful)
    /\ phase # "setup" /\ ~BeforeLeak => scopes[1] = Base(KnownNow)

ScopesOK == scopes \in Seq(SUBSET Labels)

InProperty == ~crashed /\ stage = "property"
Solver     == ScopesOK /\ FlagFresh /\ DepthOK /\ BaseOK
IInv       == ControlOK /\ (InProperty => Solver)

-----------------------------------------------------------------------------
\* Printing a verdict makes truthfulness known when it is a positive one of
\* kind 0.
LEMMA KnownAppend ==
    ASSUME report \in Seq(Verdict), NEW v \in Verdict, report' = Append(report, v)
    PROVE  KnownNow' = (KnownNow \/ (v.stage = "property" /\ v.kind = 0 /\ v.verdict))
<1> DEFINE n == Len(report)
<1>1. n \in Nat /\ Len(report') = n + 1
  OBVIOUS
<1>2. \A d \in 1..n : report'[d] = report[d]
  OBVIOUS
<1>3. report'[n + 1] = v
  OBVIOUS
<1>4. 1..(Len(report) + 1 - 1) = 1..n /\ 1..(Len(report') + 1 - 1) = 1..(n + 1)
  BY <1>1
<1>5. \A d \in 1..(n + 1) : d \in 1..n \/ d = n + 1
  BY <1>1
<1>6. 1..n \subseteq 1..(n + 1) /\ n + 1 \in 1..(n + 1)
  BY <1>1
<1> DEFINE Tells(r, d) == r[d].stage = "property" /\ r[d].kind = 0 /\ r[d].verdict
<1>7. KnownNow <=> \E d \in 1..n : Tells(report, d)
  BY <1>4 DEF KnownNow, Known
<1>8. KnownNow' <=> \E d \in 1..(n + 1) : Tells(report', d)
  BY <1>4 DEF KnownNow, Known
<1>9. KnownNow \in BOOLEAN /\ KnownNow' \in BOOLEAN
  BY DEF KnownNow, Known
<1>10. (\E d \in 1..(n + 1) : Tells(report', d)) <=>
          ((\E d \in 1..n : Tells(report, d)) \/ Tells(report', n + 1))
  BY <1>2, <1>5, <1>6
<1>11. v.verdict \in BOOLEAN
  BY DEF Verdict
<1> HIDE DEF n
<1> QED
  BY <1>3, <1>7, <1>8, <1>9, <1>10, <1>11

LEMMA KnownKept == report' = report => KnownNow' = KnownNow
BY DEF KnownNow, Known

LEMMA ControlInit == Init => ControlOK
<1> SUFFICES ASSUME Init PROVE ControlOK
  OBVIOUS
<1>1. truthful \in BOOLEAN /\ crashed \in BOOLEAN
  BY DEF Init
<1>2. stage = "property" /\ phase = "setup" /\ i = 1 /\ kind = 0
  BY DEF Init
<1>3. report \in Seq(Verdict)
  BY DEF Init
<1> QED
  BY <1>1, <1>2, <1>3 DEF ControlOK

LEMMA ControlStep == IInv /\ [Next]_vars => ControlOK'
<1> SUFFICES ASSUME ControlOK, [Next]_vars PROVE ControlOK'
  BY DEF IInv
<1> USE DEF ControlOK
<1>1. CASE Crash
  BY <1>1 DEF Crash
<1>2. CASE Setup
  BY <1>1, <1>2 DEF Setup
<1>3. CASE NextType
  <2>1. truthful' \in BOOLEAN /\ crashed' \in BOOLEAN
    BY <1>3 DEF NextType
  <2>2. /\ UNCHANGED <<stage, i, report>>
        /\ kind' = 0 /\ phase' = "push"
    BY <1>3 DEF NextType
  <2> QED
    BY <2>1, <2>2
<1>4. CASE EndTypes
  BY <1>4 DEF EndTypes
<1>5. CASE Push
  BY <1>5 DEF Push
<1>6. CASE Probe
  BY <1>6 DEF Probe
<1>7. CASE Refute
  <2>1. CASE Missing
    BY <1>1, <1>7, <2>1 DEF Refute
  <2>2. CASE ~Missing
    <3>1. PICK answer \in Answers(scopes') :
             LET yes == answer # "sat"
             IN  /\ report' = Append(report, [stage |-> stage, i |-> i,
                                              kind |-> kind, verdict |-> yes])
                 /\ truthful' = IF stage = "property" /\ kind = 0 THEN yes ELSE truthful
                 /\ crashed' = (~yes /\ Len(Design[mech].util) < Design[mech].n)
      BY <1>7, <2>2 DEF Refute
    <3>2. stage \in {"property", "invariant"} /\ UNCHANGED <<stage, i, kind>>
          /\ phase' = "pop"
      BY <1>7, <2>2 DEF Refute, Running
    <3>3. [stage |-> stage, i |-> i, kind |-> kind, verdict |-> answer # "sat"] \in Verdict
      BY <3>2 DEF Verdict
    <3>4. report' \in Seq(Verdict)
      BY <3>1, <3>3
    <3> QED
      BY <3>1, <3>2, <3>4
  <2> QED
    BY <2>1, <2>2
<1>8. ASSUME Advance PROVE i' \in Nat \ {0} /\ kind' \in 0..3 /\ phase' \in {"push", "type"}
  BY <1>8 DEF Advance, Kinds
<1>9. CASE Pop
  <2>1. CASE Len(scopes) = 1
    BY <1>1, <1>9, <2>1 DEF Pop
  <2>2. CASE Len(scopes) # 1
    BY <1>8, <1>9, <2>2 DEF Pop
  <2> QED
    BY <2>1, <2>2
<1>10. CASE Leak
  BY <1>8, <1>10 DEF Leak
<1>11. CASE UNCHANGED vars
  BY <1>11 DEF vars
<1> QED
  BY <1>2, <1>3, <1>4, <1>5, <1>6, <1>7, <1>9, <1>10, <1>11 DEF Next, Done

-----------------------------------------------------------------------------
LEMMA SolverInit == Init => Solver
<1> SUFFICES ASSUME Init PROVE Solver
  OBVIOUS
<1>1. /\ phase = "setup" /\ kind = 0 /\ report = <<>>
      /\ scopes = <<{"preCond"}>>
  BY DEF Init
<1>2. ScopesOK
  BY <1>1 DEF ScopesOK, Labels
<1>3. DepthOK
  BY <1>1 DEF DepthOK
<1>4. ~BeforeLeak
  BY <1>1 DEF BeforeLeak
<1> QED
  BY <1>1, <1>2, <1>3, <1>4 DEF Solver, FlagFresh, BaseOK

LEMMA PushFacts ==
    ASSUME NEW S, NEW s \in Seq(S), Len(s) = 1, NEW x \in S
    PROVE  /\ Append(s, x) \in Seq(S)
           /\ Len(Append(s, x)) = 2
           /\ Append(s, x)[1] = s[1]
           /\ Append(s, x)[2] = x
<1>1. Append(s, x) \in Seq(S)
  OBVIOUS
<1>2. Len(Append(s, x)) = 2
  <2>1. Len(Append(s, x)) = Len(s) + 1
    BY AppendProperties
  <2> QED
    BY <2>1
<1>3. Append(s, x)[1] = s[1]
  OBVIOUS
<1>4. Append(s, x)[2] = x
  <2>1. Append(s, x)[Len(s) + 1] = x
    BY AppendProperties
  <2> QED
    BY <2>1
<1> QED
  BY <1>1, <1>2, <1>3, <1>4

LEMMA TopFacts ==
    ASSUME NEW S, NEW s \in Seq(S), s # <<>>, NEW x \in S, NEW t,
           t = [s EXCEPT ![Len(s)] = x]
    PROVE  /\ t \in Seq(S)
           /\ Len(t) = Len(s)
           /\ t[1] = IF Len(s) = 1 THEN x ELSE s[1]
<1>1. Len(s) \in Nat /\ Len(s) >= 1 /\ DOMAIN s = 1..Len(s)
  OBVIOUS
<1> QED
  BY <1>1

LEMMA AddTopFacts ==
    ASSUME NEW s \in Seq(SUBSET Labels), s # <<>>, NEW as \in SUBSET Labels
    PROVE  /\ AddTop(s, as) \in Seq(SUBSET Labels)
           /\ Len(AddTop(s, as)) = Len(s)
           /\ AddTop(s, as)[1] = IF Len(s) = 1 THEN s[1] \cup as ELSE s[1]
<1>1. s[Len(s)] \in SUBSET Labels
  BY Len(s) \in 1..Len(s)
<1>2. s[Len(s)] \cup as \in SUBSET Labels
  BY <1>1
<1>3. AddTop(s, as) = [s EXCEPT ![Len(s)] = s[Len(s)] \cup as]
  BY DEF AddTop
<1> DEFINE S == SUBSET Labels
           x == s[Len(s)] \cup as
           t == AddTop(s, as)
<1>4. s \in Seq(S) /\ x \in S /\ t = [s EXCEPT ![Len(s)] = x]
  BY <1>2, <1>3
<1>5. Len(s) = 1 => x = s[1] \cup as
  OBVIOUS
<1> HIDE DEF S, x, t
<1>6. /\ t \in Seq(S)
      /\ Len(t) = Len(s)
      /\ t[1] = IF Len(s) = 1 THEN x ELSE s[1]
  BY <1>4, TopFacts
<1>7. t[1] = IF Len(s) = 1 THEN s[1] \cup as ELSE s[1]
  BY <1>5, <1>6
<1> QED
  BY <1>6, <1>7 DEF S, t

LEMMA QueryLabels == \A k \in 0..3 : Query("property", k) \in SUBSET Labels
<1> SUFFICES ASSUME NEW k \in 0..3 PROVE Query("property", k) \in SUBSET Labels
  OBVIOUS
<1>1. k = 0 \/ k = 1 \/ k = 2 \/ k = 3
  OBVIOUS
<1>2. CASE k = 0
  BY <1>2 DEF Query, Labels
<1>3. CASE k = 1
  BY <1>3 DEF Query, Labels
<1>4. CASE k = 2
  BY <1>4 DEF Query, Labels
<1>5. CASE k = 3
  BY <1>5 DEF Query, Labels
<1> QED
  BY <1>1, <1>2, <1>3, <1>4, <1>5

LEMMA SetupStep == IInv /\ InProperty /\ InProperty' /\ Setup => Solver'
<1> SUFFICES ASSUME IInv, InProperty, InProperty', Setup PROVE Solver'
  OBVIOUS
<1> USE DEF InProperty
<1>1. Solver /\ ControlOK
  BY DEF IInv
<1>2. /\ phase = "setup" /\ phase' = "type"
      /\ scopes' = AddTop(scopes, {"declared"})
      /\ UNCHANGED <<kind, report>>
  BY DEF Setup, Running, Crash
<1>3. /\ scopes \in Seq(SUBSET Labels) /\ scopes # <<>> /\ Len(scopes) = 1
      /\ scopes[1] = {"preCond"} /\ report = <<>>
  BY <1>1, <1>2 DEF Solver, ScopesOK, DepthOK, BaseOK
<1>4. /\ scopes' \in Seq(SUBSET Labels) /\ Len(scopes') = 1
      /\ scopes'[1] = {"preCond", "declared"}
  <2>1. {"declared"} \in SUBSET Labels
    BY DEF Labels
  <2> DEFINE t == AddTop(scopes, {"declared"})
  <2>2. /\ t \in Seq(SUBSET Labels)
        /\ Len(t) = Len(scopes)
        /\ t[1] = IF Len(scopes) = 1 THEN scopes[1] \cup {"declared"} ELSE scopes[1]
    BY <1>3, <2>1, AddTopFacts
  <2> HIDE DEF t
  <2>3. t[1] = {"preCond", "declared"}
    BY <1>3, <2>2
  <2> QED
    BY <1>2, <1>3, <2>2, <2>3 DEF t
<1>5. KnownNow' = FALSE
  <2>1. Len(report') = 0
    BY <1>2, <1>3
  <2>2. 1..(Len(report') + 1 - 1) = {}
    BY <2>1
  <2> QED
    BY <2>2 DEF KnownNow, Known
<1>6. scopes'[1] = Base(KnownNow)'
  BY <1>4, <1>5 DEF Base
<1>7. ~BeforeLeak'
  BY <1>2 DEF BeforeLeak
<1>8. ScopesOK' /\ DepthOK' /\ FlagFresh'
  BY <1>2, <1>4 DEF ScopesOK, DepthOK, FlagFresh
<1> QED
  BY <1>2, <1>6, <1>7, <1>8 DEF Solver, BaseOK

LEMMA NextTypeStep == IInv /\ InProperty /\ InProperty' /\ NextType => Solver'
<1> SUFFICES ASSUME IInv, InProperty, InProperty', NextType PROVE Solver'
  OBVIOUS
<1>1. Solver /\ ControlOK
  BY DEF IInv
<1>2. /\ phase = "type" /\ phase' = "push" /\ kind' = 0
      /\ UNCHANGED <<scopes, report>>
  BY DEF NextType, Running
<1>3. truthful' = FALSE
  BY DEF NextType
<1>4. scopes[1] = Base(KnownNow)
  BY <1>1, <1>2 DEF Solver, BaseOK, BeforeLeak
<1>5. KnownNow' = KnownNow /\ KnownNow \in BOOLEAN
  BY <1>2, KnownKept DEF KnownNow, Known
<1>6. scopes'[1] = Base(KnownNow) /\ KnownNow' = (KnownNow \/ truthful')
  BY <1>2, <1>3, <1>4, <1>5
<1>7. \E b \in BOOLEAN : scopes'[1] = Base(b) /\ KnownNow' = (b \/ truthful')
  BY <1>5, <1>6
<1>8. ScopesOK' /\ DepthOK'
  BY <1>1, <1>2 DEF Solver, ScopesOK, DepthOK
<1>9. FlagFresh'
  BY <1>3 DEF FlagFresh
<1>10. BeforeLeak' /\ phase' # "setup"
  BY <1>2 DEF BeforeLeak
<1>11. BaseOK'
  BY <1>7, <1>10 DEF BaseOK, Base
<1> QED
  BY <1>8, <1>9, <1>11 DEF Solver

LEMMA PushStep == IInv /\ InProperty /\ InProperty' /\ Push => Solver'
<1> SUFFICES ASSUME IInv, InProperty, InProperty', Push PROVE Solver'
  OBVIOUS
<1>1. Solver /\ ControlOK
  BY DEF IInv
<1> DEFINE a == {IF Types[i] = kind THEN "asked" ELSE "not asked"}
<1>2. /\ phase = "push" /\ phase' = "probe"
      /\ scopes' = Append(scopes, a)
      /\ UNCHANGED <<kind, report, truthful>>
  BY DEF Push, Pushes, Running, InProperty
<1>3. a \in SUBSET Labels
  BY DEF Labels
<1>4. scopes \in Seq(SUBSET Labels) /\ Len(scopes) = 1
  BY <1>1, <1>2 DEF Solver, ScopesOK, DepthOK
<1> HIDE DEF a
<1>5. scopes' \in Seq(SUBSET Labels) /\ Len(scopes') = 2 /\ scopes'[1] = scopes[1]
  BY <1>2, <1>3, <1>4, PushFacts
<1>6. KnownNow' = KnownNow
  BY <1>2, KnownKept
<1>7. BeforeLeak' = BeforeLeak
  BY <1>2 DEF BeforeLeak
<1>8. BaseOK'
  BY <1>1, <1>2, <1>5, <1>6, <1>7 DEF Solver, BaseOK, Base
<1>9. ScopesOK' /\ DepthOK'
  BY <1>2, <1>5 DEF ScopesOK, DepthOK
<1>10. FlagFresh'
  BY <1>1, <1>2 DEF Solver, FlagFresh
<1> QED
  BY <1>8, <1>9, <1>10 DEF Solver

LEMMA ProbeStep == IInv /\ InProperty /\ InProperty' /\ Probe => Solver'
<1> SUFFICES ASSUME IInv, InProperty, InProperty', Probe PROVE Solver'
  OBVIOUS
<1>1. Solver /\ ControlOK
  BY DEF IInv
<1>2. /\ phase = "probe" /\ phase' \in {"refute", "pop"}
      /\ UNCHANGED <<kind, scopes, report, truthful>>
  BY DEF Probe, Running
<1>3. KnownNow' = KnownNow
  BY <1>2, KnownKept
<1>4. BeforeLeak' = BeforeLeak
  BY <1>2 DEF BeforeLeak
<1>5. BaseOK'
  BY <1>1, <1>2, <1>3, <1>4 DEF Solver, BaseOK, Base
<1>6. ScopesOK' /\ DepthOK'
  BY <1>1, <1>2 DEF Solver, ScopesOK, DepthOK
<1>7. FlagFresh'
  BY <1>1, <1>2 DEF Solver, FlagFresh
<1> QED
  BY <1>5, <1>6, <1>7 DEF Solver

LEMMA RefuteStep == IInv /\ InProperty /\ InProperty' /\ Refute => Solver'
<1> SUFFICES ASSUME IInv, InProperty, InProperty', Refute PROVE Solver'
  OBVIOUS
<1>1. Solver /\ ControlOK
  BY DEF IInv
<1>2. ~Missing
  BY DEF Refute, Crash, InProperty
<1>3. /\ phase = "refute" /\ phase' = "pop"
      /\ scopes' = AddTop(scopes, Query("property", kind))
      /\ kind' = kind /\ stage = "property"
  BY <1>2 DEF Refute, Running, InProperty
<1>4. PICK yes \in BOOLEAN :
         /\ report' = Append(report, [stage |-> stage, i |-> i,
                                      kind |-> kind, verdict |-> yes])
         /\ truthful' = IF stage = "property" /\ kind = 0 THEN yes ELSE truthful
  BY <1>2 DEF Refute
<1>5. /\ scopes \in Seq(SUBSET Labels) /\ scopes # <<>> /\ Len(scopes) = 2
  BY <1>1, <1>3 DEF Solver, ScopesOK, DepthOK
<1>6. kind \in 0..3 /\ i \in Nat /\ report \in Seq(Verdict) /\ truthful \in BOOLEAN
  BY <1>1 DEF ControlOK
<1>7. scopes' \in Seq(SUBSET Labels) /\ Len(scopes') = 2 /\ scopes'[1] = scopes[1]
  <2> DEFINE q == Query("property", kind)
             t == AddTop(scopes, q)
  <2>1. q \in SUBSET Labels
    BY <1>6, QueryLabels
  <2> HIDE DEF q
  <2>2. /\ t \in Seq(SUBSET Labels)
        /\ Len(t) = Len(scopes)
        /\ t[1] = IF Len(scopes) = 1 THEN scopes[1] \cup q ELSE scopes[1]
    BY <1>5, <2>1, AddTopFacts
  <2>3. scopes' = t
    BY <1>3 DEF q
  <2> HIDE DEF t
  <2> QED
    BY <1>5, <2>2, <2>3
<1> DEFINE v == [stage |-> stage, i |-> i, kind |-> kind, verdict |-> yes]
<1>8. /\ v \in Verdict /\ report' = Append(report, v)
      /\ v.stage = "property" /\ v.kind = kind /\ v.verdict = yes
  BY <1>3, <1>4, <1>6 DEF Verdict
<1> HIDE DEF v
<1>9. KnownNow' = (KnownNow \/ (kind = 0 /\ yes))
  BY <1>6, <1>8, KnownAppend
<1>10. BeforeLeak <=> kind \in {0, 1}
  BY <1>3 DEF BeforeLeak
<1>11. BeforeLeak' <=> kind \in {0, 1}
  BY <1>3 DEF BeforeLeak
<1>12. ASSUME kind = 0 PROVE BaseOK'
  <2>1. PICK b \in BOOLEAN : scopes[1] = Base(b) /\ KnownNow = (b \/ truthful)
    BY <1>1, <1>10, <1>12 DEF Solver, BaseOK
  <2>2. ~truthful
    BY <1>1, <1>3, <1>12 DEF Solver, FlagFresh
  <2>3. truthful' = yes
    BY <1>3, <1>4, <1>12
  <2>4. KnownNow' = (b \/ truthful')
    BY <1>9, <1>12, <2>1, <2>2, <2>3
  <2>5. scopes'[1] = Base(b)
    BY <1>7, <2>1
  <2> QED
    BY <1>3, <1>11, <1>12, <2>4, <2>5 DEF BaseOK, Base
<1>13. ASSUME kind # 0 PROVE BaseOK'
  <2>1. KnownNow' = KnownNow
    BY <1>9, <1>13 DEF KnownNow, Known
  <2>2. truthful' = truthful
    BY <1>4, <1>13
  <2> QED
    BY <1>1, <1>3, <1>7, <1>10, <1>11, <2>1, <2>2 DEF Solver, BaseOK, Base
<1>14. ScopesOK' /\ DepthOK' /\ FlagFresh'
  BY <1>3, <1>7 DEF ScopesOK, DepthOK, FlagFresh
<1> QED
  BY <1>12, <1>13, <1>14 DEF Solver

LEMMA PopStep == IInv /\ InProperty /\ InProperty' /\ Pop => Solver'
<1> SUFFICES ASSUME IInv, InProperty, InProperty', Pop PROVE Solver'
  OBVIOUS
<1>1. Solver /\ ControlOK
  BY DEF IInv
<1>2. phase = "pop" /\ stage = "property"
  BY DEF Pop, Running, InProperty
<1>3. scopes \in Seq(SUBSET Labels) /\ Len(scopes) = 2
  BY <1>1, <1>2 DEF Solver, ScopesOK, DepthOK
<1>4. /\ scopes' = SubSeq(scopes, 1, 1)
      /\ report' = report /\ truthful' = truthful
      /\ IF kind = 1 THEN phase' = "leak" /\ kind' = kind ELSE Advance
  BY <1>2, <1>3 DEF Pop
<1>5. scopes' \in Seq(SUBSET Labels) /\ Len(scopes') = 1 /\ scopes'[1] = scopes[1]
  <2> DEFINE S == SUBSET Labels
  <2>1. scopes \in Seq(S)
    BY <1>3
  <2> HIDE DEF S
  <2>2. SubSeq(scopes, 1, 1) \in Seq(S)
        /\ Len(SubSeq(scopes, 1, 1)) = 1 /\ SubSeq(scopes, 1, 1)[1] = scopes[1]
    BY <1>3, <2>1
  <2> QED
    BY <1>4, <2>2 DEF S
<1>6. KnownNow' = KnownNow
  BY <1>4, KnownKept
<1>7. kind \in 0..3
  BY <1>1 DEF ControlOK
<1>8. \/ kind = 0 /\ kind' = 1 /\ phase' = "push"
      \/ kind = 1 /\ kind' = 1 /\ phase' = "leak"
      \/ kind = 2 /\ kind' = 3 /\ phase' = "push"
      \/ kind = 3 /\ kind' = 0 /\ phase' = "type"
  BY <1>2, <1>4, <1>7 DEF Advance, Kinds
<1>9. BeforeLeak' = BeforeLeak
  BY <1>2, <1>8 DEF BeforeLeak
<1>10. BaseOK'
  BY <1>1, <1>2, <1>4, <1>5, <1>6, <1>8, <1>9 DEF Solver, BaseOK, Base
<1>11. ScopesOK' /\ DepthOK' /\ FlagFresh'
  BY <1>5, <1>8 DEF ScopesOK, DepthOK, FlagFresh
<1> QED
  BY <1>10, <1>11 DEF Solver

LEMMA LeakStep == IInv /\ InProperty /\ InProperty' /\ Leak => Solver'
<1> SUFFICES ASSUME IInv, InProperty, InProperty', Leak PROVE Solver'
  OBVIOUS
<1>1. Solver /\ ControlOK
  BY DEF IInv
<1>2. phase = "leak" /\ stage = "property" /\ kind = 1
  BY <1>1 DEF Leak, Running, InProperty, Solver, DepthOK
<1>3. /\ scopes' = IF truthful THEN AddTop(scopes, {"bid=val"}) ELSE scopes
      /\ report' = report
      /\ kind' = 2 /\ phase' = "push"
  BY <1>2 DEF Leak, Advance, Kinds
<1>4. scopes \in Seq(SUBSET Labels) /\ Len(scopes) = 1 /\ scopes # <<>>
  BY <1>1, <1>2 DEF Solver, ScopesOK, DepthOK
<1>5. {"bid=val"} \in SUBSET Labels
  BY DEF Labels
<1>6. PICK b \in BOOLEAN : scopes[1] = Base(b) /\ KnownNow = (b \/ truthful)
  BY <1>1, <1>2 DEF Solver, BaseOK, BeforeLeak
<1>7. truthful \in BOOLEAN
  BY <1>1 DEF ControlOK
<1>8. /\ scopes' \in Seq(SUBSET Labels) /\ Len(scopes') = 1
      /\ scopes'[1] = scopes[1] \cup (IF truthful THEN {"bid=val"} ELSE {})
  <2>1. CASE truthful
    BY <1>3, <1>4, <1>5, <2>1, AddTopFacts
  <2>2. CASE ~truthful
    BY <1>3, <1>4, <2>2
  <2> QED
    BY <2>1, <2>2
<1>9. scopes'[1] = Base(b \/ truthful)
  BY <1>6, <1>8 DEF Base
<1>10. KnownNow' = KnownNow
  BY <1>3, KnownKept
<1>11. scopes'[1] = Base(KnownNow)'
  BY <1>6, <1>9, <1>10 DEF Base
<1>12. ~BeforeLeak' /\ phase' # "setup"
  BY <1>3 DEF BeforeLeak
<1>13. ScopesOK' /\ DepthOK' /\ FlagFresh'
  BY <1>3, <1>8 DEF ScopesOK, DepthOK, FlagFresh
<1> QED
  BY <1>11, <1>12, <1>13 DEF Solver, BaseOK

LEMMA SolverStep == IInv /\ [Next]_vars /\ InProperty' => Solver'
<1> SUFFICES ASSUME IInv, [Next]_vars, InProperty' PROVE Solver'
  OBVIOUS
<1> USE DEF InProperty
<1>1. CASE Setup
  BY <1>1, SetupStep DEF Setup, Running, Crash
<1>2. CASE NextType
  BY <1>2, NextTypeStep DEF NextType, Running
<1>3. CASE EndTypes
  BY <1>3 DEF EndTypes, Running
<1>4. CASE Push
  BY <1>4, PushStep DEF Push, Running
<1>5. CASE Probe
  BY <1>5, ProbeStep DEF Probe, Running
<1>6. CASE Refute
  BY <1>6, RefuteStep DEF Refute, Running, Crash
<1>7. CASE Pop
  BY <1>7, PopStep DEF Pop, Running, Crash
<1>8. CASE Leak
  BY <1>8, LeakStep DEF Leak, Running
<1>9. CASE UNCHANGED vars
  <2>1. Solver
    BY <1>9 DEF vars, IInv
  <2> QED
    BY <1>9, <2>1 DEF vars, Solver, ScopesOK, FlagFresh, DepthOK, BaseOK, BeforeLeak,
                      KnownNow, Known
<1> QED
  BY <1>1, <1>2, <1>3, <1>4, <1>5, <1>6, <1>7, <1>8, <1>9 DEF Next, Done

(* At the head of check_property's loop the solver holds what the harness  *)
(* declares and nothing else but, once a truthfulness verdict is positive, *)
(* that bids are valuations: the pushes and pops of the four checks cancel *)
(* on every path through them, whatever Z3 answers.                        *)
THEOREM ChecksLeaveNothing == Spec => []Balanced
<1>1. Init => IInv
  BY ControlInit, SolverInit DEF IInv
<1>2. IInv /\ [Next]_vars => IInv'
  BY ControlStep, SolverStep DEF IInv
<1>3. IInv => Balanced
  <2> SUFFICES ASSUME IInv, InProperty, phase = "type"
               PROVE  scopes = <<Base(KnownNow)>>
    BY DEF Balanced, InProperty, Base, KnownNow
  <2>1. Solver
    BY DEF IInv
  <2>2. scopes[1] = Base(KnownNow) /\ Len(scopes) = 1 /\ scopes \in Seq(SUBSET Labels)
    BY <2>1 DEF Solver, ScopesOK, DepthOK, BaseOK, BeforeLeak
  <2> HIDE DEF KnownNow
  <2> QED
    BY <2>2
<1> QED
  BY <1>1, <1>2, <1>3, PTL DEF Spec

-----------------------------------------------------------------------------
(* Rounds: where a type stands when Z3 decides every query.                *)

InRound == phase \in {"push", "probe", "refute", "pop", "leak"}
FixedOK == mech \in Mechs /\ asked \in Requests
RoundOK ==
    /\ phase # "setup" => Design[mech].n > 0
    /\ InRound => i <= Len(asked.checks)
    /\ phase = "probe" =>
           scopes[2] = {IF asked.checks[i] = kind THEN "asked" ELSE "not asked"}
    /\ phase = "refute" => scopes[2] = {"asked"} /\ asked.checks[i] = kind

RInv == IInv /\ FixedOK /\ (InProperty => RoundOK)

LEMMA RequestType ==
    ASSUME FixedOK
    PROVE  asked.checks \in Seq(Int) /\ Len(asked.checks) \in Nat
           /\ Design[mech].n \in Nat /\ Design[mech].type \in Int
<1>1. asked \in [checks : Seq(Int), invariants : Seq(Int)]
  BY RequestsAssumption DEF FixedOK
<1>2. asked.checks \in Seq(Int)
  BY <1>1
<1>3. Design[mech].n \in Nat /\ Design[mech].type \in Int
  BY DesignAssumption DEF FixedOK
<1> QED
  BY <1>2, <1>3

LEMMA TwoScopes ==
    ASSUME NEW s \in Seq(SUBSET Labels), Len(s) = 2
    PROVE  Asserted(s) = s[1] \cup s[2]
<1>1. DOMAIN s = 1..2
  OBVIOUS
<1>2. DOMAIN s = {1, 2}
  BY <1>1
<1> QED
  BY <1>2 DEF Asserted

LEMMA Decides ==
    ASSUME ~GivesUp, NEW s, NEW answer \in Answers(s)
    PROVE  answer = IF Models(s) = {} THEN "unsat" ELSE "sat"
  BY DEF Answers

\* What the labels say.
LEMMA Meaning ==
    ASSUME NEW m, NEW w
    PROVE  /\ Holds("preCond", m, w) <=> w.bid \in Design[m].pre
           /\ Holds("declared", m, w) <=> Declared(m, w.bid, w.val)
           /\ Holds("asked", m, w) <=> TRUE
           /\ Holds("not asked", m, w) <=> FALSE
           /\ Holds("bid=val", m, w) <=> w.bid = w.val
           /\ Holds("mirror", m, w) <=> w.mirror[1] # w.val[1]
           /\ Holds("apart", m, w) <=> Apart(w)
<1>1. Holds("preCond", m, w) <=> w.bid \in Design[m].pre
  BY DEF Holds
<1>2. Holds("declared", m, w) <=> Declared(m, w.bid, w.val)
  BY DEF Holds
<1>3. Holds("asked", m, w) <=> TRUE
  BY DEF Holds
<1>4. Holds("not asked", m, w) <=> FALSE
  BY DEF Holds
<1>5. Holds("bid=val", m, w) <=> w.bid = w.val
  BY DEF Holds
<1>6. Holds("mirror", m, w) <=> w.mirror[1] # w.val[1]
  BY DEF Holds
<1>7. Holds("apart", m, w) <=> Apart(w)
  BY DEF Holds
<1> QED
  BY <1>1, <1>2, <1>3, <1>4, <1>5, <1>6, <1>7

LEMMA RInit == Init => RInv
<1>1. Init => IInv /\ FixedOK
  BY ControlInit, SolverInit DEF IInv, Init, FixedOK
<1>2. Init => RoundOK
  BY DEF Init, RoundOK, InRound
<1> QED
  BY <1>1, <1>2 DEF RInv

LEMMA RoundStep ==
    ASSUME ~GivesUp, RInv, InProperty, InProperty', Next
    PROVE  RoundOK'
<1>1. /\ RoundOK /\ Solver /\ ControlOK /\ FixedOK
      /\ stage = "property" /\ stage' = "property" /\ ~crashed /\ ~crashed'
  BY DEF RInv, IInv, InProperty
<1>2. CASE Setup
  <2>1. Design[mech].n # 0 /\ mech' = mech /\ phase' = "type"
    BY <1>1, <1>2 DEF Setup, Crash
  <2> DEFINE n == Design[mech].n
  <2>2. n \in Nat /\ n # 0
    BY <1>1, <2>1, RequestType
  <2> HIDE DEF n
  <2>3. n > 0
    BY <2>2
  <2>4. Design[mech'].n > 0
    BY <2>1, <2>3 DEF n
  <2> QED
    BY <2>1, <2>4 DEF RoundOK, InRound
<1>3. CASE NextType
  BY <1>1, <1>3 DEF NextType, RoundOK, InRound, Running, Types
<1>4. CASE EndTypes
  BY <1>1, <1>4 DEF EndTypes
<1>5. CASE Push
  <2> DEFINE a == {IF asked.checks[i] = kind THEN "asked" ELSE "not asked"}
  <2>1. /\ phase = "push" /\ phase' = "probe" /\ scopes' = Append(scopes, a)
        /\ UNCHANGED <<mech, asked, i, kind>>
    BY <1>1, <1>5 DEF Push, Running, Pushes, Types
  <2>2. scopes \in Seq(SUBSET Labels) /\ Len(scopes) = 1
    BY <1>1, <2>1 DEF Solver, ScopesOK, DepthOK
  <2> HIDE DEF a
  <2>4. a \in SUBSET Labels
    BY DEF a, Labels
  <2>3. scopes'[2] = a
    BY <2>1, <2>2, <2>4, PushFacts
  <2> QED
    BY <1>1, <2>1, <2>3 DEF RoundOK, InRound, a
<1>6. CASE Probe
  <2>1. phase = "probe" /\ UNCHANGED <<mech, asked, i, kind, scopes>>
    BY <1>6 DEF Probe, Running
  <2>2. PICK answer \in Answers(scopes) :
           phase' = IF answer = "sat" THEN "refute" ELSE "pop"
    BY <1>6 DEF Probe
  <2>3. scopes \in Seq(SUBSET Labels) /\ Len(scopes) = 2
    BY <1>1, <2>1 DEF Solver, ScopesOK, DepthOK
  <2>4. ASSUME Models(scopes) # {} PROVE "not asked" \notin scopes[2]
    <3>1. PICK w \in Models(scopes) : TRUE
      BY <2>4
    <3>2. \A a \in Asserted(scopes) : Holds(a, mech, w)
      BY DEF Models
    <3> QED
      BY <2>3, <3>2, TwoScopes, Meaning
  <2>5. phase' = "refute" => scopes[2] = {"asked"} /\ asked.checks[i] = kind
    <3>1. phase' = "refute" => Models(scopes) # {}
      BY <2>2, Decides
    <3>2. scopes[2] = {IF asked.checks[i] = kind THEN "asked" ELSE "not asked"}
      BY <1>1, <2>1 DEF RoundOK
    <3> QED
      BY <2>4, <3>1, <3>2
  <2>6. phase' \in {"refute", "pop"}
    BY <2>2
  <2> QED
    BY <1>1, <2>1, <2>5, <2>6 DEF RoundOK, InRound
<1>7. CASE Refute
  BY <1>1, <1>7 DEF Refute, RoundOK, InRound, Running, Crash
<1>8. CASE Pop
  BY <1>1, <1>8 DEF Pop, RoundOK, InRound, Running, Advance, Crash
<1>9. CASE Leak
  BY <1>1, <1>9 DEF Leak, RoundOK, InRound, Running, Advance
<1>10. CASE Done /\ UNCHANGED vars
  BY <1>1, <1>10 DEF Done
<1> QED
  BY <1>2, <1>3, <1>4, <1>5, <1>6, <1>7, <1>8, <1>9, <1>10 DEF Next

LEMMA FixedStep == [Next]_vars => mech' = mech /\ asked' = asked
  BY DEF Next, vars, Setup, NextType, EndTypes, Push, Probe, Refute, Pop, Leak, Crash

LEMMA RStep ==
    ASSUME ~GivesUp, RInv, [Next]_vars
    PROVE  RInv'
<1>1. IInv'
  BY ControlStep, SolverStep DEF IInv, RInv
<1>2. FixedOK'
  BY FixedStep DEF FixedOK, RInv
<1>3. InProperty' => InProperty
  BY DEF InProperty, Next, vars, Setup, NextType, EndTypes, Push, Probe, Refute, Pop,
         Leak, Crash, Running, Done
<1>4. CASE Next
  BY <1>1, <1>2, <1>3, <1>4, RoundStep DEF RInv
<1>5. CASE UNCHANGED vars
  <2>1. RoundOK => RoundOK'
    BY <1>5 DEF vars, RoundOK, InRound
  <2> QED
    BY <1>1, <1>2, <1>3, <2>1 DEF RInv
<1> QED
  BY <1>4, <1>5

-----------------------------------------------------------------------------
(* Which declared types have their verdict.  The types before the i-th     *)
(* have been through all four checks; the i-th has its verdict once the    *)
(* check of its own kind is over.                                          *)
Reached == /\ asked.checks[i] \in 0..3
           /\ \/ asked.checks[i] < kind
              \/ asked.checks[i] = kind /\ phase \in {"pop", "leak"}
Past(n) == n < i \/ (n = i /\ InRound /\ Reached)
AnswersOK == \A n \in 1..Len(asked.checks) :
                 IF Past(n) THEN AnsweredTo(n) ELSE Verdicts("property", n) = {}
EachInv == Answerable(mech) =>
               IF stage = "property" THEN ~crashed /\ AnswersOK
               ELSE \A n \in 1..Len(asked.checks) : AnsweredTo(n)

LEMMA VerdictAppend ==
    ASSUME report \in Seq(Verdict), NEW v \in Verdict, report' = Append(report, v),
           asked' = asked, NEW n
    PROVE  /\ ~(v.stage = "property" /\ v.i = n) =>
                  /\ Verdicts("property", n)' = Verdicts("property", n)
                  /\ AnsweredTo(n) => AnsweredTo(n)'
           /\ /\ v.stage = "property" /\ v.i = n
              /\ Verdicts("property", n) = {}
              /\ asked.checks[n] \in 0..3 /\ v.kind = asked.checks[n]
              => AnsweredTo(n)'
<1> DEFINE l == Len(report)
<1>1. /\ DOMAIN report = 1..l /\ DOMAIN report' = 1..(l + 1)
      /\ \A e \in 1..l : report'[e] = report[e]
      /\ report'[l + 1] = v
      /\ l \in Nat
  OBVIOUS
<1>2. 1..(l + 1) = 1..l \cup {l + 1}
  BY <1>1
<1> HIDE DEF l
<1>3. Verdicts("property", n)' =
          Verdicts("property", n) \cup
          (IF v.stage = "property" /\ v.i = n THEN {l + 1} ELSE {})
  BY <1>1, <1>2 DEF Verdicts
<1>4. ASSUME ~(v.stage = "property" /\ v.i = n)
      PROVE  /\ Verdicts("property", n)' = Verdicts("property", n)
             /\ AnsweredTo(n) => AnsweredTo(n)'
  <2>1. Verdicts("property", n)' = Verdicts("property", n)
    BY <1>3, <1>4
  <2>2. \A e \in DOMAIN report : e \in DOMAIN report' /\ report'[e] = report[e]
    BY <1>1, <1>2
  <2>3. ASSUME AnsweredTo(n), asked.checks[n] \in 0..3 PROVE AnsweredTo(n)'
    <3>1. PICK e \in DOMAIN report : /\ Verdicts("property", n) = {e}
                                     /\ report[e].kind = asked.checks[n]
      BY <2>3 DEF AnsweredTo
    <3>2. e \in DOMAIN report' /\ report'[e].kind = asked'.checks[n]
          /\ Verdicts("property", n)' = {e}
      BY <2>1, <2>2, <3>1
    <3> QED
      BY <2>3, <3>2 DEF AnsweredTo
  <2>4. ASSUME AnsweredTo(n), asked.checks[n] \notin 0..3 PROVE AnsweredTo(n)'
    BY <2>1, <2>4 DEF AnsweredTo
  <2> QED
    BY <2>1, <2>3, <2>4
<1>5. ASSUME /\ v.stage = "property" /\ v.i = n
             /\ Verdicts("property", n) = {}
             /\ asked.checks[n] \in 0..3 /\ v.kind = asked.checks[n]
      PROVE  AnsweredTo(n)'
  <2>1. Verdicts("property", n)' = {l + 1}
    BY <1>3, <1>5
  <2>2. l + 1 \in DOMAIN report' /\ report'[l + 1].kind = asked'.checks[n]
    BY <1>1, <1>2, <1>5
  <2> QED
    BY <1>5, <2>1, <2>2 DEF AnsweredTo
<1> QED
  BY <1>4, <1>5

\* A step that prints nothing only has to move types that ask for no check of
\* check_property, or none.
LEMMA AnswersKept ==
    ASSUME AnswersOK, report' = report, asked' = asked,
           \A n \in 1..Len(asked.checks) :
               /\ Past(n) => Past(n)'
               /\ Past(n)' /\ ~Past(n) => asked.checks[n] \notin 0..3
    PROVE  AnswersOK'
<1>1. \A n : /\ Verdicts("property", n)' = Verdicts("property", n)
             /\ AnsweredTo(n)' = AnsweredTo(n)
  BY DEF Verdicts, AnsweredTo
<1> SUFFICES ASSUME NEW n \in 1..Len(asked.checks)
             PROVE  IF Past(n)' THEN AnsweredTo(n)' ELSE Verdicts("property", n)' = {}
  BY DEF AnswersOK
<1>2. IF Past(n) THEN AnsweredTo(n) ELSE Verdicts("property", n) = {}
  BY DEF AnswersOK
<1>3. ASSUME Past(n)', ~Past(n) PROVE AnsweredTo(n)
  BY <1>2, <1>3 DEF AnsweredTo
<1> HIDE DEF Past
<1> QED
  BY <1>1, <1>2, <1>3

\* With a truthful profile among the declared ones, the declarations and the
\* question of a check have a model.
LEMMA HonestModel ==
    ASSUME NEW s \in Seq(SUBSET Labels), Len(s) = 2, NEW b \in BOOLEAN,
           s[1] = Base(b), s[2] = {"asked"},
           Design[mech].n \in Nat, Answerable(mech)
    PROVE  Models(s) # {}
<1>1. PICK p \in Honest(Profiles(mech)) : TRUE
  BY DEF Answerable
<1>2. /\ p[1] \in Bids(mech) /\ p[2] \in Bids(mech) /\ p[1] = p[2]
      /\ p[1] \in Design[mech].pre /\ Declared(mech, p[1], p[2])
  BY DEF Honest, Profiles
<1> DEFINE mirror == [k \in 1..2 |-> p[1][k]]
           w == [bid |-> p[1], val |-> p[2], mirror |-> mirror]
<1>3. mirror \in [1..2 -> Amounts]
  <2>1. \A k \in 1..2 : k \in 1..Design[mech].n
    BY DEF Answerable
  <2> QED
    BY <1>2, <2>1 DEF Bids
<1> HIDE DEF mirror
<1>4. w \in Worlds(mech) /\ w.bid = p[1] /\ w.val = p[2]
  BY <1>2, <1>3 DEF Worlds
<1> HIDE DEF w
<1>5. Asserted(s) \subseteq {"preCond", "declared", "bid=val", "asked"}
  BY TwoScopes DEF Base
<1>6. /\ Holds("preCond", mech, w) /\ Holds("declared", mech, w)
      /\ Holds("asked", mech, w) /\ Holds("bid=val", mech, w)
  BY <1>2, <1>4, Meaning
<1>7. w \in Models(s)
  BY <1>4, <1>5, <1>6 DEF Models
<1> QED
  BY <1>7

LEMMA Enough ==
    ASSUME FixedOK, Answerable(mech)
    PROVE  /\ Design[mech].n \in Nat /\ Design[mech].n > 1
           /\ Len(Design[mech].util) >= Design[mech].n
           /\ Len(Design[mech].util) # 0
           /\ ~(Len(Design[mech].util) < 1) /\ ~(Len(Design[mech].util) < 2)
           /\ ~(Len(Design[mech].util) < Design[mech].n)
  BY RequestType DEF Answerable

LEMMA AnswersStep ==
    ASSUME ~GivesUp, RInv, InProperty, Answerable(mech), AnswersOK, Next
    PROVE  IF stage' = "property" THEN ~crashed' /\ AnswersOK'
           ELSE \A n \in 1..Len(asked'.checks) : AnsweredTo(n)'
<1>1. /\ RoundOK /\ Solver /\ ControlOK /\ FixedOK
      /\ stage = "property" /\ ~crashed
  BY DEF RInv, IInv, InProperty
<1> DEFINE c == asked.checks[i]
           last == Len(asked.checks)
<1>2. /\ i \in Nat \ {0} /\ kind \in 0..3 /\ report \in Seq(Verdict) /\ last \in Nat
      /\ i <= last => c \in Int
  <2>1. asked.checks \in Seq(Int)
    BY <1>1, RequestType
  <2>2. i \in Nat \ {0} /\ kind \in 0..3 /\ report \in Seq(Verdict)
    BY <1>1 DEF ControlOK
  <2> QED
    BY <2>1, <2>2
<1>3. Reached <=> c \in 0..3 /\ (c < kind \/ (c = kind /\ phase \in {"pop", "leak"}))
  BY DEF Reached
<1>4. asked' = asked
  BY FixedStep
<1>5. Reached' <=> /\ asked.checks[i'] \in 0..3
                   /\ \/ asked.checks[i'] < kind'
                      \/ asked.checks[i'] = kind' /\ phase' \in {"pop", "leak"}
  BY <1>4 DEF Reached
\* The steps that print nothing and stay within the type.
<1>6. ASSUME report' = report, i' = i, stage' = stage, crashed' = crashed,
             (InRound /\ Reached) = (InRound' /\ Reached')
      PROVE  ~crashed' /\ AnswersOK'
  <2>1. \A n : Past(n)' = Past(n)
    BY <1>6 DEF Past
  <2> QED
    BY <1>1, <1>4, <1>6, <2>1, AnswersKept
<1>7. CASE Setup
  <2>1. Design[mech].type # -1 /\ Design[mech].n # 0
    BY <1>1, Enough DEF Answerable
  <2>2. /\ phase = "setup" /\ phase' = "type"
        /\ UNCHANGED <<report, i, stage, crashed>>
    BY <1>7, <2>1 DEF Setup, Running
  <2> QED
    BY <1>1, <1>6, <2>2 DEF InRound
<1>8. CASE NextType
  <2>1. /\ phase = "type" /\ phase' = "push" /\ kind' = 0
        /\ UNCHANGED <<report, i, stage, crashed>>
    BY <1>8 DEF NextType, Running
  <2>2. ~Reached'
    BY <1>5, <2>1
  <2> QED
    BY <1>1, <1>6, <2>1, <2>2 DEF InRound
<1>9. CASE EndTypes
  <2>1. i > last /\ stage' = "invariant" /\ report' = report
    BY <1>1, <1>9 DEF EndTypes, Types
  <2>2. \A n \in 1..last : n < i
    BY <1>2, <2>1
  <2>3. \A n \in 1..last : AnsweredTo(n)
    BY <2>2 DEF AnswersOK, Past
  <2>4. \A n : AnsweredTo(n)' = AnsweredTo(n)
    BY <1>4, <2>1 DEF AnsweredTo, Verdicts
  <2> QED
    BY <1>4, <2>1, <2>3, <2>4
<1>10. CASE Push
  <2>1. /\ phase = "push" /\ phase' = "probe"
        /\ UNCHANGED <<report, i, kind, stage, crashed>>
    BY <1>10 DEF Push, Running
  <2>2. Reached' = Reached
    BY <1>3, <1>5, <2>1
  <2> QED
    BY <1>1, <1>6, <2>1, <2>2 DEF InRound
<1>11. CASE Probe
  <2>1. /\ phase = "probe" /\ UNCHANGED <<report, i, kind, stage, crashed>>
    BY <1>11 DEF Probe, Running
  <2>2. PICK answer \in Answers(scopes) :
           phase' = IF answer = "sat" THEN "refute" ELSE "pop"
    BY <1>11 DEF Probe
  <2>3. ASSUME phase' = "pop" PROVE c # kind
    <3>1. SUFFICES ASSUME c = kind PROVE Models(scopes) # {}
      BY <2>2, <2>3, Decides
    <3>2. scopes \in Seq(SUBSET Labels) /\ Len(scopes) = 2
      BY <1>1, <2>1 DEF Solver, ScopesOK, DepthOK
    <3>3. scopes[2] = {"asked"}
      BY <1>1, <2>1, <3>1 DEF RoundOK
    <3>4. \E b \in BOOLEAN : scopes[1] = Base(b)
      <4>1. KnownNow \in BOOLEAN
        BY DEF KnownNow, Known
      <4> HIDE DEF KnownNow
      <4>2. \/ \E b \in BOOLEAN : scopes[1] = Base(b) /\ KnownNow = (b \/ truthful)
            \/ scopes[1] = Base(KnownNow)
        BY <1>1, <2>1 DEF Solver, BaseOK
      <4> QED
        BY <4>1, <4>2
    <3> QED
      BY <1>1, <3>2, <3>3, <3>4, HonestModel, RequestType
  <2>4. phase' \in {"refute", "pop"}
    BY <2>2
  <2>5. c # kind \/ phase' = "refute"
    BY <2>3, <2>4
  <2> HIDE DEF c
  <2>6. Reached' = Reached
    BY <1>3, <1>5, <2>1, <2>5 DEF c
  <2> QED
    BY <1>1, <1>6, <2>1, <2>4, <2>6 DEF InRound
<1>12. CASE Refute
  <2>1. ~Missing
    BY <1>1, Enough DEF Missing
  <2>2. PICK answer \in Answers(scopes') :
           LET yes == answer # "sat"
           IN  /\ report' = Append(report, [stage |-> stage, i |-> i,
                                            kind |-> kind, verdict |-> yes])
               /\ truthful' = IF stage = "property" /\ kind = 0 THEN yes ELSE truthful
               /\ crashed' = (~yes /\ Len(Design[mech].util) < Design[mech].n)
    BY <1>12, <2>1 DEF Refute
  <2>3. phase = "refute" /\ phase' = "pop" /\ UNCHANGED <<i, kind, stage>>
    BY <1>12, <2>1 DEF Refute, Running
  <2>4. ~crashed'
    BY <1>1, <2>2, Enough
  <2>5. c = kind /\ i <= last
    BY <1>1, <2>3 DEF RoundOK, InRound
  <2>6. ~Reached /\ Reached' /\ InRound'
    BY <1>2, <1>3, <1>5, <2>3, <2>5 DEF InRound
  <2> DEFINE v == [stage |-> stage, i |-> i, kind |-> kind, verdict |-> answer # "sat"]
  <2>7. v \in Verdict /\ report' = Append(report, v)
        /\ v.stage = "property" /\ v.i = i /\ v.kind = kind
    BY <1>1, <1>2, <2>2 DEF Verdict
  <2> HIDE DEF v
  <2>8. ASSUME NEW n \in 1..last
        PROVE  IF Past(n)' THEN AnsweredTo(n)' ELSE Verdicts("property", n)' = {}
    <3>1. IF Past(n) THEN AnsweredTo(n) ELSE Verdicts("property", n) = {}
      BY DEF AnswersOK
    <3>2. CASE n = i
      <4>1. Past(n)' /\ ~Past(n)
        BY <1>2, <2>3, <2>6, <3>2 DEF Past
      <4>2. asked.checks[n] \in 0..3 /\ v.kind = asked.checks[n]
        BY <1>2, <2>5, <2>7, <3>2
      <4> QED
        BY <1>2, <1>4, <2>7, <3>1, <3>2, <4>1, <4>2, VerdictAppend
    <3>3. CASE n # i
      <4>1. Past(n)' = Past(n)
        BY <2>3, <3>3 DEF Past
      <4>2. /\ Verdicts("property", n)' = Verdicts("property", n)
            /\ AnsweredTo(n) => AnsweredTo(n)'
        BY <1>2, <1>4, <2>7, <3>3, VerdictAppend
      <4> HIDE DEF Past
      <4> QED
        BY <3>1, <4>1, <4>2
    <3> QED
      BY <3>2, <3>3
  <2> QED
    BY <1>1, <1>4, <2>3, <2>4, <2>8 DEF AnswersOK
\* The end of a check, and of the last check of a type.
<1>13. ASSUME Advance, report' = report, stage' = stage, crashed' = crashed,
              phase \in {"pop", "leak"}
       PROVE  ~crashed' /\ AnswersOK'
  <2>1. CASE kind # 3
    <3>1. kind' = kind + 1 /\ phase' = "push" /\ i' = i
      BY <1>1, <1>2, <1>13, <2>1 DEF Advance, Kinds
    <3>2. i <= last /\ c \in Int
      BY <1>1, <1>2, <1>13 DEF RoundOK, InRound
    <3>5. Reached <=> c \in 0..3 /\ (c < kind \/ c = kind)
      BY <1>3, <1>13
    <3>6. Reached' <=> c \in 0..3 /\ c < kind + 1
      BY <1>5, <3>1
    <3> HIDE DEF c
    <3>7. c < kind + 1 <=> (c < kind \/ c = kind)
      BY <1>2, <3>2
    <3>3. Reached' = Reached
      BY <3>5, <3>6, <3>7 DEF Reached
    <3> QED
      BY <1>1, <1>6, <1>13, <3>1, <3>3 DEF InRound
  <2>2. CASE kind = 3
    <3>1. kind' = 0 /\ phase' = "type" /\ i' = i + 1
      BY <1>1, <1>13, <2>2 DEF Advance, Kinds
    <3>2. i <= last /\ c \in Int
      BY <1>1, <1>2, <1>13 DEF RoundOK, InRound
    <3>3. InRound /\ ~InRound'
      BY <1>13, <3>1 DEF InRound
    <3>4. c \in 0..3 => Reached
      BY <1>3, <1>13, <2>2, <3>2
    <3>5. ASSUME NEW n \in 1..last
          PROVE  /\ Past(n) => Past(n)'
                 /\ Past(n)' /\ ~Past(n) => asked.checks[n] \notin 0..3
      <4>1. Past(n)' <=> n < i + 1
        BY <3>1, <3>3 DEF Past
      <4>2. Past(n) <=> n < i \/ (n = i /\ Reached)
        BY <3>3 DEF Past
      <4>3. n = i /\ ~Reached => asked.checks[n] \notin 0..3
        BY <3>4
      <4> HIDE DEF Past, Reached
      <4>4. n < i + 1 <=> n < i \/ n = i
        BY <1>2
      <4> QED
        BY <4>1, <4>2, <4>3, <4>4
    <3> QED
      BY <1>1, <1>4, <1>13, <3>5, AnswersKept
  <2> QED
    BY <2>1, <2>2
<1>14. CASE Pop
  <2>1. phase = "pop" /\ Len(scopes) = 2
    BY <1>1, <1>14 DEF Pop, Running, Solver, DepthOK
  <2>2. /\ report' = report /\ stage' = stage /\ crashed' = crashed
        /\ IF kind = 1 THEN phase' = "leak" /\ kind' = kind /\ i' = i ELSE Advance
    BY <1>1, <1>14, <2>1 DEF Pop
  <2>3. CASE kind = 1
    <3>1. Reached' = Reached
      BY <1>3, <1>5, <2>1, <2>2, <2>3
    <3> QED
      BY <1>1, <1>6, <2>1, <2>2, <2>3, <3>1 DEF InRound
  <2> QED
    BY <1>1, <1>13, <2>1, <2>2, <2>3
<1>15. CASE Leak
  BY <1>1, <1>13, <1>15 DEF Leak, Running
<1>16. CASE Done /\ UNCHANGED vars
  BY <1>1, <1>16 DEF Done
<1> QED
  BY <1>7, <1>8, <1>9, <1>10, <1>11, <1>12, <1>14, <1>15, <1>16 DEF Next

\* check_invariant prints verdicts of its own stage only.
LEMMA AnswersStay ==
    ASSUME RInv, stage # "property", [Next]_vars
    PROVE  /\ stage' # "property"
           /\ \A n : AnsweredTo(n) => AnsweredTo(n)'
<1>1. ControlOK /\ FixedOK
  BY DEF RInv, IInv
<1>2. asked' = asked
  BY FixedStep
<1>3. stage' # "property"
  BY DEF Next, vars, Setup, NextType, EndTypes, Push, Probe, Refute, Pop, Leak, Crash, Done
<1>4. ASSUME report' = report PROVE \A n : AnsweredTo(n) => AnsweredTo(n)'
  BY <1>2, <1>4 DEF AnsweredTo, Verdicts
<1>5. ASSUME Refute, ~Missing PROVE \A n : AnsweredTo(n) => AnsweredTo(n)'
  <2>1. PICK yes \in BOOLEAN :
           report' = Append(report, [stage |-> stage, i |-> i, kind |-> kind, verdict |-> yes])
    BY <1>5 DEF Refute
  <2>2. stage = "invariant"
    BY <1>1, <1>5 DEF Refute, Running, ControlOK
  <2> DEFINE v == [stage |-> stage, i |-> i, kind |-> kind, verdict |-> yes]
  <2>3. v \in Verdict /\ v.stage # "property" /\ report' = Append(report, v)
    BY <1>1, <2>1, <2>2 DEF Verdict, ControlOK
  <2>4. report \in Seq(Verdict)
    BY <1>1 DEF ControlOK
  <2> HIDE DEF v
  <2> QED
    BY <1>2, <2>3, <2>4, VerdictAppend
<1>6. report' = report \/ (Refute /\ ~Missing)
  BY DEF Next, vars, Setup, NextType, EndTypes, Push, Probe, Refute, Pop, Leak, Crash, Done
<1> QED
  BY <1>3, <1>4, <1>5, <1>6

LEMMA EachInit == Init => EachInv
<1> SUFFICES ASSUME Init PROVE AnswersOK /\ stage = "property" /\ ~crashed
  BY DEF EachInv
<1>1. /\ stage = "property" /\ ~crashed /\ i = 1 /\ phase = "setup" /\ report = <<>>
      /\ asked \in Requests
  BY DEF Init
<1>2. \A n \in 1..Len(asked.checks) : ~Past(n)
  <2>1. Len(asked.checks) \in Nat
    BY <1>1, RequestsAssumption
  <2> QED
    BY <1>1, <2>1 DEF Past, InRound
<1>3. \A n : Verdicts("property", n) = {}
  BY <1>1 DEF Verdicts
<1> QED
  BY <1>1, <1>2, <1>3 DEF AnswersOK

LEMMA EachStep ==
    ASSUME ~GivesUp, RInv, EachInv, [Next]_vars
    PROVE  EachInv'
<1> SUFFICES ASSUME Answerable(mech)
             PROVE  IF stage' = "property" THEN ~crashed' /\ AnswersOK'
                    ELSE \A n \in 1..Len(asked'.checks) : AnsweredTo(n)'
  BY FixedStep DEF EachInv
<1>1. CASE UNCHANGED vars
  <2>1. IF stage = "property" THEN ~crashed /\ AnswersOK
        ELSE \A n \in 1..Len(asked.checks) : AnsweredTo(n)
    BY DEF EachInv
  <2> QED
    BY <1>1, <2>1 DEF vars, AnswersOK, Past, InRound, Reached, AnsweredTo, Verdicts
<1>2. CASE Next /\ stage = "property"
  BY <1>2, AnswersStep DEF EachInv, InProperty
<1>3. CASE Next /\ stage # "property"
  <2>1. \A n \in 1..Len(asked.checks) : AnsweredTo(n)
    BY <1>3 DEF EachInv
  <2> QED
    BY <1>3, <2>1, AnswersStay, FixedStep
<1> QED
  BY <1>1, <1>2, <1>3

(* When Z3 decides every query and truthful bidding is possible, each      *)
(* declare_check in 0..3 gets its own verdict and no other: no exception   *)
(* leaves check_property and no earlier check hides a later one.           *)
THEOREM EveryCheckAnswered == ~GivesUp => (Spec => []EachAnswered)
<1> SUFFICES ASSUME ~GivesUp PROVE Spec => []EachAnswered
  OBVIOUS
<1>1. Init => RInv /\ EachInv
  BY RInit, EachInit
<1>2. RInv /\ EachInv /\ [Next]_vars => (RInv /\ EachInv)'
  BY RStep, EachStep
<1>3. RInv /\ EachInv => EachAnswered
  <2> SUFFICES ASSUME RInv, EachInv, Checked, Answerable(mech)
               PROVE  \A n \in DOMAIN asked.checks : AnsweredTo(n)
    BY DEF EachAnswered
  <2>1. stage # "property"
    BY DEF Checked, EachInv
  <2>2. asked.checks \in Seq(Int)
    BY RequestType DEF RInv
  <2> QED
    BY <2>1, <2>2 DEF EachInv
<1> QED
  BY <1>1, <1>2, <1>3, PTL DEF Spec

-----------------------------------------------------------------------------
(* The loop over the bidders: what TopBidder and TopBid are after it.      *)

LEMMA NatSetInduction ==
    ASSUME NEW S, 0 \in S, \A n \in Nat : n \in S => n + 1 \in S
    PROVE  Nat \subseteq S
<1> DEFINE R == {ss \in Nat \X Nat : ss[1] < ss[2]}
           T == Nat \ S
<1>1. IsWellFoundedOn(R, Nat)
  BY NatLessThanWellFounded DEF OpToRel
<1> SUFFICES ASSUME T # {} PROVE FALSE
  OBVIOUS
<1>2. PICK x \in T : \A y \in T : ~(<<y, x>> \in R)
  <2>1. T \subseteq Nat
    OBVIOUS
  <2> HIDE DEF T, R
  <2> QED
    BY <1>1, <2>1, WFMin
<1>3. x \in Nat /\ x \notin S /\ x # 0
  OBVIOUS
<1>4. x - 1 \in Nat /\ (x - 1) + 1 = x /\ x - 1 < x
  BY <1>3
<1>5. x - 1 \in S
  BY <1>2, <1>4
<1> QED
  BY <1>3, <1>4, <1>5

\* r is the value of the expressions after 0, 1, ..., n bidders.
Loop(r, b, n) == r = [k \in 0..n |-> IF k = 0 THEN First(b)
                                     ELSE Visit(r[k - 1], k, b[k])]

LEMMA LoopExists == ASSUME NEW b PROVE \A n \in Nat : \E r : Loop(r, b, n)
<1> DEFINE S == {n \in Nat : \E r : Loop(r, b, n)}
<1>1. 0 \in S
  <2> DEFINE r == [k \in 0..0 |-> First(b)]
  <2>1. r = [k \in 0..0 |-> IF k = 0 THEN First(b) ELSE Visit(r[k - 1], k, b[k])]
    <3>1. \A k \in 0..0 : k = 0
      OBVIOUS
    <3> QED
      BY <3>1
  <2>2. Loop(r, b, 0)
    BY <2>1 DEF Loop
  <2> QED
    BY <2>2
<1>2. ASSUME NEW n \in Nat, n \in S PROVE n + 1 \in S
  <2>1. PICK r : Loop(r, b, n)
    BY <1>2
  <2> DEFINE last == Visit(r[n], n + 1, b[n + 1])
             t == [k \in 0..(n + 1) |-> IF k = n + 1 THEN last ELSE r[k]]
             e(k) == IF k = 0 THEN First(b) ELSE Visit(t[k - 1], k, b[k])
  <2>2. ASSUME NEW k \in 0..(n + 1) PROVE t[k] = e(k)
    <3>1. CASE k = n + 1
      <4>1. t[k] = last /\ k # 0 /\ k - 1 = n /\ n \in 0..(n + 1) /\ n # n + 1
        BY <3>1
      <4>2. t[n] = r[n]
        BY <4>1
      <4> HIDE DEF t
      <4> QED
        BY <3>1, <4>1, <4>2
    <3>2. CASE k # n + 1
      <4>1. k \in 0..n /\ t[k] = r[k]
        BY <3>2
      <4>2. r[k] = IF k = 0 THEN First(b) ELSE Visit(r[k - 1], k, b[k])
        BY <2>1, <4>1 DEF Loop
      <4>3. k # 0 => t[k - 1] = r[k - 1]
        <5>1. k # 0 => k - 1 \in 0..(n + 1) /\ k - 1 # n + 1
          BY <4>1
        <5> QED
          BY <5>1
      <4> HIDE DEF t
      <4> QED
        BY <4>1, <4>2, <4>3
    <3> QED
      BY <3>1, <3>2
  <2>3. t = [k \in 0..(n + 1) |-> t[k]]
    OBVIOUS
  <2> HIDE DEF t
  <2>4. t = [k \in 0..(n + 1) |-> e(k)]
    BY <2>2, <2>3
  <2>5. Loop(t, b, n + 1)
    BY <2>4 DEF Loop
  <2> QED
    BY <2>5
<1> HIDE DEF S
<1>3. Nat \subseteq S
  BY <1>1, <1>2, NatSetInduction
<1> QED
  BY <1>3 DEF S

LEMMA RankedIsLoop ==
    ASSUME NEW b, NEW n \in Nat
    PROVE  \E r : Loop(r, b, n) /\ Ranked(b, n) = r[n]
<1> DEFINE r == CHOOSE g : Loop(g, b, n)
<1>1. Loop(r, b, n)
  BY LoopExists
<1>2. Ranked(b, n) = r[n]
  BY DEF Ranked, Loop
<1> QED
  BY <1>1, <1>2

\* After k bidders TopBidder is the first of them with the highest amount.
LeadsAfter(r, b, n, k) ==
    /\ r[k].top \in 1..n /\ (r[k].top <= k \/ r[k].top = 1)
    /\ r[k].topBid = b[r[k].top]
    /\ \A l \in 1..k : b[l] <= r[k].topBid
    /\ \A l \in 1..(r[k].top - 1) : b[l] < r[k].topBid

LEMMA LoopLeads ==
    ASSUME NEW n \in Nat, n > 0, NEW b \in [1..n -> Int], NEW r, Loop(r, b, n)
    PROVE  LeadsAfter(r, b, n, n)
<1> DEFINE S == {k \in Nat : k <= n => LeadsAfter(r, b, n, k)}
<1>1. 0 \in S
  <2>1. r[0] = First(b)
    BY DEF Loop
  <2>2. r[0].top = 1 /\ r[0].topBid = b[1]
    BY <2>1 DEF First
  <2>3. 1..0 = {} /\ 1..(r[0].top - 1) = {} /\ 1 \in 1..n
    BY <2>2
  <2> QED
    BY <2>2, <2>3 DEF LeadsAfter
<1>2. ASSUME NEW k \in Nat, k \in S PROVE k + 1 \in S
  <2> SUFFICES ASSUME k + 1 <= n PROVE LeadsAfter(r, b, n, k + 1)
    OBVIOUS
  <2> DEFINE v == b[k + 1]
             old == r[k]
             new == r[k + 1]
  <2>1. LeadsAfter(r, b, n, k)
    BY <1>2
  <2>2. new = Visit(old, k + 1, v)
    <3>1. k + 1 \in 0..n /\ k + 1 # 0 /\ (k + 1) - 1 = k
      OBVIOUS
    <3>2. new = IF k + 1 = 0 THEN First(b) ELSE Visit(r[(k + 1) - 1], k + 1, v)
      BY <3>1 DEF Loop
    <3> QED
      BY <3>1, <3>2
  <2>3. /\ new.top = IF old.topBid < v THEN k + 1 ELSE old.top
        /\ new.topBid = IF old.topBid < v THEN v ELSE old.topBid
    BY <2>2 DEF Visit, Top
  <2>4. \A l \in 1..n : b[l] \in Int
    OBVIOUS
  <2>5. k + 1 \in 1..n /\ v \in Int
    OBVIOUS
  <2>6. /\ old.top \in 1..n /\ (old.top <= k \/ old.top = 1)
        /\ old.topBid = b[old.top] /\ old.topBid \in Int
        /\ \A l \in 1..k : b[l] <= old.topBid
        /\ \A l \in 1..(old.top - 1) : b[l] < old.topBid
    BY <2>1, <2>4 DEF LeadsAfter
  <2> HIDE DEF old, new, v
  <2>7. CASE old.topBid < v
    <3>1. new.top = k + 1 /\ new.topBid = v
      BY <2>3, <2>7
    <3>2. \A l \in 1..k : l \in 1..n
      BY <2>5
    <3>3. \A l \in 1..k : b[l] < v
      BY <2>4, <2>5, <2>6, <2>7, <3>2
    <3>4. \A l \in 1..(k + 1) : b[l] <= v
      <4>1. \A l \in 1..(k + 1) : l \in 1..k \/ l = k + 1
        OBVIOUS
      <4>2. b[k + 1] <= v
        BY <2>5 DEF v
      <4> QED
        BY <2>4, <2>5, <3>2, <3>3, <4>1, <4>2
    <3>5. (k + 1) - 1 = k
      OBVIOUS
    <3> QED
      BY <2>5, <3>1, <3>3, <3>4, <3>5 DEF LeadsAfter, new, v
  <2>8. CASE ~(old.topBid < v)
    <3>1. new.top = old.top /\ new.topBid = old.topBid
      BY <2>3, <2>8
    <3>2. b[k + 1] <= old.topBid
      BY <2>5, <2>6, <2>8 DEF v
    <3>3. \A l \in 1..(k + 1) : l \in 1..k \/ l = k + 1
      OBVIOUS
    <3>4. \A l \in 1..(k + 1) : b[l] <= old.topBid
      BY <2>6, <3>2, <3>3
    <3>5. old.top <= k + 1 \/ old.top = 1
      BY <2>6
    <3> QED
      BY <2>6, <3>1, <3>4, <3>5 DEF LeadsAfter, new
  <2> QED
    BY <2>7, <2>8
<1> HIDE DEF S
<1>3. Nat \subseteq S
  BY <1>1, <1>2, NatSetInduction
<1> QED
  BY <1>3 DEF S

LEMMA RankedTop ==
    ASSUME NEW n \in Nat, n > 0, NEW b \in [1..n -> Int]
    PROVE  /\ Ranked(b, n).top \in 1..n
           /\ IsTop(Ranked(b, n).top, b)
           /\ Ranked(b, n).topBid = b[Ranked(b, n).top]
<1>1. PICK r : Loop(r, b, n) /\ Ranked(b, n) = r[n]
  BY RankedIsLoop
<1>2. LeadsAfter(r, b, n, n)
  BY <1>1, LoopLeads
<1>3. DOMAIN b = 1..n
  OBVIOUS
<1> QED
  BY <1>1, <1>2, <1>3 DEF LeadsAfter, IsTop

LEMMA TopUnique ==
    ASSUME NEW n \in Nat, NEW b \in [1..n -> Int], NEW k \in 1..n, NEW l \in 1..n,
           IsTop(k, b), IsTop(l, b)
    PROVE  k = l
<1>1. b[k] <= b[l] /\ b[l] <= b[k] /\ b[k] \in Int /\ b[l] \in Int
  BY DEF IsTop
<1>2. ~(k < l)
  <2>1. k < l => k \in 1..(l - 1)
    OBVIOUS
  <2> QED
    BY <1>1, <2>1 DEF IsTop
<1>3. ~(l < k)
  <2>1. l < k => l \in 1..(k - 1)
    OBVIOUS
  <2> QED
    BY <1>1, <2>1 DEF IsTop
<1> QED
  BY <1>2, <1>3

-----------------------------------------------------------------------------
(* What Z3 is asked: a check's query has no model exactly when the         *)
(* fairness property holds for the profiles that the base describes.       *)

Described(m, b) == IF b THEN Honest(Profiles(m)) ELSE Profiles(m)
Refuting(m, b, q) == {w \in Worlds(m) : \A a \in Base(b) \cup {"asked"} \cup q : Holds(a, m, w)}

LEMMA DesignType ==
    ASSUME NEW m \in Mechs
    PROVE  /\ Amounts \subseteq Int /\ Design[m].n \in Nat
           /\ \A b \in Bids(m) : Winner(m, b) \in Int /\ Price(m, b) \in Int
           /\ Len(Design[m].util) \in Nat
           /\ \A k \in 1..Len(Design[m].util), b, v \in Bids(m) : Utility(m, k, b, v) \in Int
<1> DEFINE d == Design[m]
<1>1. /\ Amounts \subseteq Int /\ d.n \in Nat
      /\ d.alloc \in [Bids(m) -> Int] /\ d.price \in [Bids(m) -> Int]
      /\ d.util \in Seq([who : Int, u : [Bids(m) \X Bids(m) -> Int]])
  BY DesignAssumption DEF Bids
<1>2. Len(d.util) \in Nat /\ \A k \in 1..Len(d.util) : d.util[k].u \in [Bids(m) \X Bids(m) -> Int]
  <2> DEFINE F == [Bids(m) \X Bids(m) -> Int]
             R == [who : Int, u : F]
             s == d.util
  <2>1. \A r \in R : r.u \in F
    OBVIOUS
  <2>2. s \in Seq(R)
    BY <1>1
  <2> HIDE DEF R, s, F
  <2>3. Len(s) \in Nat /\ \A k \in 1..Len(s) : s[k] \in R
    BY <2>2
  <2> QED
    BY <2>1, <2>3 DEF s, F
<1> HIDE DEF d
<1>3. \A b \in Bids(m) : d.alloc[b] \in Int /\ d.price[b] \in Int
  BY <1>1
<1>4. \A k \in 1..Len(d.util), b, v \in Bids(m) : d.util[k].u[<<b, v>>] \in Int
  BY <1>2
<1> QED
  BY <1>1, <1>2, <1>3, <1>4 DEF Winner, Price, Utility, d

LEMMA BaseWorlds ==
    ASSUME NEW m, NEW b \in BOOLEAN, NEW w \in Worlds(m)
    PROVE  (\A a \in Base(b) : Holds(a, m, w)) <=> <<w.bid, w.val>> \in Described(m, b)
<1>1. w.bid \in Bids(m) /\ w.val \in Bids(m)
  BY DEF Worlds
<1>2. <<w.bid, w.val>> \in Profiles(m) <=>
          Holds("preCond", m, w) /\ Holds("declared", m, w)
  BY <1>1, Meaning DEF Profiles
<1>3. <<w.bid, w.val>> \in Honest(Profiles(m)) <=>
          <<w.bid, w.val>> \in Profiles(m) /\ w.bid = w.val
  BY DEF Honest
<1>4. Holds("bid=val", m, w) <=> w.bid = w.val
  BY Meaning
<1>5. CASE b
  BY <1>2, <1>3, <1>4, <1>5 DEF Base, Described
<1>6. CASE ~b
  BY <1>2, <1>6 DEF Base, Described
<1> QED
  BY <1>5, <1>6

\* A refuting world is a described profile with a mirror for which q holds.
LEMMA RefutingIs ==
    ASSUME NEW m, NEW b \in BOOLEAN, NEW q, NEW w
    PROVE  w \in Refuting(m, b, q) <=>
               /\ w \in Worlds(m) /\ <<w.bid, w.val>> \in Described(m, b)
               /\ \A a \in q : Holds(a, m, w)
<1>1. Holds("asked", m, w)
  BY Meaning
<1> QED
  BY <1>1, BaseWorlds DEF Refuting

LEMMA DescribedType ==
    ASSUME NEW m, NEW b \in BOOLEAN, NEW p \in Described(m, b)
    PROVE  p[1] \in Bids(m) /\ p[2] \in Bids(m) /\ p = <<p[1], p[2]>>
  BY DEF Described, Honest, Profiles

\* The world of a profile and of other bids d.
LEMMA WorldOf ==
    ASSUME NEW m \in Mechs, Design[m].n > 0, NEW p \in Bids(m) \X Bids(m), NEW d \in Bids(m)
    PROVE  \E w \in Worlds(m) : /\ w.bid = p[1] /\ w.val = p[2] /\ w.mirror[1] = d[1]
                                /\ Design[m].n > 1 => w.mirror[2] = d[2]
<1> DEFINE mirror == [k \in 1..2 |-> IF k = 1 THEN d[1]
                                     ELSE IF Design[m].n > 1 THEN d[2] ELSE d[1]]
           w == [bid |-> p[1], val |-> p[2], mirror |-> mirror]
<1>1. Design[m].n \in Nat
  BY DesignType
<1>2. d[1] \in Amounts /\ (Design[m].n > 1 => d[2] \in Amounts)
  BY <1>1 DEF Bids
<1>3. mirror \in [1..2 -> Amounts]
  BY <1>2
<1>4. mirror[1] = d[1] /\ (Design[m].n > 1 => mirror[2] = d[2])
  OBVIOUS
<1> HIDE DEF mirror
<1>5. w \in Worlds(m)
  BY <1>3 DEF Worlds
<1> QED
  BY <1>4, <1>5

LEMMA QueryMeaning ==
    ASSUME NEW m, NEW w
    PROVE  /\ Holds("gain1", m, w) <=>
                  Single(m, Mirrored(w, 1), w.val) > Single(m, w.bid, w.val)
           /\ Holds("gain2", m, w) <=>
                  Group(m, Mirrored(w, 2), w.val) > Group(m, w.bid, w.val)
           /\ Holds("not top valuation", m, w) <=>
                  Ranked(w.val, Design[m].n).top # Winner(m, w.bid)
           /\ Holds("not top price", m, w) <=>
                  Ranked(w.bid, Design[m].n).topBid # Price(m, w.bid)
<1>1. Holds("gain1", m, w) <=> Single(m, Mirrored(w, 1), w.val) > Single(m, w.bid, w.val)
  BY DEF Holds
<1>2. Holds("gain2", m, w) <=> Group(m, Mirrored(w, 2), w.val) > Group(m, w.bid, w.val)
  BY DEF Holds
<1>3. Holds("not top valuation", m, w) <=>
          Ranked(w.val, Design[m].n).top # Winner(m, w.bid)
  BY DEF Holds
<1>4. Holds("not top price", m, w) <=>
          Ranked(w.bid, Design[m].n).topBid # Price(m, w.bid)
  BY DEF Holds
<1> QED
  BY <1>1, <1>2, <1>3, <1>4

LEMMA SameBids ==
    ASSUME NEW m, NEW f \in Bids(m), NEW g \in Bids(m),
           \A k \in 1..Design[m].n : f[k] = g[k]
    PROVE  f = g
<1> DEFINE D == 1..Design[m].n
<1>1. f \in [D -> Amounts] /\ g \in [D -> Amounts]
  BY DEF Bids
<1>2. \A k \in D : f[k] = g[k]
  OBVIOUS
<1> HIDE DEF D
<1> QED
  BY <1>1, <1>2

LEMMA MirrorOne ==
    ASSUME NEW m \in Mechs, Design[m].n > 0, NEW w \in Worlds(m)
    PROVE  /\ Mirrored(w, 1) \in Alone(m, w.bid)
           /\ Mirrored(w, 1)[1] = w.mirror[1]
           /\ \A d \in Alone(m, w.bid) : d[1] = w.mirror[1] => d = Mirrored(w, 1)
<1> DEFINE n == Design[m].n
           x == Mirrored(w, 1)
<1>1. n \in Nat /\ 1 \in 1..n /\ w.bid \in [1..n -> Amounts] /\ w.mirror \in [1..2 -> Amounts]
  BY DesignType DEF Worlds, Bids
<1>2. \A k \in 1..n : k <= 1 <=> k = 1
  OBVIOUS
<1>3. x = [k \in 1..n |-> IF k <= 1 THEN w.mirror[k] ELSE w.bid[k]]
  BY <1>1 DEF Mirrored
<1> HIDE DEF x, n
<1>4. x = [k \in 1..n |-> IF k = 1 THEN w.mirror[1] ELSE w.bid[k]]
  BY <1>2, <1>3
<1>5. w.mirror[1] \in Amounts
  BY <1>1
<1>6. x \in [1..n -> Amounts] /\ x[1] = w.mirror[1] /\ \A k \in 1..n \ {1} : x[k] = w.bid[k]
  BY <1>1, <1>4, <1>5
<1>7. \A d : d \in Alone(m, w.bid) <=>
          d \in [1..n -> Amounts] /\ \A k \in 1..n \ {1} : d[k] = w.bid[k]
  BY <1>1 DEF Alone, Bids, n
<1>8. ASSUME NEW d \in [1..n -> Amounts], \A k \in 1..n \ {1} : d[k] = w.bid[k],
             d[1] = w.mirror[1]
      PROVE  d = x
  <2>1. \A k \in 1..n : d[k] = x[k]
    BY <1>6, <1>8
  <2>2. d \in Bids(m) /\ x \in Bids(m)
    BY <1>6, <1>8 DEF Bids, n
  <2> QED
    BY <2>1, <2>2, SameBids DEF n
<1> QED
  BY <1>6, <1>7, <1>8 DEF x

LEMMA TruthfulnessQuery ==
    ASSUME NEW m \in Mechs, NEW b \in BOOLEAN, Design[m].n > 0, Len(Design[m].util) > 0
    PROVE  Refuting(m, b, Query("property", 0)) = {}
               <=> BestAlone(m, Described(m, b), LAMBDA x : Alone(m, x))
<1> DEFINE q == {"bid=val", "mirror", "gain1"}
           n == Design[m].n
<1>1. Query("property", 0) = q
  BY DEF Query
<1>2. n \in Nat /\ 1 \in 1..n
  BY DesignType
<1>3. \A x, v \in Bids(m) : Single(m, x, v) \in Int
  <2>1. 1 \in 1..Len(Design[m].util)
    BY DesignType
  <2> QED
    BY <2>1, DesignType DEF Single
<1>4. ASSUME NEW w \in Refuting(m, b, q)
      PROVE  \E p \in Honest(Described(m, b)) : \E d \in Alone(m, p[1]) :
                 d # p[1] /\ ~(Single(m, d, p[2]) <= Single(m, p[1], p[2]))
  <2>1. /\ w \in Worlds(m) /\ <<w.bid, w.val>> \in Described(m, b)
        /\ w.bid = w.val /\ w.mirror[1] # w.val[1]
        /\ Single(m, Mirrored(w, 1), w.val) > Single(m, w.bid, w.val)
    <3>1. "bid=val" \in q /\ "mirror" \in q /\ "gain1" \in q
      OBVIOUS
    <3> HIDE DEF q
    <3>2. /\ w \in Worlds(m) /\ <<w.bid, w.val>> \in Described(m, b)
          /\ \A a \in q : Holds(a, m, w)
      BY RefutingIs
    <3>3. w.bid = w.val /\ w.mirror[1] # w.val[1]
      BY <3>1, <3>2, Meaning
    <3>4. Single(m, Mirrored(w, 1), w.val) > Single(m, w.bid, w.val)
      BY <3>1, <3>2, QueryMeaning
    <3> QED
      BY <3>2, <3>3, <3>4
  <2> DEFINE p == <<w.bid, w.val>>
             d == Mirrored(w, 1)
  <2>2. p \in Honest(Described(m, b))
    BY <2>1 DEF Honest
  <2>3. d \in Alone(m, w.bid) /\ d[1] = w.mirror[1]
    BY <2>1, MirrorOne
  <2>4. d # w.bid
    BY <2>1, <2>3
  <2>5. d \in Bids(m) /\ w.bid \in Bids(m) /\ w.val \in Bids(m)
    BY <2>1, <2>3 DEF Alone, Worlds
  <2>6. ~(Single(m, d, w.val) <= Single(m, w.bid, w.val))
    BY <1>3, <2>1, <2>5
  <2> QED
    BY <2>2, <2>3, <2>4, <2>6
<1>5. ASSUME NEW p \in Honest(Described(m, b)), NEW d \in Alone(m, p[1]),
             d # p[1], ~(Single(m, d, p[2]) <= Single(m, p[1], p[2]))
      PROVE  \E w : w \in Refuting(m, b, q)
  <2>1. /\ p \in Described(m, b) /\ p[1] = p[2] /\ d \in Bids(m)
        /\ p[1] \in Bids(m) /\ p[2] \in Bids(m) /\ p = <<p[1], p[2]>>
    BY <1>5, DescribedType DEF Honest, Alone
  <2>2. PICK w \in Worlds(m) : w.bid = p[1] /\ w.val = p[2] /\ w.mirror[1] = d[1]
    BY <2>1, WorldOf
  <2>3. d = Mirrored(w, 1)
    BY <2>2, MirrorOne
  <2>4. w.mirror[1] # w.val[1]
    <3>1. SUFFICES ASSUME d[1] = p[1][1] PROVE d = p[1]
      BY <1>5, <2>1, <2>2
    <3>2. \A k \in 1..n : d[k] = p[1][k]
      BY <2>1, <3>1 DEF Alone, Bids
    <3> QED
      BY <2>1, <3>2, SameBids
  <2>5. Single(m, d, p[2]) > Single(m, p[1], p[2])
    BY <1>3, <1>5, <2>1
  <2>6. \A a \in q : Holds(a, m, w)
    BY <2>1, <2>2, <2>3, <2>4, <2>5, Meaning, QueryMeaning
  <2>7. <<w.bid, w.val>> \in Described(m, b)
    BY <2>1, <2>2
  <2> HIDE DEF q
  <2>8. w \in Refuting(m, b, q)
    BY <2>2, <2>6, <2>7, RefutingIs
  <2> QED
    BY <2>8
<1> HIDE DEF q
<1> QED
  BY <1>1, <1>4, <1>5 DEF BestAlone

LEMMA MirrorTwo ==
    ASSUME NEW m \in Mechs, Design[m].n > 1, NEW w \in Worlds(m)
    PROVE  /\ Mirrored(w, 2) \in Together(m, w.bid)
           /\ Mirrored(w, 2)[1] = w.mirror[1] /\ Mirrored(w, 2)[2] = w.mirror[2]
           /\ \A d \in Together(m, w.bid) :
                  d[1] = w.mirror[1] /\ d[2] = w.mirror[2] => d = Mirrored(w, 2)
<1> DEFINE n == Design[m].n
           x == Mirrored(w, 2)
<1>1. /\ n \in Nat /\ 1 \in 1..n /\ 2 \in 1..n
      /\ w.bid \in [1..n -> Amounts] /\ w.mirror \in [1..2 -> Amounts]
  BY DesignType DEF Worlds, Bids
<1>2. \A k \in 1..n : k <= 2 <=> k \in {1, 2}
  OBVIOUS
<1>3. x = [k \in 1..n |-> IF k <= 2 THEN w.mirror[k] ELSE w.bid[k]]
  BY <1>1 DEF Mirrored
<1>4. w.mirror[1] \in Amounts /\ w.mirror[2] \in Amounts
  BY <1>1
<1>5. \A k \in 1..n : w.bid[k] \in Amounts
  BY <1>1
<1> HIDE DEF x, n
<1>6. \A k \in 1..n : x[k] = IF k \in {1, 2} THEN w.mirror[k] ELSE w.bid[k]
  BY <1>2, <1>3
<1>7. x \in [1..n -> Amounts]
  BY <1>2, <1>3, <1>4, <1>5
<1>8. x[1] = w.mirror[1] /\ x[2] = w.mirror[2] /\ \A k \in 1..n \ {1, 2} : x[k] = w.bid[k]
  BY <1>1, <1>6
<1>9. \A d : d \in Together(m, w.bid) <=>
          d \in [1..n -> Amounts] /\ \A k \in 1..n \ {1, 2} : d[k] = w.bid[k]
  BY <1>1 DEF Together, Bids, n
<1>10. ASSUME NEW d \in [1..n -> Amounts], \A k \in 1..n \ {1, 2} : d[k] = w.bid[k],
              d[1] = w.mirror[1], d[2] = w.mirror[2]
       PROVE  d = x
  <2>1. \A k \in 1..n : d[k] = x[k]
    BY <1>8, <1>10
  <2>2. d \in Bids(m) /\ x \in Bids(m)
    BY <1>7, <1>10 DEF Bids, n
  <2> QED
    BY <2>1, <2>2, SameBids DEF n
<1> QED
  BY <1>7, <1>8, <1>9, <1>10 DEF x

LEMMA CollusionQuery ==
    ASSUME NEW m \in Mechs, NEW b \in BOOLEAN, Design[m].n > 1, Len(Design[m].util) > 1
    PROVE  Refuting(m, b, Query("property", 1)) = {} <=> BestTogether(m, Described(m, b))
<1> DEFINE q == {"apart", "gain2"}
           Mir(p, d) == [bid |-> p[1], val |-> p[2], mirror |-> d]
<1>1. Query("property", 1) = q
  BY DEF Query
<1>2. Design[m].n \in Nat
  BY DesignType
<1>3. \A x, v \in Bids(m) : Group(m, x, v) \in Int
  <2>1. 1 \in 1..Len(Design[m].util) /\ 2 \in 1..Len(Design[m].util)
    BY DesignType
  <2> QED
    BY <2>1, DesignType DEF Group
<1>4. ASSUME NEW w \in Refuting(m, b, q)
      PROVE  \E p \in Described(m, b) : \E d \in Together(m, p[1]) :
                 Apart(Mir(p, d)) /\ ~(Group(m, d, p[2]) <= Group(m, p[1], p[2]))
  <2>1. /\ w \in Worlds(m) /\ <<w.bid, w.val>> \in Described(m, b)
        /\ Apart(w)
        /\ Group(m, Mirrored(w, 2), w.val) > Group(m, w.bid, w.val)
    <3>1. "apart" \in q /\ "gain2" \in q
      OBVIOUS
    <3> HIDE DEF q
    <3>2. /\ w \in Worlds(m) /\ <<w.bid, w.val>> \in Described(m, b)
          /\ \A a \in q : Holds(a, m, w)
      BY RefutingIs
    <3>3. Apart(w)
      BY <3>1, <3>2, Meaning
    <3>4. Group(m, Mirrored(w, 2), w.val) > Group(m, w.bid, w.val)
      BY <3>1, <3>2, QueryMeaning
    <3> QED
      BY <3>2, <3>3, <3>4
  <2> DEFINE p == <<w.bid, w.val>>
             d == Mirrored(w, 2)
  <2>2. d \in Together(m, w.bid) /\ d[1] = w.mirror[1] /\ d[2] = w.mirror[2]
    BY <2>1, MirrorTwo
  <2>3. Apart(Mir(p, d))
    BY <2>1, <2>2 DEF Apart
  <2>4. d \in Bids(m) /\ w.bid \in Bids(m) /\ w.val \in Bids(m)
    BY <2>1, <2>2 DEF Together, Worlds
  <2>5. ~(Group(m, d, w.val) <= Group(m, w.bid, w.val))
    BY <1>3, <2>1, <2>4
  <2> QED
    BY <2>1, <2>2, <2>3, <2>5
<1>5. ASSUME NEW p \in Described(m, b), NEW d \in Together(m, p[1]),
             Apart(Mir(p, d)), ~(Group(m, d, p[2]) <= Group(m, p[1], p[2]))
      PROVE  \E w : w \in Refuting(m, b, q)
  <2>1. /\ d \in Bids(m) /\ p[1] \in Bids(m) /\ p[2] \in Bids(m) /\ p = <<p[1], p[2]>>
    BY DescribedType DEF Together
  <2>2. PICK w \in Worlds(m) : /\ w.bid = p[1] /\ w.val = p[2]
                               /\ w.mirror[1] = d[1] /\ w.mirror[2] = d[2]
    BY <1>2, <2>1, WorldOf
  <2>3. d = Mirrored(w, 2)
    BY <2>2, MirrorTwo
  <2>4. Apart(w)
    BY <1>5, <2>2 DEF Apart
  <2>5. Group(m, d, p[2]) > Group(m, p[1], p[2])
    BY <1>3, <1>5, <2>1
  <2>6. \A a \in q : Holds(a, m, w)
    BY <2>2, <2>3, <2>4, <2>5, Meaning, QueryMeaning
  <2>7. <<w.bid, w.val>> \in Described(m, b)
    BY <2>1, <2>2
  <2> HIDE DEF q
  <2>8. w \in Refuting(m, b, q)
    BY <2>2, <2>6, <2>7, RefutingIs
  <2> QED
    BY <2>8
<1> HIDE DEF q
<1> QED
  BY <1>1, <1>4, <1>5 DEF BestTogether

\* The top checks do not look at the mirror: a refuting world is a profile.
LEMMA TopQuery ==
    ASSUME NEW m \in Mechs, NEW b \in BOOLEAN, Design[m].n > 0, NEW a, NEW Good,
           \A w \in Worlds(m) : Holds(a, m, w) <=> <<w.bid, w.val>> \notin Good
    PROVE  Refuting(m, b, {a}) = {} <=> \A p \in Described(m, b) : p \in Good
<1>1. ASSUME NEW w \in Refuting(m, b, {a})
      PROVE  \E p \in Described(m, b) : p \notin Good
  <2>1. /\ w \in Worlds(m) /\ <<w.bid, w.val>> \in Described(m, b)
        /\ Holds(a, m, w)
    BY RefutingIs
  <2> QED
    BY <2>1
<1>2. ASSUME NEW p \in Described(m, b), p \notin Good
      PROVE  \E w : w \in Refuting(m, b, {a})
  <2>1. p[1] \in Bids(m) /\ p[2] \in Bids(m) /\ p = <<p[1], p[2]>>
    BY DescribedType
  <2>2. PICK w \in Worlds(m) : w.bid = p[1] /\ w.val = p[2]
    BY <2>1, WorldOf
  <2>3. <<w.bid, w.val>> = p
    BY <2>1, <2>2
  <2>4. Holds(a, m, w)
    BY <1>2, <2>3
  <2>5. \A x \in {a} : Holds(x, m, w)
    BY <2>4
  <2>6. w \in Refuting(m, b, {a})
    BY <2>3, <2>5, RefutingIs
  <2> QED
    BY <2>6
<1> QED
  BY <1>1, <1>2

LEMMA EfficiencyQuery ==
    ASSUME NEW m \in Mechs, NEW b \in BOOLEAN, Design[m].n > 0
    PROVE  Refuting(m, b, Query("property", 2)) = {} <=> HighestWins(m, Described(m, b))
<1> DEFINE Good == {p \in Bids(m) \X Bids(m) : /\ Winner(m, p[1]) \in DOMAIN p[2]
                                               /\ IsTop(Winner(m, p[1]), p[2])}
           n == Design[m].n
<1>1. Query("property", 2) = {"not top valuation"}
  BY DEF Query
<1>2. n \in Nat /\ \A v \in Bids(m) : v \in [1..n -> Int] /\ DOMAIN v = 1..n
  <2>1. Amounts \subseteq Int /\ n \in Nat
    BY DesignType
  <2> QED
    BY <2>1 DEF Bids
<1>3. ASSUME NEW x \in Bids(m), NEW v \in Bids(m)
      PROVE  <<x, v>> \in Good <=> Ranked(v, n).top = Winner(m, x)
  <2>1. <<x, v>> \in Good <=> Winner(m, x) \in 1..n /\ IsTop(Winner(m, x), v)
    BY <1>2
  <2>2. Ranked(v, n).top \in 1..n /\ IsTop(Ranked(v, n).top, v)
    BY <1>2, RankedTop
  <2> HIDE DEF Good
  <2>3. ASSUME Winner(m, x) \in 1..n, IsTop(Winner(m, x), v)
        PROVE  Ranked(v, n).top = Winner(m, x)
    BY <1>2, <2>2, <2>3, TopUnique
  <2> HIDE DEF n
  <2> QED
    BY <2>1, <2>2, <2>3
<1>4. ASSUME NEW w \in Worlds(m)
      PROVE  Holds("not top valuation", m, w) <=> <<w.bid, w.val>> \notin Good
  <2>1. w.bid \in Bids(m) /\ w.val \in Bids(m)
    BY DEF Worlds
  <2>2. Holds("not top valuation", m, w) <=> Ranked(w.val, n).top # Winner(m, w.bid)
    BY QueryMeaning
  <2> HIDE DEF Good, n
  <2> QED
    BY <1>3, <2>1, <2>2
<1>5. (\A p \in Described(m, b) : p \in Good) <=> HighestWins(m, Described(m, b))
  BY DescribedType DEF HighestWins
<1> HIDE DEF Good
<1>6. Refuting(m, b, {"not top valuation"}) = {} <=> \A p \in Described(m, b) : p \in Good
  BY <1>4, TopQuery
<1> QED
  BY <1>1, <1>5, <1>6

LEMMA PriceQuery ==
    ASSUME NEW m \in Mechs, NEW b \in BOOLEAN, Design[m].n > 0
    PROVE  Refuting(m, b, Query("property", 3)) = {} <=> HighestPays(m, Described(m, b))
<1> DEFINE Good == {p \in Bids(m) \X Bids(m) :
                        \E k \in DOMAIN p[1] : IsTop(k, p[1]) /\ p[1][k] = Price(m, p[1])}
           n == Design[m].n
<1>1. Query("property", 3) = {"not top price"}
  BY DEF Query
<1>2. n \in Nat /\ \A v \in Bids(m) : v \in [1..n -> Int] /\ DOMAIN v = 1..n
  <2>1. Amounts \subseteq Int /\ n \in Nat
    BY DesignType
  <2> QED
    BY <2>1 DEF Bids
<1>3. ASSUME NEW x \in Bids(m), NEW v \in Bids(m)
      PROVE  <<x, v>> \in Good <=> Ranked(x, n).topBid = Price(m, x)
  <2> DEFINE top == Ranked(x, n).top
  <2>1. <<x, v>> \in Good <=> \E k \in 1..n : IsTop(k, x) /\ x[k] = Price(m, x)
    BY <1>2
  <2>2. top \in 1..n /\ IsTop(top, x) /\ Ranked(x, n).topBid = x[top]
    BY <1>2, RankedTop
  <2> HIDE DEF Good, top
  <2>3. \A k \in 1..n : IsTop(k, x) => k = top
    BY <1>2, <2>2, TopUnique
  <2> QED
    BY <2>1, <2>2, <2>3
<1>4. ASSUME NEW w \in Worlds(m)
      PROVE  Holds("not top price", m, w) <=> <<w.bid, w.val>> \notin Good
  <2>1. w.bid \in Bids(m) /\ w.val \in Bids(m)
    BY DEF Worlds
  <2>2. Holds("not top price", m, w) <=> Ranked(w.bid, n).topBid # Price(m, w.bid)
    BY QueryMeaning
  <2> HIDE DEF Good, n
  <2> QED
    BY <1>3, <2>1, <2>2
<1>5. (\A p \in Described(m, b) : p \in Good) <=> HighestPays(m, Described(m, b))
  BY DescribedType DEF HighestPays
<1> HIDE DEF Good
<1>6. Refuting(m, b, {"not top price"}) = {} <=> \A p \in Described(m, b) : p \in Good
  BY <1>4, TopQuery
<1> QED
  BY <1>1, <1>5, <1>6

LEMMA AnswerIs ==
    ASSUME NEW m \in Mechs, NEW h \in BOOLEAN
    PROVE  /\ Answer[m][0][h] = BestAlone(m, Described(m, h), LAMBDA b : Alone(m, b))
           /\ Answer[m][1][h] =
                  (Len(Design[m].util) > 1 => BestTogether(m, Described(m, h)))
           /\ Answer[m][2][h] = HighestWins(m, Described(m, h))
           /\ Answer[m][3][h] = HighestPays(m, Described(m, h))
<1>1. \A k \in 0..3 : Answer[m][k][h] = Fair(m, k, Described(m, h))
  BY DEF Answer, Described
<1>2. 0 \in 0..3 /\ 1 \in 0..3 /\ 2 \in 0..3 /\ 3 \in 0..3
  OBVIOUS
<1>3. Fair(m, 0, Described(m, h)) = BestAlone(m, Described(m, h), LAMBDA b : Alone(m, b))
  BY DEF Fair
<1>4. Fair(m, 1, Described(m, h)) =
          (Len(Design[m].util) > 1 => BestTogether(m, Described(m, h)))
  BY DEF Fair
<1>5. Fair(m, 2, Described(m, h)) = HighestWins(m, Described(m, h))
  BY DEF Fair
<1>6. Fair(m, 3, Described(m, h)) = HighestPays(m, Described(m, h))
  BY DEF Fair
<1> QED
  BY <1>1, <1>2, <1>3, <1>4, <1>5, <1>6

\* The verdict that a query without a model stands for.
LEMMA QueryAnswers ==
    ASSUME NEW m \in Mechs, NEW b \in BOOLEAN, NEW k \in 0..3, Design[m].n > 0,
           k = 0 => Len(Design[m].util) > 0,
           k = 1 => Len(Design[m].util) > 1 /\ Design[m].n > 1
    PROVE  Answer[m][k][b] = (Refuting(m, b, Query("property", k)) = {})
<1>1. CASE k = 0
  BY <1>1, AnswerIs, TruthfulnessQuery DEF BestAlone
<1>2. CASE k = 1
  BY <1>2, AnswerIs, CollusionQuery DEF BestTogether
<1>3. CASE k = 2
  BY <1>3, AnswerIs, EfficiencyQuery DEF HighestWins
<1>4. CASE k = 3
  BY <1>4, AnswerIs, PriceQuery DEF HighestPays
<1> QED
  BY <1>1, <1>2, <1>3, <1>4

\* Before a query of check_property: the base and the scope of the check.
LEMMA QueryModels ==
    ASSUME NEW s \in Seq(SUBSET Labels), Len(s) = 2, NEW b \in BOOLEAN,
           s[1] = Base(b), s[2] = {"asked"}, NEW q \in SUBSET Labels
    PROVE  Models(AddTop(s, q)) = Refuting(mech, b, q)
<1> DEFINE t == AddTop(s, q)
           top == s[2] \cup q
           S == SUBSET Labels
<1>1. t = [s EXCEPT ![2] = top]
  BY DEF AddTop
<1>2. top \in S /\ s \in Seq(S)
  BY DEF Labels
<1> HIDE DEF t, top, S
<1>3. t \in Seq(S) /\ Len(t) = 2 /\ t[1] = s[1] /\ t[2] = top
  BY <1>1, <1>2
<1>4. Asserted(t) = Base(b) \cup ({"asked"} \cup q)
  BY <1>3, TwoScopes DEF S, top
<1>5. Asserted(t) = Base(b) \cup {"asked"} \cup q
  BY <1>4
<1> QED
  BY <1>5 DEF Models, Refuting, t

LEMMA KnownBefore ==
    ASSUME report \in Seq(Verdict), NEW v \in Verdict, report' = Append(report, v),
           NEW l, l = Len(report)
    PROVE  /\ \A e \in 1..l : Known(e)' = Known(e)
           /\ Known(l + 1)' = KnownNow
           /\ DOMAIN report = 1..l
           /\ DOMAIN report' = 1..l \cup {l + 1}
           /\ \A e \in 1..l : report'[e] = report[e]
           /\ report'[l + 1] = v
<1>1. /\ l \in Nat /\ DOMAIN report = 1..l /\ DOMAIN report' = 1..(l + 1)
      /\ \A e \in 1..l : report'[e] = report[e]
      /\ report'[l + 1] = v
  OBVIOUS
<1>2. 1..(l + 1) = 1..l \cup {l + 1}
  BY <1>1
<1>3. \A e \in 1..(l + 1) : \A d \in 1..(e - 1) : d \in 1..l
  BY <1>1
<1>4. \A e \in 1..(l + 1) : Known(e)' = Known(e)
  BY <1>1, <1>3 DEF Known
<1>5. KnownNow = Known(l + 1)
  BY DEF KnownNow
<1> QED
  BY <1>1, <1>2, <1>4, <1>5

LEMMA VerdictsKept ==
    ASSUME VerdictsRight, report' = report, mech' = mech
    PROVE  VerdictsRight'
  BY DEF VerdictsRight, Known

LEMMA VerdictStep ==
    ASSUME ~GivesUp, RInv, VerdictsRight, Refute, ~Missing
    PROVE  VerdictsRight'
<1>1. /\ ControlOK /\ FixedOK /\ stage \in {"property", "invariant"}
      /\ phase = "refute" /\ ~crashed
  BY DEF RInv, IInv, Refute, Running, ControlOK
<1>2. /\ kind \in 0..3 /\ i \in Nat /\ report \in Seq(Verdict) /\ truthful \in BOOLEAN
      /\ mech \in Mechs /\ mech' = mech
  BY <1>1 DEF ControlOK, FixedOK, Refute
<1>3. PICK answer \in Answers(scopes') :
         report' = Append(report, [stage |-> stage, i |-> i,
                                   kind |-> kind, verdict |-> answer # "sat"])
  BY DEF Refute
<1> DEFINE v == [stage |-> stage, i |-> i, kind |-> kind, verdict |-> answer # "sat"]
<1>4. PICK l : l = Len(report)
  OBVIOUS
<1>5. /\ v \in Verdict /\ report' = Append(report, v)
      /\ v.stage = stage /\ v.kind = kind /\ v.verdict = (answer # "sat")
  BY <1>1, <1>2, <1>3 DEF Verdict
<1> HIDE DEF v
<1>6. /\ \A e \in 1..l : Known(e)' = Known(e)
      /\ Known(l + 1)' = KnownNow
      /\ DOMAIN report = 1..l
      /\ DOMAIN report' = 1..l \cup {l + 1}
      /\ \A e \in 1..l : report'[e] = report[e]
      /\ report'[l + 1] = v
  BY <1>2, <1>5, <1>4, KnownBefore
<1>7. ASSUME stage = "property", kind = 1 => ~KnownNow
      PROVE  v.verdict = Answer[mech][kind][KnownNow]
  <2>1. Solver /\ RoundOK
    BY <1>1, <1>7 DEF RInv, IInv, InProperty
  <2>2. /\ scopes \in Seq(SUBSET Labels) /\ Len(scopes) = 2
        /\ scopes[2] = {"asked"} /\ Design[mech].n > 0
    BY <1>1, <2>1 DEF Solver, ScopesOK, DepthOK, RoundOK
  <2>3. scopes' = AddTop(scopes, Query("property", kind))
    BY <1>7 DEF Refute
  <2>4. KnownNow \in BOOLEAN
    BY DEF KnownNow, Known
  <2>5. scopes[1] = Base(KnownNow)
    <3>1. CASE kind \in {0, 1}
      <4>1. PICK b \in BOOLEAN : scopes[1] = Base(b) /\ KnownNow = (b \/ truthful)
        BY <1>1, <2>1, <3>1 DEF Solver, BaseOK, BeforeLeak
      <4>2. kind = 0 => ~truthful
        BY <1>1, <2>1 DEF Solver, FlagFresh
      <4>3. ~truthful \/ ~KnownNow
        BY <1>7, <3>1, <4>2
      <4> HIDE DEF KnownNow
      <4>4. b = KnownNow
        BY <1>2, <2>4, <4>1, <4>3
      <4> QED
        BY <4>1, <4>4
    <3>2. CASE kind \notin {0, 1}
      BY <1>1, <2>1, <3>2 DEF Solver, BaseOK, BeforeLeak
    <3> QED
      BY <3>1, <3>2
  <2> HIDE DEF KnownNow
  <2>6. Models(scopes') = Refuting(mech, KnownNow, Query("property", kind))
    BY <1>2, <2>2, <2>3, <2>4, <2>5, QueryLabels, QueryModels
  <2>7. answer = IF Models(scopes') = {} THEN "unsat" ELSE "sat"
    BY Decides
  <2>8. (answer # "sat") = (Models(scopes') = {})
    BY <2>7
  <2>9. /\ kind = 0 => Len(Design[mech].util) > 0
        /\ kind = 1 => Len(Design[mech].util) > 1 /\ Design[mech].n > 1
    BY <1>2, <1>7, DesignType DEF Missing
  <2>10. Answer[mech][kind][KnownNow] =
             (Refuting(mech, KnownNow, Query("property", kind)) = {})
    <3> DEFINE b == KnownNow
    <3>1. mech \in Mechs /\ kind \in 0..3 /\ b \in BOOLEAN /\ Design[mech].n > 0
      BY <1>2, <2>2, <2>4
    <3> HIDE DEF b
    <3>2. Answer[mech][kind][b] = (Refuting(mech, b, Query("property", kind)) = {})
      BY <2>9, <3>1, QueryAnswers
    <3> QED
      BY <3>2 DEF b
  <2> QED
    BY <1>5, <2>6, <2>8, <2>10
<1>8. ASSUME NEW e \in DOMAIN report', report'[e].stage = "property",
             report'[e].kind = 1 => ~Known(e)'
      PROVE  report'[e].verdict = Answer[mech'][report'[e].kind][Known(e)']
  <2>1. CASE e \in 1..l
    BY <1>2, <1>6, <1>8, <2>1 DEF VerdictsRight
  <2>2. CASE e = l + 1
    BY <1>2, <1>5, <1>6, <1>7, <1>8, <2>2
  <2> QED
    BY <1>6, <2>1, <2>2
<1> QED
  BY <1>8 DEF VerdictsRight

(* When Z3 decides every query, a printed verdict is the fairness property *)
(* of the mechanism: truthfulness, collusion-freeness, efficiency or the   *)
(* price of the highest bid, for every declared profile or, once           *)
(* truthfulness is known, for every truthful one; for any number of        *)
(* bidders, any amounts and any rules of allocation and payment.           *)
THEOREM VerdictsAreAnswers == ~GivesUp => (Spec => []VerdictsRight)
<1> SUFFICES ASSUME ~GivesUp PROVE Spec => []VerdictsRight
  OBVIOUS
<1>1. Init => RInv /\ VerdictsRight
  BY RInit DEF Init, VerdictsRight
<1>2. RInv /\ VerdictsRight /\ [Next]_vars => (RInv /\ VerdictsRight)'
  <2> SUFFICES ASSUME RInv, VerdictsRight, [Next]_vars PROVE RInv' /\ VerdictsRight'
    OBVIOUS
  <2>1. mech' = mech
    BY FixedStep
  <2>2. report' = report \/ (Refute /\ ~Missing)
    BY DEF Next, vars, Setup, NextType, EndTypes, Push, Probe, Refute, Pop, Leak, Crash, Done
  <2> QED
    BY <2>1, <2>2, RStep, VerdictsKept, VerdictStep
<1> QED
  BY <1>1, <1>2, PTL DEF Spec
=============================================================================
