----------------------------- MODULE Mechanism ------------------------------
(***************************************************************************)
(* Mechanism::check: the verdicts FairCon gives on the mechanism that the  *)
(* symbolic executor has extracted from a harness.                         *)
(*                                                                         *)
(* A Z3 solver is its stack of assertion scopes.  An assertion is a label, *)
(* its meaning a set of worlds: a world gives the bids and valuations of   *)
(* all bidders and the mirrored bids (the constants named "...#2").  The   *)
(* mechanism's expressions are functions of bids and valuations, and       *)
(* substitute(bid, mirror) evaluates them at other bids.                   *)
(***************************************************************************)
EXTENDS TopBids, Sequences, FiniteSets

CONSTANTS
    Mechs,      \* names of mechanisms
    Design,     \* name -> what synthesis leaves in g_mechanism
    Amounts,    \* values of bids, valuations and mirrored bids
    Requests,   \* what a harness may ask: [checks, invariants]
    GivesUp     \* Z3 may answer "unknown"

(* type: model_type, -1 when the harness declares none; n: bidders; pre:   *)
(* the bids some path covers; assume: the profiles of declare_assumption;  *)
(* util: one u(bid, val) per declare_utility, for the bidder `who'.        *)
ASSUME DesignAssumption ==
    /\ Amounts \subseteq Int
    /\ \A m \in Mechs : LET d == Design[m] IN
           /\ d.type \in Int /\ d.n \in Nat
           /\ d.alloc \in [[1..d.n -> Amounts] -> Int]
           /\ d.price \in [[1..d.n -> Amounts] -> Int]
           /\ d.util \in Seq([who : Int,
                              u : [[1..d.n -> Amounts] \X [1..d.n -> Amounts] -> Int]])

ASSUME RequestsAssumption ==
    /\ Requests \subseteq [checks : Seq(Int), invariants : Seq(Int)]
    /\ GivesUp \in BOOLEAN

VARIABLES
    mech,       \* the mechanism
    asked,      \* check_types and invariant_types
    stage,      \* "property", "invariant" or "done"
    i,          \* the type under examination
    kind,       \* the check of the loop body
    phase,      \* where in that check
    scopes,     \* the solver
    truthful,   \* truthful_flag
    report,     \* the verdicts printed so far
    crashed     \* an exception has left check()

vars == <<mech, asked, stage, i, kind, phase, scopes, truthful, report, crashed>>

(***************************************************************************)
(* Worlds                                                                  *)
(***************************************************************************)
Bids(m)   == [1..Design[m].n -> Amounts]
Worlds(m) == [bid : Bids(m), val : Bids(m), mirror : [1..2 -> Amounts]]

Winner(m, b) == Design[m].alloc[b]
Price(m, b)  == Design[m].price[b]

\* check_property overwrites utilities with an ite on the allocation.
Utility(m, k, b, v) == LET d == Design[m].util[k]
                       IN  IF Winner(m, b) = d.who THEN d.u[<<b, v>>] ELSE 0

\* The first bidder's utility, and that of the first two.
Single(m, b, v) == Utility(m, 1, b, v)
Group(m, b, v)  == Utility(m, 1, b, v) + Utility(m, 2, b, v)

Mirrored(w, c) == [k \in DOMAIN w.bid |-> IF k <= c THEN w.mirror[k] ELSE w.bid[k]]

(***************************************************************************)
(* Assertions                                                              *)
(***************************************************************************)
Declared(m, b, v) ==
    /\ Price(m, b) > 0
    /\ <<b, v>> \in Design[m].assume
    /\ \A k \in DOMAIN b : b[k] > 0 /\ v[k] > 0
    /\ Winner(m, b) \in DOMAIN b
    /\ \A k \in DOMAIN Design[m].util : Utility(m, k, b, v) >= 0

\* Exactly one of the two mirrored bids is the bidder's valuation.
Apart(w) == /\ w.bid[1] # w.val[1] /\ w.bid[2] # w.val[2]
            /\ (w.mirror[1] = w.val[1]) # (w.mirror[2] = w.val[2])

Holds(a, m, w) ==
    CASE a = "preCond"   -> w.bid \in Design[m].pre
      [] a = "declared"  -> Declared(m, w.bid, w.val)
      [] a = "asked"     -> TRUE
      [] a = "not asked" -> FALSE
      [] a = "bid=val"   -> w.bid = w.val
      [] a = "mirror"    -> w.mirror[1] # w.val[1]
      [] a = "apart"     -> Apart(w)
      [] a = "gain1"     -> Single(m, Mirrored(w, 1), w.val) > Single(m, w.bid, w.val)
      [] a = "gain2"     -> Group(m, Mirrored(w, 2), w.val) > Group(m, w.bid, w.val)
      [] a = "not top valuation" ->
             Ranked(w.val, Design[m].n).top # Winner(m, w.bid)
      [] a = "not top bidder" ->
             Ranked(w.bid, Design[m].n).top # Winner(m, w.bid)
      [] a = "not top price" ->
             Ranked(w.bid, Design[m].n).topBid # Price(m, w.bid)
      [] a = "not second price" ->
             LET sec == Ranked(w.bid, Design[m].n).secBid
             IN  sec = 0 \/ sec # Price(m, w.bid)

\* What the checks 0, 1, ... add before they ask for a counterexample.
Query(st, k) ==
    IF st = "property"
    THEN << {"bid=val", "mirror", "gain1"},
            {"apart", "gain2"},
            {"not top valuation"},
            {"not top price"} >>[k + 1]
    ELSE << {"not top bidder"},
            {"not top price"},
            {"not second price"} >>[k + 1]

Kinds(st) == IF st = "property" THEN 0..3 ELSE 0..2

Asserted(s) == UNION {s[k] : k \in DOMAIN s}
Models(s)   == {w \in Worlds(mech) : \A a \in Asserted(s) : Holds(a, mech, w)}

\* The answers of solver.check().
Answers(s) == {IF Models(s) = {} THEN "unsat" ELSE "sat"}
              \cup (IF GivesUp THEN {"unknown"} ELSE {})

AddTop(s, as) == [s EXCEPT ![Len(s)] = @ \cup as]

(***************************************************************************)
(* The steps                                                               *)
(***************************************************************************)
Init ==
    /\ mech \in Mechs
    /\ asked \in Requests
    /\ stage = "property" /\ phase = "setup"
    /\ i = 1 /\ kind = 0
    /\ scopes = <<{"preCond"}>>
    /\ truthful = FALSE
    /\ report = <<>>
    /\ crashed = FALSE

Running(p) == ~crashed /\ stage # "done" /\ phase = p
Types == IF stage = "property" THEN asked.checks ELSE asked.invariants

Crash == /\ crashed' = TRUE
         /\ UNCHANGED <<mech, asked, stage, i, kind, phase, scopes, truthful, report>>

\* check() ignores a mechanism without a type; bidders.at(0) needs a bidder.
Setup ==
    /\ Running("setup")
    /\ IF Design[mech].type = -1
       THEN /\ stage' = "done"
            /\ UNCHANGED <<mech, asked, i, kind, phase, scopes, truthful, report, crashed>>
       ELSE IF Design[mech].n = 0 THEN Crash
       ELSE /\ scopes' = AddTop(scopes, {"declared"})
            /\ phase' = "type"
            /\ UNCHANGED <<mech, asked, stage, i, kind, truthful, report, crashed>>

\* Head of the loop over the declared types.
NextType ==
    /\ Running("type")
    /\ i <= Len(Types)
    /\ kind' = 0 /\ phase' = "push" /\ truthful' = FALSE
    /\ UNCHANGED <<mech, asked, stage, i, scopes, report, crashed>>

\* check_invariant starts a solver of its own.
EndTypes ==
    /\ Running("type")
    /\ i > Len(Types)
    /\ IF stage = "property"
       THEN stage' = "invariant" /\ i' = 1 /\ scopes' = <<{"preCond"}>>
       ELSE stage' = "done" /\ UNCHANGED <<i, scopes>>
    /\ UNCHANGED <<mech, asked, kind, phase, truthful, report, crashed>>

\* Fault: check_property pushes once per type, as check_invariant does.
PushesOnce(st, k) == k = 0

\* solver.push(); solver.add(type == kind).  check_invariant pushes once per
\* type, before its first check.
Pushes(st, k) == st = "property" \/ k = 0

Push ==
    /\ Running("push")
    /\ LET a == {IF Types[i] = kind THEN "asked" ELSE "not asked"}
       IN  scopes' = IF Pushes(stage, kind) THEN Append(scopes, a) ELSE AddTop(scopes, a)
    /\ phase' = "probe"
    /\ UNCHANGED <<mech, asked, stage, i, kind, truthful, report, crashed>>

\* Every check gives up silently unless the solver answers sat.
Probe ==
    /\ Running("probe")
    /\ \E answer \in Answers(scopes) :
           phase' = IF answer = "sat" THEN "refute" ELSE "pop"
    /\ UNCHANGED <<mech, asked, stage, i, kind, scopes, truthful, report, crashed>>

\* bidders.at(1), utilities.at(0), utilities.at(1)
Missing ==
    stage = "property" /\ \/ kind = 0 /\ Len(Design[mech].util) < 1
                          \/ kind = 1 /\ Len(Design[mech].util) < 2
                          \/ kind = 1 /\ Design[mech].n < 2

\* Anything but sat is printed as "True"; the table of a counterexample has
\* the utility of every bidder.
Refute ==
    /\ Running("refute")
    /\ IF Missing THEN Crash
       ELSE /\ scopes' = AddTop(scopes, Query(stage, kind))
            /\ \E answer \in Answers(scopes') :
                  LET yes == answer # "sat"
                  IN  /\ report' = Append(report, [stage |-> stage, i |-> i,
                                                   kind |-> kind, verdict |-> yes])
                      /\ truthful' = IF stage = "property" /\ kind = 0
                                     THEN yes ELSE truthful
                      /\ crashed' = (~yes /\ Len(Design[mech].util) < Design[mech].n)
            /\ phase' = "pop"
            /\ UNCHANGED <<mech, asked, stage, i, kind>>

Advance ==
    IF kind + 1 \in Kinds(stage)
    THEN kind' = kind + 1 /\ phase' = "push" /\ UNCHANGED i
    ELSE kind' = 0 /\ phase' = "type" /\ i' = i + 1

\* solver.pop() of the only scope is an exception of the Z3 API.
Pop ==
    /\ Running("pop")
    /\ IF Len(scopes) = 1 THEN Crash
       ELSE /\ scopes' = SubSeq(scopes, 1, Len(scopes) - 1)
            /\ IF stage = "property" /\ kind = 1
               THEN phase' = "leak" /\ UNCHANGED <<i, kind>>
               ELSE Advance
            /\ UNCHANGED <<mech, asked, stage, truthful, report, crashed>>

\* Fault: the bids become valuations whatever the verdict was.
LeakAlways ==
    /\ Running("leak")
    /\ scopes' = AddTop(scopes, {"bid=val"})
    /\ Advance
    /\ UNCHANGED <<mech, asked, stage, truthful, report, crashed>>

\* After a positive truthfulness verdict, bids are valuations from here on.
Leak ==
    /\ Running("leak")
    /\ scopes' = IF truthful THEN AddTop(scopes, {"bid=val"}) ELSE scopes
    /\ Advance
    /\ UNCHANGED <<mech, asked, stage, truthful, report, crashed>>

Done == crashed \/ stage = "done"

Next == \/ Setup \/ NextType \/ EndTypes \/ Push \/ Probe \/ Refute \/ Pop \/ Leak
        \/ Done /\ UNCHANGED vars

Spec == Init /\ [][Next]_vars

-----------------------------------------------------------------------------
(* What the four properties and the invariants mean, without a solver.     *)

\* The declared profiles <<bids, valuations>>, and the truthful ones of them.
Profiles(m) == {p \in Bids(m) \X Bids(m) :
                   p[1] \in Design[m].pre /\ Declared(m, p[1], p[2])}
Honest(ps)  == {p \in ps : p[1] = p[2]}

\* Bids of the first bidder, or of the first two, that differ from p's.
Alone(m, b)    == {d \in Bids(m) : \A k \in DOMAIN b \ {1} : d[k] = b[k]}
Together(m, b) == {d \in Bids(m) : \A k \in DOMAIN b \ {1, 2} : d[k] = b[k]}

BestAlone(m, ps, ds(_)) ==
    \A p \in Honest(ps) : \A d \in ds(p[1]) :
        d # p[1] => Single(m, d, p[2]) <= Single(m, p[1], p[2])

BestTogether(m, ps) ==
    \A p \in ps : \A d \in Together(m, p[1]) :
        Apart([bid |-> p[1], val |-> p[2], mirror |-> d])
            => Group(m, d, p[2]) <= Group(m, p[1], p[2])

\* k is the first position of the highest amount.
IsTop(k, b) == /\ \A l \in DOMAIN b : b[l] <= b[k]
               /\ \A l \in 1..(k - 1) : b[l] < b[k]

HighestWins(m, ps) == \A p \in ps : /\ Winner(m, p[1]) \in DOMAIN p[2]
                                    /\ IsTop(Winner(m, p[1]), p[2])
HighestPays(m, ps) == \A p \in ps : \E k \in DOMAIN p[1] :
                          IsTop(k, p[1]) /\ p[1][k] = Price(m, p[1])

Fair(m, k, ps) == CASE k = 0 -> BestAlone(m, ps, LAMBDA b : Alone(m, b))
                    [] k = 1 -> Len(Design[m].util) > 1 => BestTogether(m, ps)
                    [] k = 2 -> HighestWins(m, ps)
                    [] k = 3 -> HighestPays(m, ps)

\* The answers for every mechanism: for all declared profiles, or truthful ones.
Answer == [m \in Mechs |-> [k \in 0..3 |-> [honest \in BOOLEAN |->
              Fair(m, k, IF honest THEN Honest(Profiles(m)) ELSE Profiles(m))]]]

\* A positive truthfulness verdict came before the e-th verdict.
Known(e) == \E d \in 1..(e - 1) : /\ report[d].stage = "property"
                                  /\ report[d].kind = 0 /\ report[d].verdict

-----------------------------------------------------------------------------
(* Each declared type is checked against what the harness declares, and    *)
(* nothing of an earlier check but a positive truthfulness verdict: at the *)
(* head of check_property's loop the solver holds the declarations alone.  *)
Balanced ==
    ~crashed /\ stage = "property" /\ phase = "type" =>
        scopes = <<{"preCond", "declared"} \cup
                   (IF Known(Len(report) + 1) THEN {"bid=val"} ELSE {})>>

(* A printed verdict is the answer of the fairness property for every      *)
(* declared profile (for every truthful one, once truthfulness is known);  *)
(* the collusion verdict only while truthfulness is not known.             *)
VerdictsRight ==
    \A e \in DOMAIN report :
        report[e].stage = "property" /\ (report[e].kind = 1 => ~Known(e)) =>
            report[e].verdict = Answer[mech][report[e].kind][Known(e)]

(* When truthful bidding is possible and there are two bidders or more,    *)
(* with a utility each, every declare_check in 0..3 gets its own verdict   *)
(* and no other.                                                           *)
Verdicts(st, n) == {e \in DOMAIN report : report[e].stage = st /\ report[e].i = n}
Checked         == stage # "property" \/ crashed
AnsweredTo(n)   == IF asked.checks[n] \in 0..3
                   THEN \E e \in DOMAIN report : /\ Verdicts("property", n) = {e}
                                                 /\ report[e].kind = asked.checks[n]
                   ELSE Verdicts("property", n) = {}
Answerable(m)   == /\ Design[m].type # -1
                   /\ Design[m].n > 1
                   /\ Len(Design[m].util) >= Design[m].n
                   /\ Honest(Profiles(m)) # {}
EachAnswered == Checked /\ Answerable(mech) =>
                    \A n \in DOMAIN asked.checks : AnsweredTo(n)

-----------------------------------------------------------------------------
(* What the documentation says and the code does not do.                   *)

(* README: a harness may declare the invariants 0, 1 and 2, and the        *)
(* program reports on each of them.                                        *)
InvariantsAnswered ==
    (stage = "done" \/ crashed) /\ Answerable(mech) =>
        \A n \in DOMAIN asked.invariants : Verdicts("invariant", n) # {}

(* README: declare_check(1) checks collusion-freeness; a positive verdict  *)
(* means that no declared profile has a pair of bidders who gain.          *)
CollusionFree ==
    \A e \in DOMAIN report :
        report[e].stage = "property" /\ report[e].kind = 1 /\ report[e].verdict =>
            Answer[mech][1][FALSE]

(* README: "Assumptions about bidders are specified using                  *)
(* declare_assumption": a mechanism is untruthful only if some bid that    *)
(* satisfies the assumptions is better than the valuation.                 *)
Allowed(m, b) == {d \in Alone(m, b) : \E v \in Bids(m) : <<d, v>> \in Design[m].assume}
DeviationsAllowed ==
    \A e \in DOMAIN report :
        report[e].stage = "property" /\ report[e].kind = 0 /\ ~report[e].verdict =>
            ~BestAlone(mech, Profiles(mech), LAMBDA b : Allowed(mech, b))

(* mechanism.cpp prints the profile it starts from as "truthful" and the   *)
(* mirrored one as "collusion": a negative verdict is about two bidders    *)
(* who gain by leaving truthful bids.                                      *)
CollusionFromTruth ==
    Answerable(mech) => \A e \in DOMAIN report :
        report[e].stage = "property" /\ report[e].kind = 1 /\ ~report[e].verdict =>
            \E p \in Honest(Profiles(mech)) : \E d \in Together(mech, p[1]) :
                Group(mech, d, p[2]) > Group(mech, p[1], p[2])

(* SymExecEngine stops with "Z3 cannot solve the formula!" on an unknown   *)
(* answer; a "True" of Mechanism is as little a guess.                     *)
TrueIsProved ==
    \A e \in DOMAIN report :
        report[e].stage = "property" /\ report[e].verdict /\ report[e].kind # 1 =>
            Answer[mech][report[e].kind][Known(e)]
=============================================================================
