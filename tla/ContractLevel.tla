--------------------------- MODULE ContractLevel ----------------------------
(***************************************************************************)
(* ContractLevelChecker and ViewPureChecker: what is demanded of the       *)
(* functions of a contract and of its bases.                               *)
(*                                                                         *)
(* A member has a kind, a name and params, vis, mut (as declared), ret,    *)
(* impl and at (its contract); body are the accesses it makes, by the      *)
(* mutability they need, calls and mods the functions it calls and the     *)
(* modifiers it carries, by name.                                          *)
(***************************************************************************)
EXTENDS Resolver

Levels == <<"pure", "view", "nonpayable", "payable">>

Rank(mut) == SelectInSeq(Levels, LAMBDA l : l = mut)

SameParameters(f, g) == f.kind = "function" /\ g.kind = "function"
                        /\ f.name = g.name /\ f.params = g.params

\* checkDuplicateFunctions: of one contract.
Duplicates(members) == \E i, j \in DOMAIN members : i < j /\ SameParameters(members[i], members[j])

\* Fault: view may become non-payable.
LooserOverride(f, g) == f.ret = g.ret /\ f.vis = g.vis /\ Rank(f.mut) >= Rank(g.mut)

\* checkFunctionOverride: f may override g.
MayOverride(f, g) ==
    /\ f.ret = g.ret
    /\ f.vis = g.vis \/ (g.vis = "external" /\ f.vis = "public")
    /\ f.mut = g.mut

\* checkIllegalOverrides along a chain from derived to base.
IllegalOverride(chain) ==
    \E i, j \in DOMAIN chain : i < j /\
        \E f \in ToSet(chain[i]), g \in ToSet(chain[j]) :
            \/ SameParameters(f, g) /\ ~MayOverride(f, g)
            \/ f.name = g.name /\ {f.kind, g.kind} = {"function", "modifier"}
            \/ f.name = g.name /\ f.kind = "modifier" /\ g.kind = "modifier" /\ f.params # g.params

\* checkAbstractFunctions: from base to derived, a definition of functions is
\* implemented for good, and may not be declared without a body again.
Redeclared(chain) ==
    \E i, j \in DOMAIN chain : i < j /\
        \E f \in ToSet(chain[i]), g \in ToSet(chain[j]) : SameParameters(f, g) /\ g.impl /\ ~f.impl

ContractWrong(chain) == Duplicates(chain[1]) \/ IllegalOverride(chain) \/ Redeclared(chain)

-----------------------------------------------------------------------------
(* ViewPureChecker.                                                        *)

\* Of some members, those of the first contract of the chain that has any.
Nearest(chain, some) ==
    {m \in some : \E i \in DOMAIN chain : /\ m \in ToSet(chain[i])
                                       /\ \A j \in 1..(i - 1) : ToSet(chain[j]) \cap some = {}}

\* The declaration a call or a modifier's name refers to where it stands; a
\* name that means nothing is no business of these checks.
Referenced(chain, use, kind) ==
    Nearest(chain, {m \in InScope(chain) : m.kind = kind /\ m.name = use.name /\ m.params = use.params})

ReferencedBy(chain, uses, kind) == UNION {Referenced(chain, use, kind) : use \in ToSet(uses)}

\* A call asks for what the function is declared, and money for no more than
\* a change of the state.
Demand(f) == IF f.mut = "payable" THEN "nonpayable" ELSE f.mut

\* What the expressions of a body report.
BodyReports(m, chain) == m.body \cup {Demand(g) : g \in ReferencedBy(chain, m.calls, "function")}

Highest(levels) == CHOOSE l \in levels : \A k \in levels : Rank(k) <= Rank(l)

\* m_inferredMutability of a modifier: the highest report only.
Inferred(m, chain) == Highest({"pure"} \cup BodyReports(m, chain))

\* reportMutability in a function: is this more than it is declared?
Refused(f, level, library) ==
    /\ Rank(level) > Rank(f.mut)
    /\ \/ level \in {"view", "nonpayable"}
       \/ f.mut = "pure"
       \/ f.vis \in {"public", "external"} /\ ~library

MutabilityWrong(chain, chains, library) ==
    \E f \in ToSet(chain[1]) : f.kind = "function" /\
        \/ \E level \in BodyReports(f, chain) : Refused(f, level, library)
        \/ \E m \in ReferencedBy(chain, f.mods, "modifier") : Refused(f, Inferred(m, chains[m.at]), library)
=============================================================================
