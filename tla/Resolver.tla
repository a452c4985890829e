------------------------------ MODULE Resolver ------------------------------
(***************************************************************************)
(* NameAndTypeResolver and DeclarationContainer: what a source unit        *)
(* declares, what its imports add, what the name of a base contract means, *)
(* in which order the bases of a contract are linearized, and whether the  *)
(* members it inherits clash.                                              *)
(*                                                                         *)
(* A scope is a function from the names that are declared to declarations. *)
(* A declaration is the node at one place of one unit; units are known by  *)
(* the path they were loaded under, so that one file may be two units.     *)
(***************************************************************************)
EXTENDS Naturals, FiniteSets, SequencesExt, TLC

Declaration(u, i) == [unit |-> u, node |-> i]

\* Function f with value v at x; those of a sequence that are in a set.
With(f, x, v) == [y \in DOMAIN f \cup {x} |-> IF y = x THEN v ELSE f[y]]
Kept(s, S) == FoldLeft(LAMBDA kept, x : IF x \in S THEN Append(kept, x) ELSE kept, <<>>, s)

\* A name that is declared is kept; the same declaration may come again.
Conflicting(scope, name, d) == name \in DOMAIN scope /\ scope[name] # d

Register(scope, name, d) == IF Conflicting(scope, name, d) THEN scope ELSE With(scope, name, d)

\* registerDeclarations: contracts, and imports that name the whole unit.
Declares(node) == node.kind = "contract" \/ node.as # ""

DeclaredName(node) == IF node.kind = "contract" THEN node.name ELSE node.as

Declared(u, nodes) ==
    LET step(scope, i) == IF Declares(nodes[i])
                          THEN Register(scope, DeclaredName(nodes[i]), Declaration(u, i)) ELSE scope
    IN  FoldLeft(step, <<>>, [i \in DOMAIN nodes |-> i])

DeclaredTwice(nodes) ==
    \E i, j \in DOMAIN nodes : /\ i < j /\ Declares(nodes[i]) /\ Declares(nodes[j])
                               /\ DeclaredName(nodes[i]) = DeclaredName(nodes[j])

\* Fault: a symbol keeps the name it has where it comes from.
ImportedUnrenamed(node, scope) ==
    IF node.as # "" THEN {}
    ELSE {<<name, scope[name]>> : name \in DOMAIN scope \cap
             (IF node.symbols = <<>> THEN DOMAIN scope ELSE {s[1] : s \in ToSet(node.symbols)})}

\* performImports: what one directive adds to the scope, a set of pairs.
Imported(node, scope) ==
    IF node.as # "" THEN {}
    ELSE IF node.symbols = <<>> THEN {<<name, scope[name]>> : name \in DOMAIN scope}
    ELSE {<<s[2], scope[s[1]]>> : s \in {p \in ToSet(node.symbols) : p[1] \in DOMAIN scope}}

NotFound(node, scope) == \E s \in ToSet(node.symbols) : s[1] \notin DOMAIN scope

Clashes(target, pairs) ==
    \/ \E p \in pairs : Conflicting(target, p[1], p[2])
    \/ \E p, q \in pairs : p[1] = q[1] /\ p[2] # q[2]

\* All imports of a unit, in order: its scope and whether something was wrong.
WithImports(scopes, u, nodes, target) ==
    LET add(st, node) ==
            LET from  == IF target[node.path] = u THEN st.scope ELSE scopes[target[node.path]]
                pairs == Imported(node, from)
                fresh == {p \in pairs : p[1] \notin DOMAIN st.scope}
            IN  IF node.kind # "import" THEN st
                ELSE [scope |-> [n \in DOMAIN st.scope \cup {p[1] : p \in fresh} |->
                                   IF n \in DOMAIN st.scope THEN st.scope[n] ELSE (CHOOSE p \in fresh : p[1] = n)[2]],
                      error |-> st.error \/ NotFound(node, from) \/ Clashes(st.scope, pairs)]
    IN  FoldLeft(add, [scope |-> scopes[u], error |-> FALSE], nodes)

-----------------------------------------------------------------------------
(* Linearization.                                                          *)

\* Fault: a candidate may still wait in the tail of a list.
AnyHead(c, lists) == TRUE

AppearsOnlyAtHead(c, lists) == \A l \in ToSet(lists) : c \notin ToSet(Tail(l))

\* The candidate leaves all lists, and lists that are empty go.
RemoveCandidate(c, lists) ==
    LET without == [i \in DOMAIN lists |-> Kept(lists[i], ToSet(lists[i]) \ {c})]
    IN  Kept(without, ToSet(without) \ {<<>>})

CThreeMerge(lists) ==
    LET Merge(st, i) ==
            LET k == SelectInSeq(st.left, LAMBDA l : AppearsOnlyAtHead(Head(l), st.left))
            IN  IF k = 0 THEN st
                ELSE [left   |-> RemoveCandidate(Head(st.left[k]), st.left),
                      result |-> Append(st.result, Head(st.left[k]))]
        all == UNION {ToSet(l) : l \in ToSet(lists)}
        end == FoldLeft(Merge, [left |-> Kept(lists, ToSet(lists) \ {<<>>}), result |-> <<>>],
                        [i \in 1..Cardinality(all) |-> i])
    IN  IF end.left = <<>> THEN end.result ELSE <<>>

\* The linearization of c, <<>> when there is none.  A base that is named
\* later comes first.
Linearize(c, bases, linear) ==
    CThreeMerge(Reverse([i \in DOMAIN bases |-> linear[bases[i]]]) \o << <<c>> \o Reverse(bases) >>)

-----------------------------------------------------------------------------
(* Members: kind, name, params, vis.  A chain is the members of a contract *)
(* and of its bases, from derived to base.                                 *)

Visible(m) == m.vis \in {"internal", "public"}

Everything(chain) == UNION {ToSet(members) : members \in ToSet(chain)}

\* What the names in the body of a contract may mean.
InScope(chain) == {m \in Everything(chain) : m \in ToSet(chain[1]) \/ Visible(m)}

\* Declared twice in the contract, or inherited as something else.
MemberClash(chain) ==
    \/ \E i, j \in DOMAIN chain[1] :
           i < j /\ chain[1][i].name = chain[1][j].name /\ chain[1][i].kind # "function"
    \/ \E m, n \in InScope(chain) : m.name = n.name /\ m.kind # n.kind
=============================================================================
