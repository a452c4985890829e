--------------------------- MODULE CompilerStack ----------------------------
(***************************************************************************)
(* main and CompilerStack: the file named on the command line is read,     *)
(* what it imports is loaded and parsed, the units are put into an order,  *)
(* the passes of the analysis examine them one after the other, and the    *)
(* engine is run on the unit of that file when all are satisfied.          *)
(*                                                                         *)
(* A path is the sequence of its components.  Passes whose checks are not  *)
(* modelled report what the file's flaws say.                              *)
(***************************************************************************)
EXTENDS ContractLevel

CONSTANTS
    Projects,     \* records: disk, from canonical paths to files, and main
    PathOrder     \* paths in the order of the map m_sources

VARIABLES
    project,      \* what is on disk, and the argument of main
    stage,        \* how far main and the stack are
    sources,      \* m_sources: from paths to files and their ASTs
    toParse,      \* sourcesToParse from i on
    order,        \* m_sourceOrder
    pass, pos,    \* the pass that runs, and the unit it is at
    ok,           \* noErrors
    scopes,       \* m_scopes of the units
    linear,       \* linearizedBaseContracts
    errors,       \* m_errorReporter: which pass complained of which unit
    engine        \* the unit the engine runs on, <<>> if none

vars == <<project, stage, sources, toParse, order, pass, pos, ok, scopes, linear, errors, engine>>

ASSUME PathsAssumption == PathOrder \in Seq(ToSet(PathOrder)) /\ \A u \in ToSet(PathOrder) : u \in Seq(ToSet(u))

-----------------------------------------------------------------------------
(* Paths.                                                                  *)

Relative(path) == path # <<>> /\ Head(path) \in {".", ".."}

\* absolutePath: a step up takes the last component away, whatever it is.
Climb(result, c) ==
    CASE c = ".." -> IF result = <<>> THEN <<>> ELSE Front(result)
      [] c = "."  -> result
      [] OTHER    -> Append(result, c)

\* Fault: the file's own name is taken for a directory.
BesideName(path, reference) == IF Relative(path) THEN FoldLeft(Climb, reference, path) ELSE path

AbsolutePath(path, reference) == IF Relative(path) THEN FoldLeft(Climb, Front(reference), path) ELSE path

\* boost::filesystem::canonical.
Normal(result, c) ==
    CASE c = ".." -> IF result = <<>> \/ Last(result) = ".." THEN Append(result, c) ELSE Front(result)
      [] c = "."  -> result
      [] OTHER    -> Append(result, c)

Canonical(path) == FoldLeft(Normal, <<>>, path)

OnDisk(path) == Canonical(path) \in DOMAIN project.disk
FileAt(path) == project.disk[Canonical(path)]

\* Passes that complain of a file because it says so.
Complaining == {"parse", "syntax", "docs", "resolve", "contracts", "types", "post", "cfg", "flow", "static"}

\* Files are what the passes take them for, and the map has room for whatever
\* is loaded.
ASSUME ProjectsAssumption ==
    \A p \in Projects :
        /\ \A path \in DOMAIN p.disk :
               /\ DOMAIN p.disk[path] = {"nodes", "flaws", "fatal"}
               /\ p.disk[path].nodes \in Seq(ToSet(p.disk[path].nodes))
               /\ \A n \in ToSet(p.disk[path].nodes) :
                      /\ n.kind = "contract" => n.bases \in Seq(ToSet(n.bases))
                      /\ n.kind = "import" => n.path \in Seq(ToSet(n.path))
               /\ p.disk[path].flaws \subseteq Complaining
               /\ p.disk[path].fatal \subseteq Complaining \ {"parse"}
        /\ p.main \in ToSet(PathOrder)
        /\ \A u \in ToSet(PathOrder) : Canonical(u) \in DOMAIN p.disk =>
               \A n \in ToSet(p.disk[Canonical(u)].nodes) :
                   n.kind = "import" /\ Canonical(AbsolutePath(n.path, u)) \in DOMAIN p.disk =>
                       AbsolutePath(n.path, u) \in ToSet(PathOrder)

\* Members are what the checks of contracts take them for; a modifier carries
\* none.
ASSUME MembersAssumption ==
    \A p \in Projects : \A path \in DOMAIN p.disk : \A n \in ToSet(p.disk[path].nodes) :
        n.kind = "contract" =>
            /\ n.members \in Seq(ToSet(n.members))
            /\ \A m \in ToSet(n.members) :
                   /\ DOMAIN m = {"kind", "name", "params", "vis", "mut", "ret", "impl", "body", "calls", "mods"}
                   /\ m.mut \in ToSet(Levels) /\ m.body \subseteq ToSet(Levels)
                   /\ m.kind = "modifier" => m.mods = <<>>

-----------------------------------------------------------------------------
(* Units and contracts.                                                    *)

Units == DOMAIN sources
NodesOf(u) == sources[u].file.nodes
ImportsOf(u) == {n \in ToSet(NodesOf(u)) : n.kind = "import"}

\* The path an import directive is annotated with, and the units imported.
Target(u, node) == AbsolutePath(node.path, u)
Targets(u) == {Target(u, n) : n \in ImportsOf(u)}
TargetOf(u) == [p \in {n.path : n \in ImportsOf(u)} |-> AbsolutePath(p, u)]

ContractsOf(u) == {Declaration(u, i) : i \in {j \in DOMAIN NodesOf(u) : NodesOf(u)[j].kind = "contract"}}
NodeOf(d) == NodesOf(d.unit)[d.node]

MembersOf(d) == [i \in DOMAIN NodeOf(d).members |-> With(NodeOf(d).members[i], "at", d)]

\* Members from derived to base.
Chain(d) == [i \in DOMAIN linear[d] |-> MembersOf(linear[d][i])]

Chains == [d \in DOMAIN linear |-> Chain(d)]

-----------------------------------------------------------------------------
Init ==
    /\ project \in Projects
    /\ stage = "start" /\ sources = <<>> /\ toParse = <<>> /\ order = <<>>
    /\ pass = 1 /\ pos = 1 /\ ok = TRUE
    /\ scopes = <<>> /\ linear = <<>> /\ errors = {} /\ engine = <<>>

Unread(path) == [file |-> FileAt(path), parsed |-> FALSE]

\* readInputFile and addSource.
ReadMain ==
    /\ stage = "start"
    /\ IF OnDisk(project.main)
       THEN /\ sources' = [p \in {project.main} |-> Unread(p)]
            /\ toParse' = <<project.main>> /\ stage' = "parsing"
       ELSE stage' = "unreadable" /\ UNCHANGED <<sources, toParse>>
    /\ UNCHANGED <<project, order, pass, pos, ok, scopes, linear, errors, engine>>

\* loadMissingSources: the paths not known yet, in the order of the map.
Missing(u) == {p \in Targets(u) : p \notin Units}
Loadable(u) == {p \in Missing(u) : OnDisk(p)}
InMapOrder(paths) == Kept(PathOrder, paths)

Parse ==
    /\ stage = "parsing" /\ toParse # <<>>
    /\ LET u      == Head(toParse)
           broken == "parse" \in sources[u].file.flaws
           new    == IF broken THEN {} ELSE Loadable(u)
       IN  /\ sources' = [p \in Units \cup new |->
                             IF p \in new THEN Unread(p)
                             ELSE IF p = u THEN [sources[u] EXCEPT !.parsed = ~broken] ELSE sources[p]]
           /\ toParse' = Tail(toParse) \o InMapOrder(new)
           /\ errors' = errors \cup (IF broken \/ Missing(u) # Loadable(u) THEN {<<"parse", u>>} ELSE {})
    /\ UNCHANGED <<project, stage, order, pass, pos, ok, scopes, linear, engine>>

ParsingDone ==
    /\ stage = "parsing" /\ toParse = <<>>
    /\ stage' = IF errors = {} THEN "parsed" ELSE "rejected"
    /\ UNCHANGED <<project, sources, toParse, order, pass, pos, ok, scopes, linear, errors, engine>>

-----------------------------------------------------------------------------
(* resolveImports: depth first, a unit after those it imports, cycles cut.  *)

\* The search from u: units seen, and those that are done in their order.  No
\* more than n units are not seen yet, so that it is n calls deep at most.
Searches == [seen : SUBSET Units, order : Seq(Units)]

Sort[n \in 0..Cardinality(Units)] ==
    [u \in Units |-> [st \in Searches |->
        IF u \in st.seen \/ n = 0 THEN st
        ELSE LET Visit(s, node) == IF node.kind = "import" THEN Sort[n - 1][Target(u, node)][s] ELSE s
                 end == FoldLeft(Visit, [st EXCEPT !.seen = @ \cup {u}], NodesOf(u))
             IN  [end EXCEPT !.order = Append(@, u)]]]

\* Fault: the units stay in the order of the map.
MapOrder == InMapOrder(Units)

SourceOrder ==
    LET Visit(s, u) == Sort[Cardinality(Units)][u][s]
    IN  FoldLeft(Visit, [seen |-> {}, order |-> <<>>], InMapOrder(Units)).order

ResolveImports ==
    /\ stage = "parsed"
    /\ order' = SourceOrder
    /\ stage' = "analysing"
    /\ UNCHANGED <<project, sources, toParse, pass, pos, ok, scopes, linear, errors, engine>>

-----------------------------------------------------------------------------
(* The passes, each over the units in their order.                         *)

Passes == <<"syntax", "docs", "register", "import", "resolve", "contracts", "types",
            "post", "cfg", "flow", "static", "mutability", "smt">>

\* Passes that only run when nothing was wrong so far.
Gated == {"post", "cfg", "flow", "static", "mutability", "smt"}

Unit == order[pos]

Running(p) == stage = "analysing" /\ pass <= Len(Passes) /\ Passes[pass] = p
              /\ (pos = 1 /\ p \in Gated => ok)

\* Fault: what is wrong with a file that is imported is not an error.
WrongInMain(p) == Unit = project.main /\ p \in sources[Unit].file.flaws \cup sources[Unit].file.fatal

\* The SMTChecker only warns.
Wrong(p) == p # "smt" /\ p \in sources[Unit].file.flaws \cup sources[Unit].file.fatal

Report(p, wrong) == errors' = errors \cup (IF wrong THEN {<<p, Unit>>} ELSE {})

\* Fault: the units are gone through again.
Again ==
    /\ IF pos < Len(order) THEN pos' = pos + 1 ELSE pos' = 1
    /\ UNCHANGED <<pass, stage>>

Forward ==
    /\ IF pos < Len(order) THEN pos' = pos + 1 /\ pass' = pass ELSE pos' = 1 /\ pass' = pass + 1
    /\ stage' = stage

GiveUp == stage' = "rejected" /\ UNCHANGED <<pass, pos>>

\* Fault: a pass looks at what it has found itself.
OwnErrors(p, wrong) == ~wrong

\* Most passes return whether the list of all passes holds only warnings;
\* two of them are run on the contracts of the unit, if any.
Returned(p, wrong) ==
    CASE p = "docs"                    -> ~wrong
      [] p = "smt"                     -> TRUE
      [] p \in {"contracts", "types"}  -> ContractsOf(Unit) # {} => errors' = {}
      [] OTHER                         -> errors' = {}

Checks == {"syntax", "docs", "contracts", "types", "post", "cfg", "flow", "static", "smt"}

Check(p) ==
    /\ Running(p)
    /\ LET wrong == \/ Wrong(p)
                    \/ p = "contracts" /\ \E d \in ContractsOf(Unit) : ContractWrong(Chain(d))
       IN  /\ Report(p, wrong)
           /\ ok' = (ok /\ Returned(p, wrong))
    /\ IF p \in sources[Unit].file.fatal THEN GiveUp ELSE Forward
    /\ UNCHANGED <<project, sources, toParse, order, scopes, linear, engine>>

\* What is declared twice is reported, yet the pass returns true.
RegisterDeclarations ==
    /\ Running("register")
    /\ scopes' = With(scopes, Unit, Declared(Unit, NodesOf(Unit)))
    /\ Report("register", DeclaredTwice(NodesOf(Unit)))
    /\ Forward
    /\ UNCHANGED <<project, sources, toParse, order, ok, linear, engine>>

PerformImports ==
    /\ Running("import")
    /\ LET result == WithImports(scopes, Unit, NodesOf(Unit), TargetOf(Unit))
       IN  /\ scopes' = [scopes EXCEPT ![Unit] = result.scope]
           /\ Report("import", result.error)
           /\ IF result.error THEN GiveUp ELSE Forward
    /\ UNCHANGED <<project, sources, toParse, order, ok, linear, engine>>

\* The contracts the name of a base stands for, none or one.
Named(u, names) ==
    LET first == IF names[1] \in DOMAIN scopes[u] THEN {scopes[u][names[1]]} ELSE {}
        inner == {scopes[Target(d.unit, NodeOf(d))] : d \in {e \in first : NodeOf(e).kind = "import"}}
        found == IF Len(names) = 1 THEN first
                 ELSE {s[names[2]] : s \in {t \in inner : names[2] \in DOMAIN t}}
    IN  {d \in found : NodeOf(d).kind = "contract"}

\* Fault: the annotation is set before it is known to exist.
ResolveTooSoon(st, d) ==
    LET found == [i \in DOMAIN NodeOf(d).bases |-> Named(d.unit, NodeOf(d).bases[i])]
        known == \A i \in DOMAIN found : found[i] # {} /\ found[i] \subseteq DOMAIN st.linear
        line  == IF known THEN Linearize(d, [i \in DOMAIN found |-> CHOOSE b \in found[i] : TRUE], st.linear)
                 ELSE <<>>
    IN  [st EXCEPT !.linear = With(@, d, line), !.failed = @ \/ line = <<>>]

\* Names and bases of contract d: linearized, failed for good, or with a
\* clash of members, which does not stop the pass.
ResolveContract(st, d) ==
    LET names == NodeOf(d).bases
        found == [i \in DOMAIN names |-> Named(d.unit, names[i])]
        known == \A i \in DOMAIN found : found[i] # {} /\ found[i] \subseteq DOMAIN st.linear
        bases == [i \in DOMAIN found |-> CHOOSE b \in found[i] : TRUE]
        line  == IF known THEN Linearize(d, bases, st.linear) ELSE <<>>
        chain == [i \in DOMAIN line |-> MembersOf(line[i])]
    IN  IF st.failed \/ line = <<>> THEN [st EXCEPT !.failed = TRUE]
        ELSE [st EXCEPT !.linear = With(@, d, line), !.clash = @ \/ MemberClash(chain)]

ResolveNames ==
    /\ Running("resolve")
    /\ LET contracts == Kept([i \in DOMAIN NodesOf(Unit) |-> Declaration(Unit, i)], ContractsOf(Unit))
           result == FoldLeft(ResolveContract, [linear |-> linear, failed |-> FALSE, clash |-> FALSE], contracts)
           failed == result.failed \/ Wrong("resolve")
       IN  /\ linear' = result.linear
           /\ Report("resolve", failed \/ result.clash)
           /\ IF failed THEN GiveUp ELSE Forward
    /\ UNCHANGED <<project, sources, toParse, order, ok, scopes, engine>>

\* ViewPureChecker takes all units at once.
CheckMutability ==
    /\ Running("mutability")
    /\ LET wrong == {u \in Units : \E d \in ContractsOf(u) : MutabilityWrong(Chain(d), Chains, NodeOf(d).library)}
       IN  /\ errors' = errors \cup {<<"mutability", u>> : u \in wrong}
           /\ ok' = (ok /\ wrong = {})
    /\ pass' = pass + 1
    /\ UNCHANGED <<project, stage, sources, toParse, order, pos, scopes, linear, engine>>

\* A pass that is skipped is followed by others that are, and all are
\* through at the end.
Leave ==
    /\ stage = "analysing"
    /\ \/ pass > Len(Passes) /\ stage' = IF ok THEN "analysed" ELSE "rejected"
       \/ pass <= Len(Passes) /\ pos = 1 /\ Passes[pass] \in Gated /\ ~ok /\ stage' = "rejected"
    /\ UNCHANGED <<project, sources, toParse, order, pass, pos, ok, scopes, linear, errors, engine>>

\* The engine is given one unit, that of the argument.
RunEngine ==
    /\ stage = "analysed"
    /\ engine' = project.main /\ stage' = "running"
    /\ UNCHANGED <<project, sources, toParse, order, pass, pos, ok, scopes, linear, errors>>

Over == stage \in {"unreadable", "rejected", "running"} /\ UNCHANGED vars

Next ==
    \/ ReadMain \/ Parse \/ ParsingDone \/ ResolveImports
    \/ \E p \in Checks : Check(p)
    \/ RegisterDeclarations \/ PerformImports \/ ResolveNames \/ CheckMutability
    \/ Leave \/ RunEngine \/ Over

Spec == Init /\ [][Next]_vars

\* Main is one thread that goes on to its end: WF_vars(Next), with the states
\* in which a step is enabled written out.
FairSpec == Spec /\ ([]<>(stage \in {"unreadable", "rejected", "running"}) \/ []<><<Next>>_vars)

-----------------------------------------------------------------------------
Accepted == stage \in {"analysed", "running"}

\* What the imports of u lead to.
Reach(u) ==
    {v \in Units : \A S \in SUBSET Units : Targets(u) \cup UNION {Targets(w) : w \in S} \subseteq S => v \in S}

Place(u) == CHOOSE i \in DOMAIN order : order[i] = u

(* The values of the variables.                                            *)
TypeOK ==
    /\ stage \in {"start", "unreadable", "parsing", "parsed", "analysing", "analysed", "rejected", "running"}
    /\ ToSet(toParse) \subseteq Units /\ ToSet(order) \subseteq Units
    /\ pass \in 1..(Len(Passes) + 1) /\ pos \in 1..(Len(order) + 1)
    /\ DOMAIN scopes \subseteq Units /\ engine \in {<<>>, project.main}
    /\ \A d \in DOMAIN linear : linear[d] # <<>> /\ ToSet(linear[d]) \subseteq DOMAIN linear
    /\ \A e \in errors : e[1] \in ToSet(Passes) \cup {"parse"} /\ e[2] \in Units

(* resolveImports: every unit that was loaded is in the order once, its    *)
(* imports are all there, and come first unless they lead back.            *)
OrderRight ==
    stage \in {"analysing", "analysed", "running"} =>
        /\ ToSet(order) = Units /\ IsInjective(order)
        /\ Units = {project.main} \cup Reach(project.main)
        /\ \A u \in Units : \A v \in Targets(u) : u \notin Reach(v) => Place(v) < Place(u)

(* absolutePath: a file that is named from a unit is looked for where that *)
(* unit is, as long as the import does not climb above the directory in    *)
(* which main was started, or the path of the unit has dots of its own.    *)
Climbs(path) == Cardinality({i \in DOMAIN path : path[i] = ".."})

RightFile ==
    \A u \in Units : \A n \in ImportsOf(u) :
        Relative(n.path) /\ Climbs(n.path) < Len(u) /\ {".", ".."} \cap ToSet(u) = {} =>
            Canonical(Target(u, n)) = Canonical(Front(u) \o n.path)

Cyclic(u) == \E v \in Reach(u) \cup {u} : v \in Reach(v)

\* The names of a scope with their declarations, and what an import passes on.
Pairs(scope) == {<<n, scope[n]>> : n \in DOMAIN scope}

PassedOn(n, pairs) ==
    IF n.as # "" THEN {} ELSE IF n.symbols = <<>> THEN pairs
    ELSE UNION {{<<s[2], p[2]>> : s \in {t \in ToSet(n.symbols) : t[1] = p[1]}} : p \in pairs}

\* What the units see, each pair with its unit, when all pass on n times what
\* they have; after as many times as there are nodes, nothing is new but in a
\* cycle that renames.
Nodes == UNION {{u} \X DOMAIN NodesOf(u) : u \in Units}
SeenBy(u, seen) == {x[2] : x \in {y \in seen : y[1] = u}}

Seen[n \in 0..Cardinality(Nodes)] ==
    IF n = 0 THEN UNION {{u} \X Pairs(Declared(u, NodesOf(u))) : u \in Units}
    ELSE LET seen == Seen[n - 1]
         IN  seen \cup UNION {UNION {{u} \X PassedOn(m, SeenBy(Target(u, m), seen)) : m \in ImportsOf(u)} : u \in Units}

(* performImports: a unit sees nothing but what it declares or some chain  *)
(* of imports leads to, and all of it unless a chain leads into a cycle,   *)
(* where it depends on the names of the files what is seen.                *)
ScopesRight ==
    pass > 4 =>
        LET all == Seen[Cardinality(Nodes)]
        IN  \A u \in Units : /\ Pairs(scopes[u]) \subseteq SeenBy(u, all)
                             /\ ~Cyclic(u) => Pairs(scopes[u]) = SeenBy(u, all)

\* The bases of a contract, and what must come before what: pairs.
BasesOf(d) == [i \in DOMAIN NodeOf(d).bases |-> CHOOSE b \in Named(d.unit, NodeOf(d).bases[i]) : TRUE]

Before(s) == UNION {{<<s[i], s[j]>> : j \in (i + 1)..Len(s)} : i \in DOMAIN s}
Demanded(d) == Before(<<d>> \o Reverse(BasesOf(d))) \cup UNION {Before(linear[b]) : b \in ToSet(BasesOf(d))}

\* Whatever is chosen has a first element.
Acyclic(R) == \A S \in SUBSET ({p[1] : p \in R} \cup {p[2] : p \in R}) :
                  S # {} => \E x \in S : \A y \in S : <<y, x>> \notin R

(* cThreeMerge: the linearization has every base once, keeps the order of  *)
(* the bases as named and the linearization of each of them, and is only   *)
(* refused when no order does.                                             *)
LinearRight ==
    /\ \A d \in DOMAIN linear :
           /\ ToSet(linear[d]) = {d} \cup UNION {ToSet(linear[b]) : b \in ToSet(BasesOf(d))}
           /\ IsInjective(linear[d])
           /\ Demanded(d) \subseteq Before(linear[d])
    /\ stage = "rejected" /\ pass = 5 =>
           \/ Wrong("resolve")
           \/ \E d \in ContractsOf(Unit) \ DOMAIN linear :
                  \/ \E i \in DOMAIN NodeOf(d).bases : Named(d.unit, NodeOf(d).bases[i]) \cap DOMAIN linear = {}
                  \/ ~Acyclic(Demanded(d))

(* The engine is only run when nothing was reported: although register     *)
(* returns true after an error, an inherited clash lets resolve go on, and *)
(* some passes have no contract to look at.                                *)
NoErrorLeft == Accepted => errors = {}

(* ... and then every unit that was loaded is without flaw: each pass has  *)
(* been at each of them.                                                   *)
NothingEscapes ==
    Accepted => \A u \in Units :
        /\ sources[u].parsed /\ sources[u].file.flaws = {} /\ sources[u].file.fatal = {}
        /\ ~DeclaredTwice(NodesOf(u))
        /\ ContractsOf(u) \subseteq DOMAIN linear
        /\ \A d \in ContractsOf(u) : ~MemberClash(Chain(d)) /\ ~ContractWrong(Chain(d))

-----------------------------------------------------------------------------
(* What is executed when contract d is deployed: a call or a modifier is   *)
(* the one nearest to d, whatever was seen where it stands.                *)

Overriding(chain, m) ==
    Nearest(chain, {n \in Everything(chain) : n.kind = m.kind /\ n.name = m.name /\ n.params = m.params})

LeadsTo(chain, m) ==
    UNION {Overriding(chain, g) : g \in ReferencedBy(Chain(m.at), m.calls, "function")
                                       \cup ReferencedBy(Chain(m.at), m.mods, "modifier")}

\* In every set that has f and whatever its members lead to.
Executed(chain, f) ==
    {m \in Everything(chain) :
        \A S \in SUBSET Everything(chain) : f \in S /\ (\A n \in S : LeadsTo(chain, n) \subseteq S) => m \in S}

Does(chain, f) == UNION {m.body : m \in Executed(chain, f)}

\* The two ways around the check: a modifier is replaced below, or asks for
\* msg.value, which hides what else it does from a function nobody may call.
ByModifier(chain, f) ==
    \E m \in Executed(chain, f) : \E s \in ReferencedBy(Chain(m.at), m.mods, "modifier") :
        Overriding(chain, s) # {s} \/ {"payable", "nonpayable"} \subseteq BodyReports(s, Chain(s.at))

(* ViewPureChecker with checkIllegalOverrides: when the engine is run, a   *)
(* function declared view changes nothing and one declared pure reads      *)
(* nothing, whatever overrides the functions it calls, except by way of a  *)
(* modifier.                                                               *)
DeclarationsKept ==
    stage = "running" =>
        \A d \in DOMAIN linear : \A f \in Everything(Chain(d)) :
            f.kind = "function" /\ f.mut \in {"pure", "view"} /\ ~ByModifier(Chain(d), f) =>
                /\ "nonpayable" \notin Does(Chain(d), f)
                /\ f.mut = "pure" => Does(Chain(d), f) \subseteq {"pure"}

(* Whatever is wrong, or in a cycle, main comes to an end.                 *)
Terminates == <>(stage \in {"unreadable", "rejected", "running"})
=============================================================================
