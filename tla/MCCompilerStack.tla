-------------------------- MODULE MCCompilerStack ---------------------------
(***************************************************************************)
(* Projects for the front end: files that import each other, names, paths  *)
(* and flaws, families of contracts, and contracts with members.           *)
(***************************************************************************)
EXTENDS CompilerStack

-----------------------------------------------------------------------------
(* Files.                                                                  *)
Import(path)            == [kind |-> "import", path |-> path, symbols |-> <<>>, as |-> ""]
ImportAs(path, name)    == [Import(path) EXCEPT !.as = name]
ImportFrom(path, names) == [Import(path) EXCEPT !.symbols = names]

ContractWith(name, bases, members) ==
    [kind |-> "contract", name |-> name, bases |-> bases, members |-> members, library |-> FALSE]
Contract(name, bases) == ContractWith(name, bases, <<>>)
Is(names) == [i \in DOMAIN names |-> <<names[i]>>]

File(nodes) == [nodes |-> nodes, flaws |-> {}, fatal |-> {}]
Alone(nodes) == [disk |-> (<<"a">> :> File(nodes)), main |-> <<"a">>]

-----------------------------------------------------------------------------
(* Three files in one directory that import each other in every way.       *)
Names == <<"a", "b", "c">>
Upper == [a |-> "A", b |-> "B", c |-> "C"]

Inheritance == {
    [a |-> <<>>, b |-> <<>>, c |-> <<>>],
    [a |-> <<"C">>, b |-> <<>>, c |-> <<>>],
    [a |-> <<"C", "B">>, b |-> <<"C">>, c |-> <<>>],
    [a |-> <<>>, b |-> <<"A">>, c |-> <<"B">>]}

Others(f) == SelectSeq(Names, LAMBDA g : g # f)
Subsequence(s, want) == SelectSeq(s, LAMBDA x : x \in want)

Linked(graph, bases) ==
    [p \in {<<f>> : f \in ToSet(Names)} |->
        LET f == p[1] IN
        File([i \in DOMAIN Subsequence(Others(f), graph[f]) |->
                 Import(<<".", Subsequence(Others(f), graph[f])[i]>>)]
             \o <<Contract(Upper[f], Is(bases[f]))>>)]

ImportGraphs == {g \in [ToSet(Names) -> SUBSET ToSet(Names)] : \A f \in ToSet(Names) : f \notin g[f]}

LinkedProjects ==
    {[disk |-> Linked(g, b), main |-> <<m>>] : g \in ImportGraphs, b \in Inheritance, m \in {"a", "c"}}

-----------------------------------------------------------------------------
(* Directories, names, and files that are wrong.                           *)
Two(a, b) == [disk |-> (<<"a">> :> File(a)) @@ (<<"b">> :> File(b)), main |-> <<"a">>]
B == Contract("B", <<>>)
C == Contract("C", <<>>)

NamedProjects == {
    Two(<<ImportAs(<<"b">>, "M"), Contract("A", << <<"M", "B">> >>)>>, <<B>>),
    Two(<<ImportAs(<<"b">>, "M"), Contract("A", << <<"M">> >>)>>, <<B>>),
    Two(<<ImportAs(<<"b">>, "M"), Contract("A", Is(<<"B">>))>>, <<B>>),
    Two(<<ImportFrom(<<"b">>, << <<"B", "D">> >>), Contract("A", Is(<<"D">>))>>, <<B, C>>),
    Two(<<ImportFrom(<<"b">>, << <<"B", "B">> >>), Contract("A", Is(<<"C">>))>>, <<B, C>>),
    Two(<<ImportFrom(<<"b">>, << <<"E", "E">> >>)>>, <<B>>),
    Two(<<Import(<<"b">>), Import(<<".", "b">>), Contract("A", Is(<<"B">>))>>, <<B>>),
    Two(<<Import(<<"b">>), B>>, <<B>>),
    Two(<<Import(<<"b">>), Import(<<"b">>)>>, <<B>>),
    Two(<<ImportAs(<<"b">>, "B")>>, <<B, B>>),
    Two(<<ImportAs(<<"b">>, "M"), ImportAs(<<"b">>, "M")>>, <<>>),
    Two(<<Import(<<"b">>), Import(<<"d">>)>>, <<B>>),
    Two(<<Import(<<"a">>), Contract("A", Is(<<"A">>))>>, <<>>),
    Alone(<<Contract("A", Is(<<"B">>)), B>>),
    [disk |-> <<>>, main |-> <<"a">>],
    [disk |-> (<<"d", "a">> :> File(<<Import(<<"..", "b">>), Import(<<".", "..", "d", "c">>), Contract("A", Is(<<"B">>))>>))
              @@ (<<"b">> :> File(<<B>>)) @@ (<<"d", "c">> :> File(<<ImportAs(<<"b">>, "M")>>)),
     main |-> <<"d", "a">>],
    [disk |-> (<<"a">> :> File(<<Import(<<"..", "b">>)>>)) @@ (<<"b">> :> File(<<B>>))
              @@ (<<"..", "b">> :> File(<<C>>)),
     main |-> <<".", "a">>]}

Broken(p) == [File(<<Import(<<"b">>), Contract("A", Is(<<"B">>))>>) EXCEPT !.flaws = {p}]

FlawedProjects ==
    {[disk |-> (<<"a">> :> File(<<Import(<<"b">>)>>)) @@ (<<"b">> :> [File(<<B>>) EXCEPT !.flaws = {p}]),
      main |-> <<"a">>] : p \in ({"parse"} \cup ToSet(Passes)) \ {"register", "import", "mutability", "smt"}}
    \cup
    {[disk |-> (<<"a">> :> [File(<<Import(<<"b">>)>>) EXCEPT !.fatal = {p}]) @@ (<<"b">> :> File(<<B>>)),
      main |-> <<"a">>] : p \in {"types", "post"}}

-----------------------------------------------------------------------------
(* Every way four contracts may inherit, and a fifth below two of them.    *)
Bases(earlier) == UNION {{Is(s) : s \in {t \in [1..n -> earlier] : IsInjective(t)}} : n \in 0..Cardinality(earlier)}

Family(x2, x3, x4) == <<Contract("1", <<>>), Contract("2", x2), Contract("3", x3), Contract("4", x4)>>

Families ==
    {Alone(Family(x2, x3, x4)) : x2 \in Bases({"1"}), x3 \in Bases({"1", "2"}), x4 \in Bases({"1", "2", "3"})}
    \cup
    {Alone(Append(Family(x2, x3, x4), Contract("5", Is(<<"3", "4">>)))) :
        x2 \in Bases({"1"}), x3 \in Bases({"1", "2"}), x4 \in Bases({"1", "2"})}

-----------------------------------------------------------------------------
(* A contract and one below it.                                            *)
Member(kind, name, vis, mut, body) ==
    [kind |-> kind, name |-> name, params |-> <<>>, vis |-> vis, mut |-> mut, ret |-> "none",
     impl |-> TRUE, body |-> body, calls |-> <<>>, mods |-> <<>>]
Use(name) == [name |-> name, params |-> <<>>]

Fn(name, vis, mut, body) == Member("function", name, vis, mut, body)
Modifier(name, body)     == Member("modifier", name, "internal", "nonpayable", body)

Below(base, derived) ==
    Alone(<<ContractWith("A", <<>>, base), ContractWith("B", Is(<<"A">>), derived)>>)

Bodies == {{}, {"view"}, {"nonpayable"}, {"payable"}, {"nonpayable", "payable"}}

\* f is declared, g may be overridden, m may be overridden.
Callers ==
    {Below(<<[Fn("f", vis, mut, {}) EXCEPT !.calls = <<Use("g")>>], Fn("g", "public", "view", {"view"})>>,
           <<Fn("g", "public", over, body)>>) :
        vis \in {"public", "internal"}, mut \in ToSet(Levels), over \in ToSet(Levels), body \in Bodies}

Modified ==
    {Below(<<[Fn("f", vis, mut, {"view"}) EXCEPT !.mods = <<Use("m")>>], Modifier("m", body)>>, <<>>) :
        vis \in {"public", "internal"}, mut \in ToSet(Levels), body \in Bodies}
    \cup
    {Below(<<[Fn("f", "public", mut, {}) EXCEPT !.mods = <<Use("m")>>], Modifier("m", {"view"})>>,
           <<Modifier("m", body)>>) : mut \in {"view", "nonpayable"}, body \in Bodies}
    \cup
    {Below(<<[Fn("f", "internal", mut, {}) EXCEPT !.mods = <<Use("m")>>],
             [Modifier("m", body) EXCEPT !.calls = <<Use("g")>>], Fn("g", "public", "nonpayable", {"nonpayable"})>>,
           <<>>) : mut \in {"pure", "view"}, body \in Bodies}

Variable(name) == Member("variable", name, "internal", "view", {})

Overridden == {
    Below(<<Fn("f", "external", "view", {})>>, <<Fn("f", "public", "view", {})>>),
    Below(<<Fn("f", "public", "view", {})>>, <<Fn("f", "external", "view", {})>>),
    Below(<<Fn("f", "public", "view", {})>>, <<[Fn("f", "public", "view", {}) EXCEPT !.impl = FALSE]>>),
    Below(<<[Fn("f", "public", "view", {}) EXCEPT !.impl = FALSE]>>, <<Fn("f", "public", "view", {})>>),
    Below(<<Fn("f", "public", "view", {})>>, <<[Fn("f", "public", "view", {}) EXCEPT !.ret = "uint"]>>),
    Below(<<Fn("f", "public", "view", {})>>, <<[Fn("f", "public", "pure", {}) EXCEPT !.params = <<"uint">>]>>),
    Below(<<Fn("f", "public", "view", {}), Fn("f", "public", "view", {})>>, <<>>),
    Below(<<Fn("f", "public", "view", {})>>, <<Modifier("f", {})>>),
    Below(<<Modifier("f", {})>>, <<Fn("f", "public", "view", {})>>),
    Below(<<Modifier("m", {}), Modifier("m", {})>>, <<>>),
    Below(<<Modifier("m", {})>>, <<[Modifier("m", {}) EXCEPT !.params = <<"uint">>]>>),
    Below(<<Variable("x")>>, <<Variable("x")>>),
    Below(<<Variable("x")>>, <<Fn("x", "public", "view", {})>>),
    Below(<<Fn("x", "external", "view", {})>>, <<Variable("x")>>)}

MCProjects == LinkedProjects \cup NamedProjects \cup FlawedProjects \cup Families
              \cup Callers \cup Modified \cup Overridden

MCPathOrder == << <<".", "a">>, <<".", "b">>, <<".", "c">>, <<"a">>, <<"b">>, <<"c">>, <<"d">>, <<"d", "a">>, <<"d", "c">> >>

=============================================================================
