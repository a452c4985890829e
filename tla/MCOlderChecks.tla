--------------------------- MODULE MCOlderChecks ----------------------------
(* Two bidders who bid 0 or 1 and share a value of 0 or 1; harnesses of up *)
(* to two functions with up to two paths each.                             *)
EXTENDS OlderChecks

MCInputs == 0..7     \* the bits are the bids and the value

Bid(w, k)   == IF k = 1 THEN w % 2 ELSE (w \div 2) % 2
Value(w)    == w \div 4
MCHonest(who) == {w \in MCInputs : \A k \in who : Bid(w, k) = Value(w)}
MCDeviations(who, w) ==
    {u \in MCInputs : /\ Value(u) = Value(w)
                      /\ \A k \in 1..2 : (Bid(u, k) # Bid(w, k)) <=> (k \in who)}

\* Expressions and formulas of the harness.
B(k)    == [w \in MCInputs |-> Bid(w, k)]
Sum     == [w \in MCInputs |-> Bid(w, 1) + Bid(w, 2)]
Gain(k) == [w \in MCInputs |-> Value(w) - Bid(w, k)]
Const(n) == [w \in MCInputs |-> n]
Higher  == [w \in MCInputs |-> IF Bid(w, 1) >= Bid(w, 2) THEN 1 ELSE 0]
Wins    == {w \in MCInputs : Bid(w, 1) > Bid(w, 2)}
Ties    == {w \in MCInputs : Bid(w, 1) = Bid(w, 2) /\ Bid(w, 1) = 1}

D(op, e, key, who) == [op |-> op, e |-> e, key |-> key, who |-> who]
Says(op, e)        == D(op, e, 0, {})
Entries(op, es, keys) == [k \in DOMAIN es |-> D(op, es[k], keys[k], {})]
Registers2(op, e, f)    == Entries(op, <<e, f, Const(0)>>, <<1, 2, 1>>)

\* An auction: what the winner pays, gains, and what the others would have.
Fair(e, f, u) ==
    <<Says(Utility, u), D(Postcond, Higher, 1, {})>> \o Registers2(Expectation, B(1), f)
    \o <<D(Efficient, e, 1, {}), D(Efficient, e, 2, {}), D(Truthful, u, 0, {1})>>
Brief(e, f, u) ==
    <<Says(Utility, u), D(Postcond, Higher, 1, {})>> \o Registers2(Expectation, B(1), f)
    \o <<D(Efficient, e, 1, {}), D(Truthful, u, 0, {1})>>
Pays(p) ==
    Registers2(Payment, B(2), B(1)) \o
    <<D(Optimal, p, 1, {}), D(Optimal, p, 2, {}), D(Collusion, Gain(2), 0, {1, 2})>>

P(pc, does) == [pc |-> pc, does |-> does]
F(name, reports, paths) == [name |-> name, reports |-> reports, paths |-> paths]

Auction(name, pc, e, u, p, e2, f2) ==
    F(name, FALSE, <<P(pc, Fair(e, B(2), u) \o Pays(p)),
                     P(MCInputs \ (Wins \cup Ties), Fair(e2, f2, Const(0)) \o Pays(B(2)))>>)

\* Combinations: the n-th one, by the bits of n; each bit is 0 and 1, and each
\* two of them agree and differ.
Pick(n, k, a, b) == IF (n \div 2^k) % 2 = 0 THEN a ELSE b
Chosen == <<0, 3, 13, 22, 26, 31>>
Auctions ==
    [m \in DOMAIN Chosen |->
        LET n == Chosen[m]
        IN  Auction(Pick(n, 0, "main", "bid"), Pick(n, 1, Wins, Wins \cup Ties),
                    Pick(n, 2, B(1), Sum), Pick(n, 3, Gain(1), Gain(2)),
                    Pick(n, 4, B(2), Sum), Pick(n, 0, B(2), Sum), Pick(n, 3, B(1), B(2)))]

\* One request each.
Lone(name, op, e) ==
    F(name, FALSE, <<P(Wins \cup Ties,
        <<Says(Utility, Gain(1))>> \o Registers2(Expectation, B(1), B(2))
        \o Registers2(Payment, B(2), B(1)) \o <<D(op, e, 2, {1})>>),
                     P(MCInputs \ (Wins \cup Ties), <<>>)>>)
Each(s) == [k \in DOMAIN s |-> Lone(s[k][1], s[k][2], s[k][3])]
Lones == Each(<<<<"main", Truthful, Gain(1)>>, <<"bid", Collusion, Gain(2)>>,
                <<"main", Efficient, B(1)>>, <<"bid", Efficient, B(2)>>,
                <<"bid", Optimal, Sum>>, <<"main", Postcond, Higher>>>>)

\* Paths that declare nothing, less than the first, more than it, a check of
\* what is not registered; a path nothing satisfies; no path at all.  After the
\* function with utility -2 the gain of a lie in the next one goes unnoticed.
Others == <<F("main", FALSE, <<P(MCInputs, <<>>)>>),
            F("main", TRUE, <<P(MCInputs, <<>>)>>),
            F("main", FALSE, <<P(Wins, Brief(Sum, B(2), Gain(1))), P(MCInputs \ Wins, <<>>)>>),
            F("main", FALSE, <<P(Wins, <<>>), P(MCInputs \ Wins, Brief(Sum, B(2), Gain(1)))>>),
            F("main", FALSE, <<P({}, Brief(B(1), B(2), Gain(1))), P(MCInputs, Brief(B(2), B(1), Gain(1)))>>),
            F("main", FALSE, <<P({}, <<>>)>>),
            F("main", FALSE, <<P(Wins, <<D(Postcond, Higher, 1, {}), D(Truthful, B(1), 0, {1})>>)>>),
            F("main", FALSE, <<P(Wins, <<D(Efficient, B(1), 1, {})>>)>>),
            F("bid", FALSE, <<P(MCInputs, <<Says(Utility, Const(-2))>>)>>),
            F("bid", FALSE, <<P({5}, <<Says(Utility, Const(-1)), D(Truthful, Const(-1), 0, {1})>>),
                              P(MCInputs \ {5}, <<>>)>>),
            F("bid", FALSE, <<>>)>>

MCFunctions == Others \o Lones \o Auctions

Few  == 1..Len(Others \o Lones)
Many == DOMAIN MCFunctions \ Few

\* -symexe-main and -symexe.
Program(main, funcs) == [main |-> main, funcs |-> funcs]
MCPrograms == {Program(FALSE, <<f>>) : f \in Many}
              \cup {Program(FALSE, <<f, h>>) : f, h \in Few}
              \cup {Program(TRUE, <<f, h>>) : f, h \in Few \cap {1, 4, 11, 12, 13, 16}}
=============================================================================
