----------------------------- MODULE MCLvalues ------------------------------
(* A contract with an integer, a mapping, structs, a mapping of structs, a *)
(* struct with a mapping, a mapping of such structs, structs of three      *)
(* fields in a mapping, and a struct with a struct.                        *)
EXTENDS Lvalues

MCKeys == 0..4     \* no value gets larger within the bound

Pair   == Tuple(<<Int_, Int_>>)
Book   == Tuple(<<Array(Int_), Int_>>)
Triple == Tuple(<<Int_, Int_, Int_>>)
Nest   == Tuple(<<Pair, Int_>>)
State(type) == [type |-> type, state |-> TRUE, pointer |-> FALSE]

MCVars == [x |-> State(Int_), m |-> State(Array(Int_)), s |-> State(Pair),
           a |-> State(Array(Pair)), t |-> State(Book), b |-> State(Array(Book)),
           d |-> State(Array(Triple)), r |-> State(Triple), n |-> State(Nest),
           c |-> [type |-> Pair, state |-> FALSE, pointer |-> FALSE],
           p |-> [type |-> Pair, state |-> FALSE, pointer |-> TRUE]]

MCInitials ==
    <<[x |-> 0, m |-> [k \in MCKeys |-> k % 2], s |-> <<0, 1>>, a |-> [k \in MCKeys |-> <<1, k % 2>>],
       t |-> <<[k \in MCKeys |-> (k + 1) % 2], 0>>, b |-> [k \in MCKeys |-> <<[j \in MCKeys |-> k % 2], 1>>], c |-> <<0, 0>>, p |-> <<0, 0>>,
       d |-> [k \in MCKeys |-> <<1, 0, k % 2>>], r |-> <<0, 1, 1>>, n |-> <<<<0, 1>>, 0>>],
      [x |-> 1, m |-> [k \in MCKeys |-> (k + 1) % 2], s |-> <<1, 0>>, a |-> [k \in MCKeys |-> <<k % 2, 0>>],
       t |-> <<[k \in MCKeys |-> k % 2], 1>>, b |-> [k \in MCKeys |-> <<[j \in MCKeys |-> (j + 1) % 2], k % 2>>], c |-> <<0, 0>>, p |-> <<0, 0>>,
       d |-> [k \in MCKeys |-> <<0, k % 2, 1>>], r |-> <<1, 0, 0>>, n |-> <<<<1, 0>>, 1>>]>>

At(v, path) == Lvalue(v, path)
X    == At("x", <<>>)
I(e) == Index(e)
M(e) == At("m", <<I(e)>>)
S(f) == At("s", <<Field(f)>>)
A(e, f) == At("a", <<I(e), Field(f)>>)
T(e) == At("t", <<Field(1), I(e)>>)
B(e, g) == At("b", <<I(e), Field(1), I(g)>>)

Set(lv, e) == [kind |-> "assign", lhs |-> <<lv>>, rhs |-> <<e>>]
Both(l, e, k, g) == [kind |-> "assign", lhs |-> <<l, k>>, rhs |-> <<e, g>>]
Swap(l, k) == Both(l, Read(k), k, Read(l))
Decl(v, lv) == [kind |-> "declare", var |-> v, lv |-> lv]

Idx == {Num(0), Read(X)}

MCStatements ==
    {Set(X, Num(n)) : n \in 0..1} \cup {Set(X, Read(S(2)))}
    \cup {Set(M(i), e) : i \in Idx, e \in {Num(1), Read(S(1)), Read(T(Num(1)))}}
    \cup {Set(S(1), Read(M(Read(X)))), Set(S(2), PlusOne(S(1)))}
    \cup {Set(A(i, 2), Read(A(Num(1), 1))) : i \in Idx}
    \cup {Set(At("a", <<I(i)>>), Read(At("s", <<>>))) : i \in Idx}
    \cup {Set(T(i), Read(X)) : i \in Idx} \cup {Set(At("t", <<Field(2)>>), Num(1))}
    \cup {Set(B(i, Num(1)), PlusOne(T(i))) : i \in Idx}
    \cup {Decl("c", At("s", <<>>)), Set(At("c", <<Field(1)>>), Read(X))}
    \cup {Swap(S(1), S(2)), Swap(M(Num(0)), M(Num(1))), Swap(A(Num(0), 1), S(2))}
    \* an index on the left that the tuple writes, and a place it may write twice
    \cup {Both(X, Num(1), M(Read(X)), Num(0)), Both(M(Read(X)), Num(0), X, Num(1)),
          Both(M(Num(0)), Num(0), M(Read(X)), Num(1))}
    \* structs held as elements, of two fields and of three, and a struct in a struct
    \cup {Decl("c", At("a", <<I(i)>>)) : i \in Idx} \cup {Decl("c", At("n", <<Field(1)>>))}
    \cup {Set(X, Read(At("c", <<Field(f)>>))) : f \in 1..2} \cup {Set(At("c", <<Field(2)>>), Num(1))}
    \cup {Set(At("s", <<>>), Read(At("a", <<I(Read(X))>>))), Set(At("t", <<>>), Read(At("b", <<I(Num(1))>>)))}
    \cup {Set(At("r", <<>>), Read(At("d", <<I(Num(1))>>))), Set(At("d", <<I(Num(0)), Field(3)>>), Read(X))}
    \cup {Set(M(Num(0)), Read(At("r", <<Field(f)>>))) : f \in {1, 3}} \cup {Set(At("r", <<Field(2)>>), Read(X))}
    \cup {Set(At("n", <<Field(1), Field(f)>>), Read(X)) : f \in 1..2} \cup {Set(X, Read(At("n", <<Field(1), Field(2)>>)))}

\* A pointer to a struct in storage.
MCAliases == {Decl("p", At("s", <<>>)), Set(At("p", <<Field(1)>>), Num(1)), Set(S(2), PlusOne(S(1)))}
=============================================================================
