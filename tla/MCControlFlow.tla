--------------------------- MODULE MCControlFlow ----------------------------
(* Functions with a storage pointer p, a parameter c and up to four        *)
(* statements; some with a return parameter or a modifier.                 *)
EXTENDS ControlFlow, FlowPaths

Bool(id) == Access("c", id)
P(id)    == Access("p", id)
Q(id)    == Access("q", id)

Declared == <<Declaration("p", <<>>), Declaration("p", <<Q(1)>>),
              Seq_(<<Assignment("q", <<Bool(2)>>), Declaration("p", <<>>)>>)>>

Middle == <<Nothing, Assignment("p", <<Q(10)>>), If(Bool(3), Throw),
            If(Bool(3), Assignment("p", <<Bool(4)>>)),
            Conditional(Bool(3), Assignment("p", <<>>), Return(<<>>)),
            Short(Bool(3), Assignment("p", <<>>)),
            While(Bool(3), Seq_(<<P(5), Assignment("p", <<>>), If(Bool(6), Break)>>)),
            DoWhile(Bool(3), Seq_(<<If(Bool(6), Continue), Assignment("p", <<>>), If(Bool(5), Break)>>)),
            For(Bool(3), P(5), Seq_(<<If(Bool(6), Assignment("p", <<>>)), Continue>>)),
            For(Bool(3), P(5), Seq_(<<Assignment("p", <<>>), Break>>)),
            Require(Bool(3)), Seq_(<<Throw, P(5)>>),
            While(Bool(3), Seq_(<<Declaration("p", <<>>), Assembly("p", 5), Throw>>)),
            Seq_(<<Assignment("p", <<P(21)>>), If(Bool(3), Assignment("q", <<Q(22)>>))>>)>>

End == <<P(9), Seq_(<<If(Bool(7), P(8)), Assignment("p", <<>>), P(9)>>),
         Seq_(<<Return(<<Q(13)>>), P(9)>>), Seq_(<<Require(P(8)), Return(<<>>)>>),
         Seq_(<<P(8), Throw>>)>>

Asleep == Seq_(<<If(Bool(20), Nothing)>>)

Body_(i, j, k) == Seq_(<<Declared[i], Middle[j], End[k]>>)

Once  == Seq_(<<Require(Bool(11)), Placeholder, If(Bool(12), Return(<<>>))>>)
Maybe == If(Bool(11), Placeholder)

\* The n-th way to take one of each.
I(n) == 1 + (n % 3)
J(n) == 1 + ((n \div 3) % 14)
K(n) == 1 + (n \div 42)

Plain    == [n \in 1..210 |-> Function(<<"c", "q">>, <<>>, <<>>, {"p", "q"},
                                       Body_(I(n - 1), J(n - 1), K(n - 1)))]
Behind   == [n \in 1..14 |-> Function(<<"c", "q">>, <<>>, <<>>, {"p", "q"},
                                      Seq_(<<Asleep, Body_(1, n, 1)>>))]
Yielding == [n \in 1..42 |-> Function(<<"c">>, <<"q">>, <<>>, {"q"},
                                      Seq_(<<Middle[J(n - 1)], End[<<1, 3, 4>>[I(n - 1)]]>>))]
Modified == [n \in 1..42 |-> Function(<<"c", "q">>, <<>>, <<<<Once>>, <<Maybe>>, <<Once, Maybe>>>>[I(n - 1)],
                                      {"p", "q"}, Body_(1, J(n - 1), IF n % 2 = 0 THEN 1 ELSE 3))]

Functions == Plain \o Behind \o Yielding \o Modified
Measured(f) == Graph(f) @@ [expected |-> Uninitialized(f), own |-> Own(f), ran |-> Executed(f)]
MCFlows     == {Measured(Functions[n]) : n \in DOMAIN Functions}

(* A reported access is one: some execution that returns makes it before   *)
(* the pointer is assigned.  Code reported as unreachable is in none.      *)
AlarmsReal ==
    /\ reports.uninitialized \subseteq flow.expected
    /\ reports.unreachable \cap flow.ran = {}

\* Nodes from the entry that the first search never takes out of its set.
Asleep_ == seen["forward"] \ seen["access"]

(* An access to an unassigned pointer is missed for two reasons only: it   *)
(* is made in an assignment to that pointer, of which the builder records  *)
(* the left hand side first; or the pointer is left unassigned, or read so,*)
(* by a node that the first search never comes to.                         *)
MissedOnlyAsleep ==
    stage = "done" =>
        \A o \in flow.expected \ reports.uninitialized :
            \/ o \in flow.own
            \/ \E n \in Asleep_ : o.var \in flow.gen[n] \/ o \in flow.always[n]

(* "Walk all paths ... until all paths have been walked": every access to  *)
(* an unassigned pointer on a path to the exit is reported, those in an    *)
(* assignment to the pointer apart.                                        *)
AllPathsWalked == stage = "done" => flow.expected \ flow.own \subseteq reports.uninitialized
=============================================================================
