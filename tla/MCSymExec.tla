----------------------------- MODULE MCSymExec ------------------------------
(* The executor, next to one input, on the functions of MCContract.        *)
EXTENDS SymExecRun, MCContract

\* The functions of MCFollowed, but for total, call nothing recursively.
MCRepeated == {"t1", "m1", "m3", "n1", "n2", "n3", "n4", "n5", "k1", "k3", "o1",
               "o2", "o5", "h1", "h2", "g1", "g3", "g5"}
MCHeight == [s \in MCStmt |->
               CASE s \in MCRepeated -> 40
                 [] s \in {"c1", "c2"} -> 20
                 [] s = "s2" -> 3
                 [] s \in {"s9", "f1"} -> 2
                 [] s \in {"b1", "b3", "b8", "s5", "s7", "s11", "s13", "f4",
                           "p1", "r2"} -> 1
                 [] OTHER -> 0]
MCLevel  == [f \in MCFuncs |->
               CASE f \in {"find", "pay"} -> 10
                 [] f \in {"bid", "scan", "settle", "raise"} -> 30
                 [] OTHER -> 50]

ASSUME MCNoRecursion ==
    \A f \in MCFollowed \ {"total"} : Falls(f, MCHeight, MCLevel)
=============================================================================
