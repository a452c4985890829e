------------------------- MODULE SymExecRun_proofs --------------------------
(***************************************************************************)
(* The refinement of SymExecRun, for every contract, every set of inputs   *)
(* and every bound: a path is, for the input in question, the run of       *)
(* SolidityRun.                                                            *)
(***************************************************************************)
EXTENDS SymExecRun, SymExec_proofs

(***************************************************************************)
(* Continuations without recursion: what is to be done before the end of a *)
(* call of g belongs to g, and what is to be done before the mark of a     *)
(* loop belongs to the loop.  The heights of statements and the levels of  *)
(* functions say so.                                                       *)
(***************************************************************************)
Lower(height, k, i, s) ==
    \/ height[k[i].n] < height[s]
    \/ /\ k[i].n = s
       /\ k[i].t = "stmt" => i < Len(k) /\ k[i + 1].t = "brk" /\ k[i + 1].n = s

Ordered(height, level, k) ==
    \A i \in 1..Len(k) :
        /\ k[i].t = "ret" => Ast[k[i].n].op = "call"
        /\ \A j \in (i + 1)..Len(k) :
              /\ k[j].t = "ret" => height[k[i].n] < level[Callee(k[j])]
              /\ k[j].t = "brk" => Lower(height, k, i, k[j].n)

Under(height, k, bound) == \A i \in 1..Len(k) : height[k[i].n] < bound

Stacked(height, level, k) ==
    Ordered(height, level, k) /\ Under(height, k, level[entry])

\* The items that take the place of statement s.
Low(height, level, items, s) ==
    /\ Ordered(height, level, items)
    /\ \A i \in 1..Len(items) : Lower(height, items, i, s)

LEMMA ItemType ==
    ASSUME NEW k \in Seq(Item), NEW i \in 1..Len(k)
    PROVE  k[i].n \in Stmt /\ (k[i].t = "ret" => k[i].up \in Funcs)
<1>1. k[i] \in Item
  OBVIOUS
<1> QED
  BY <1>1 DEF Item

LEMMA CalleeType ==
    ASSUME NEW k \in Seq(Item), NEW i \in 1..Len(k), k[i].t = "ret",
           Ast[k[i].n].op = "call"
    PROVE  Callee(k[i]) \in Funcs /\ Callee(k[i]) = Ast[k[i].n].f
  BY ItemType, WellFormed DEF Callee

LEMMA StackedTail ==
    ASSUME NEW height, NEW level, NEW k \in Seq(Item), k # <<>>,
           Stacked(height, level, k)
    PROVE  Stacked(height, level, Tail(k))
<1> DEFINE t == Tail(k)
<1>1. /\ Len(k) = 1 + Len(t) /\ Len(t) \in Nat
      /\ \A j \in 1..Len(t) : k[j + 1] = t[j]
  BY SuffixTail DEF Suffix
<1> HIDE DEF t
<1>2. \A j \in 1..Len(t) : j + 1 \in 1..Len(k)
  BY <1>1
<1>3. Under(height, t, level[entry])
  BY <1>1, <1>2 DEF Stacked, Under
<1>4. ASSUME NEW i \in 1..Len(t), NEW s, Lower(height, k, i + 1, s)
      PROVE  Lower(height, t, i, s)
  <2>1. i + 1 < Len(k) => i < Len(t) /\ i + 1 \in 1..Len(t) /\ t[i + 1] = k[(i + 1) + 1]
    BY <1>1
  <2> QED
    BY <1>1, <1>4, <2>1 DEF Lower
<1>5. ASSUME NEW i \in 1..Len(t)
      PROVE  /\ t[i].t = "ret" => Ast[t[i].n].op = "call"
             /\ \A j \in (i + 1)..Len(t) :
                   /\ t[j].t = "ret" => height[t[i].n] < level[Callee(t[j])]
                   /\ t[j].t = "brk" => Lower(height, t, i, t[j].n)
  <2>1. i + 1 \in 1..Len(k) /\ k[i + 1] = t[i]
    BY <1>1, <1>2
  <2>2. /\ k[i + 1].t = "ret" => Ast[k[i + 1].n].op = "call"
        /\ \A j \in ((i + 1) + 1)..Len(k) :
              /\ k[j].t = "ret" => height[k[i + 1].n] < level[Callee(k[j])]
              /\ k[j].t = "brk" => Lower(height, k, i + 1, k[j].n)
    BY <2>1 DEF Stacked, Ordered
  <2>3. ASSUME NEW j \in (i + 1)..Len(t)
        PROVE  /\ t[j].t = "ret" => height[t[i].n] < level[Callee(t[j])]
               /\ t[j].t = "brk" => Lower(height, t, i, t[j].n)
    <3>1. j + 1 \in ((i + 1) + 1)..Len(k) /\ k[j + 1] = t[j]
      BY <1>1
    <3> QED
      BY <1>4, <2>1, <2>2, <3>1
  <2> QED
    BY <2>1, <2>2, <2>3
<1> QED
  BY <1>3, <1>5 DEF Stacked, Ordered, t

LEMMA StackedPush ==
    ASSUME NEW height \in [Stmt -> Nat], NEW level \in [Funcs -> Nat],
           entry \in Funcs,
           NEW k \in Seq(Item), k # <<>>, Stacked(height, level, k),
           NEW items \in Seq(Item), Low(height, level, items, Head(k).n)
    PROVE  Stacked(height, level, items \o Tail(k))
<1> DEFINE t == Tail(k)
           u == items \o t
           m == Len(items)
           s == Head(k).n
<1>1. /\ Len(k) = 1 + Len(t) /\ Len(t) \in Nat /\ t \in Seq(Item)
      /\ \A j \in 1..Len(t) : k[j + 1] = t[j]
      /\ Head(k) = k[1] /\ 1 \in 1..Len(k)
  BY SuffixTail DEF Suffix
<1>2. Stacked(height, level, t)
  BY StackedTail
<1>3. /\ Len(u) = m + Len(t) /\ m \in Nat /\ u \in Seq(Item)
      /\ \A j \in 1..Len(t) : u[j + m] = t[j]
      /\ \A j \in 1..m : u[j] = items[j]
  BY <1>1, SuffixConcat DEF Suffix
<1> HIDE DEF t, u, m
<1>4. \A i \in 1..Len(u) : i \in 1..m \/ (i - m \in 1..Len(t) /\ u[i] = t[i - m])
  <2> SUFFICES ASSUME NEW i \in 1..Len(u), i \notin 1..m
               PROVE  i - m \in 1..Len(t) /\ u[i] = t[i - m]
    OBVIOUS
  <2>1. i - m \in 1..Len(t) /\ (i - m) + m = i
    BY <1>1, <1>3
  <2> QED
    BY <1>3, <2>1
<1>5. /\ height[s] \in Nat
      /\ \A i \in 1..m : height[items[i].n] \in Nat /\ height[items[i].n] <= height[s]
  <2> SUFFICES ASSUME NEW i \in 1..m
               PROVE  height[items[i].n] \in Nat /\ height[items[i].n] <= height[s]
    BY <1>1, ItemType
  <2>1. height[items[i].n] \in Nat /\ height[s] \in Nat
    BY <1>1, ItemType DEF m
  <2>2. Lower(height, items, i, s)
    BY DEF Low, m
  <2> QED
    BY <2>1, <2>2 DEF Lower
<1>6. /\ height[s] < level[entry]
      /\ \A j \in 1..Len(t) :
             /\ t[j].t = "ret" => height[s] < level[Callee(t[j])]
             /\ t[j].t = "brk" => height[s] < height[t[j].n] \/ s = t[j].n
  <2>1. \A j \in 1..Len(t) : j + 1 \in (1 + 1)..Len(k)
    BY <1>1
  <2> QED
    BY <1>1, <2>1 DEF Stacked, Ordered, Under, Lower
<1>7. Under(height, u, level[entry])
  <2> SUFFICES ASSUME NEW i \in 1..Len(u) PROVE height[u[i].n] < level[entry]
    BY DEF Under
  <2>1. CASE i \in 1..m
    BY <1>3, <1>5, <1>6, <2>1
  <2>2. CASE i - m \in 1..Len(t) /\ u[i] = t[i - m]
    BY <1>2, <2>2 DEF Stacked, Under
  <2> QED
    BY <1>4, <2>1, <2>2
<1>8. ASSUME NEW i \in 1..m, NEW x, Lower(height, items, i, x)
      PROVE  Lower(height, u, i, x)
  <2>1. i < m => i + 1 \in 1..m /\ i < Len(u)
    BY <1>1, <1>3
  <2> QED
    BY <1>3, <1>8, <2>1 DEF Lower, m
<1>9. ASSUME NEW i \in 1..Len(t), NEW x, Lower(height, t, i, x)
      PROVE  Lower(height, u, i + m, x)
  <2>1. i \in Int /\ m \in Int /\ Len(t) \in Int /\ Len(u) = m + Len(t)
    BY <1>1, <1>3
  <2>2. i < Len(t) => i + m < Len(u) /\ (i + 1) + m = (i + m) + 1
    BY <2>1
  <2>3. i < Len(t) => i + 1 \in 1..Len(t)
    BY <2>1
  <2> QED
    BY <1>3, <1>9, <2>2, <2>3 DEF Lower
<1>10. ASSUME NEW i \in 1..m, NEW j \in (i + 1)..Len(u)
       PROVE  /\ u[j].t = "ret" => height[u[i].n] < level[Callee(u[j])]
              /\ u[j].t = "brk" => Lower(height, u, i, u[j].n)
  <2>1. CASE j \in 1..m
    <3>1. j \in (i + 1)..Len(items)
      BY <1>3, <2>1 DEF m
    <3> QED
      BY <1>3, <1>8, <2>1, <3>1 DEF Low, Ordered, m
  <2>2. CASE j - m \in 1..Len(t) /\ u[j] = t[j - m]
    <3> DEFINE l == j - m
    <3>1. ASSUME u[j].t = "ret" PROVE height[u[i].n] < level[Callee(u[j])]
      <4>1. Ast[t[l].n].op = "call"
        BY <1>2, <2>2, <3>1 DEF Stacked, Ordered
      <4>2. level[Callee(t[l])] \in Nat
        BY <1>1, <2>2, <3>1, <4>1, CalleeType
      <4>3. height[s] < level[Callee(t[l])]
        BY <1>6, <2>2, <3>1
      <4>4. height[items[i].n] < level[Callee(t[l])]
        BY <1>5, <4>2, <4>3
      <4> QED
        BY <1>3, <2>2, <4>4
    <3>2. ASSUME u[j].t = "brk" PROVE Lower(height, u, i, u[j].n)
      <4>1. height[t[l].n] \in Nat
        BY <1>1, <2>2, ItemType
      <4>2. CASE height[s] < height[t[l].n]
        BY <1>3, <1>5, <2>2, <4>1, <4>2 DEF Lower
      <4>3. CASE s = t[l].n
        <5>1. Lower(height, items, i, s)
          BY DEF Low, m
        <5> QED
          BY <1>8, <2>2, <4>3, <5>1
      <4> QED
        BY <1>6, <2>2, <3>2, <4>2, <4>3
    <3> QED
      BY <3>1, <3>2
  <2> QED
    BY <1>3, <1>4, <2>1, <2>2
<1>11. ASSUME NEW i \in 1..Len(t), NEW j \in ((i + m) + 1)..Len(u)
       PROVE  /\ u[j].t = "ret" => height[u[i + m].n] < level[Callee(u[j])]
              /\ u[j].t = "brk" => Lower(height, u, i + m, u[j].n)
  <2>1. j - m \in (i + 1)..Len(t) /\ j - m \in 1..Len(t) /\ (j - m) + m = j
    BY <1>1, <1>3
  <2>2. u[j] = t[j - m] /\ u[i + m] = t[i]
    BY <1>3, <2>1
  <2>3. /\ t[j - m].t = "ret" => height[t[i].n] < level[Callee(t[j - m])]
        /\ t[j - m].t = "brk" => Lower(height, t, i, t[j - m].n)
    BY <1>2, <2>1 DEF Stacked, Ordered
  <2> QED
    BY <1>9, <2>2, <2>3
<1>12. \A i \in 1..Len(u) : u[i].t = "ret" => Ast[u[i].n].op = "call"
  <2> SUFFICES ASSUME NEW i \in 1..Len(u), u[i].t = "ret"
               PROVE  Ast[u[i].n].op = "call"
    OBVIOUS
  <2>1. CASE i \in 1..m
    BY <1>3, <2>1 DEF Low, Ordered, m
  <2>2. CASE i - m \in 1..Len(t) /\ u[i] = t[i - m]
    BY <1>2, <2>2 DEF Stacked, Ordered
  <2> QED
    BY <1>4, <2>1, <2>2
<1>13. ASSUME NEW i \in 1..Len(u), NEW j \in (i + 1)..Len(u)
       PROVE  /\ u[j].t = "ret" => height[u[i].n] < level[Callee(u[j])]
              /\ u[j].t = "brk" => Lower(height, u, i, u[j].n)
  <2>1. CASE i \in 1..m
    BY <1>10, <2>1
  <2>2. CASE i - m \in 1..Len(t)
    <3>1. (i - m) + m = i
      BY <1>3
    <3> QED
      BY <1>11, <2>2, <3>1
  <2> QED
    BY <1>4, <2>1, <2>2
<1> QED
  BY <1>7, <1>12, <1>13 DEF Stacked, Ordered, u, t

\* Items without marks, in front of items that stand for s.
Plain(height, b, s) ==
    \A i \in 1..Len(b) : \/ b[i].t = "stmt" /\ height[b[i].n] < height[s]
                         \/ b[i].t = "cont" /\ b[i].n = s
Behind(height, level, b, items, s) ==
    \A j \in 1..Len(items) :
        /\ items[j].t = "ret" =>
               \A i \in 1..Len(b) : height[b[i].n] < level[Callee(items[j])]
        /\ items[j].t = "brk" => items[j].n = s
MarksOf(u, items) ==
    \A j \in 1..Len(u) :
        u[j].t \in {"ret", "brk"} => \E l \in 1..Len(items) : u[j] = items[l]

LEMMA LowFront ==
    ASSUME NEW height, NEW level, NEW s, NEW items \in Seq(Item), NEW b \in Seq(Item),
           Low(height, level, items, s), Plain(height, b, s),
           Behind(height, level, b, items, s)
    PROVE  Low(height, level, Cat(b, items), s) /\ MarksOf(Cat(b, items), items)
<1> DEFINE u == Cat(b, items)
           m == Len(b)
<1>1. m \in Nat
  OBVIOUS
<1>2. /\ Len(u) = m + Len(items) /\ Len(items) \in Nat
      /\ \A j \in 1..Len(items) : u[j + m] = items[j]
      /\ \A j \in 1..m : u[j] = b[j]
  BY <1>1, SuffixConcat DEF Suffix, Cat
<1> HIDE DEF u
<1>3. \A i \in 1..Len(u) : i \in 1..m \/ (i - m \in 1..Len(items) /\ u[i] = items[i - m])
  <2> SUFFICES ASSUME NEW i \in 1..Len(u), i \notin 1..m
               PROVE  i - m \in 1..Len(items) /\ u[i] = items[i - m]
    OBVIOUS
  <2>1. i - m \in 1..Len(items) /\ (i - m) + m = i
    BY <1>1, <1>2
  <2> QED
    BY <1>2, <2>1
<1>4. \A i \in 1..m : u[i].t \notin {"ret", "brk"}
  BY <1>2 DEF Plain
<1>5. ASSUME NEW i \in 1..Len(items), NEW x, Lower(height, items, i, x)
      PROVE  Lower(height, u, i + m, x)
  <2>1. i \in Int /\ m \in Int /\ Len(items) \in Int /\ Len(u) = m + Len(items)
    BY <1>1, <1>2
  <2>2. i < Len(items) => i + m < Len(u) /\ (i + 1) + m = (i + m) + 1
    BY <2>1
  <2>3. i < Len(items) => i + 1 \in 1..Len(items)
    BY <2>1
  <2> QED
    BY <1>2, <1>5, <2>2, <2>3 DEF Lower
<1>6. \A i \in 1..m : Lower(height, u, i, s)
  BY <1>2 DEF Lower, Plain
<1>7. \A i \in 1..Len(u) : Lower(height, u, i, s)
  <2> SUFFICES ASSUME NEW i \in 1..Len(u), i \notin 1..m PROVE Lower(height, u, i, s)
    BY <1>6
  <2>1. i - m \in 1..Len(items) /\ (i - m) + m = i
    BY <1>1, <1>3
  <2> QED
    BY <1>5, <2>1 DEF Low
<1>8. \A i \in 1..Len(u) : u[i].t = "ret" => Ast[u[i].n].op = "call"
  <2> SUFFICES ASSUME NEW i \in 1..Len(u), u[i].t = "ret"
               PROVE  Ast[u[i].n].op = "call"
    OBVIOUS
  <2>1. i - m \in 1..Len(items) /\ u[i] = items[i - m]
    BY <1>3, <1>4
  <2> QED
    BY <2>1 DEF Low, Ordered
<1>9. ASSUME NEW i \in 1..m, NEW j \in (i + 1)..Len(u)
      PROVE  /\ u[j].t = "ret" => height[u[i].n] < level[Callee(u[j])]
             /\ u[j].t = "brk" => Lower(height, u, i, u[j].n)
  <2>1. CASE j \in 1..m
    BY <1>4, <2>1
  <2>2. CASE j - m \in 1..Len(items) /\ u[j] = items[j - m]
    <3>1. ASSUME u[j].t = "ret" PROVE height[u[i].n] < level[Callee(u[j])]
      BY <1>2, <2>2, <3>1 DEF Behind
    <3>2. ASSUME u[j].t = "brk" PROVE Lower(height, u, i, u[j].n)
      BY <1>6, <2>2, <3>2 DEF Behind
    <3> QED
      BY <3>1, <3>2
  <2> QED
    BY <1>1, <1>2, <1>3, <2>1, <2>2
<1>10. ASSUME NEW i \in 1..Len(items), NEW j \in ((i + m) + 1)..Len(u)
       PROVE  /\ u[j].t = "ret" => height[u[i + m].n] < level[Callee(u[j])]
              /\ u[j].t = "brk" => Lower(height, u, i + m, u[j].n)
  <2>1. j - m \in (i + 1)..Len(items) /\ j - m \in 1..Len(items) /\ (j - m) + m = j
    BY <1>1, <1>2
  <2>2. u[j] = items[j - m] /\ u[i + m] = items[i]
    BY <1>2, <2>1
  <2>3. /\ items[j - m].t = "ret" => height[items[i].n] < level[Callee(items[j - m])]
        /\ items[j - m].t = "brk" => Lower(height, items, i, items[j - m].n)
    BY <2>1 DEF Low, Ordered
  <2> QED
    BY <1>5, <2>2, <2>3
<1>11. ASSUME NEW i \in 1..Len(u), NEW j \in (i + 1)..Len(u)
       PROVE  /\ u[j].t = "ret" => height[u[i].n] < level[Callee(u[j])]
              /\ u[j].t = "brk" => Lower(height, u, i, u[j].n)
  <2>1. CASE i \in 1..m
    BY <1>9, <2>1
  <2>2. CASE i - m \in 1..Len(items)
    <3>1. (i - m) + m = i
      BY <1>1
    <3> QED
      BY <1>10, <2>2, <3>1
  <2> QED
    BY <1>3, <2>1, <2>2
<1>12. Low(height, level, u, s)
  BY <1>7, <1>8, <1>11 DEF Low, Ordered
<1>13. MarksOf(u, items)
  BY <1>3, <1>4 DEF MarksOf
<1> QED
  BY <1>12, <1>13 DEF u

Below(height, block, bound) == \A j \in DOMAIN block : height[block[j]] < bound

LEMMA StmtsItems ==
    ASSUME NEW block \in Seq(Stmt)
    PROVE  /\ Stmts(block) \in Seq(Item) /\ Len(Stmts(block)) = Len(block)
           /\ \A j \in 1..Len(Stmts(block)) :
                  /\ j \in DOMAIN block
                  /\ Stmts(block)[j].t = "stmt" /\ Stmts(block)[j].n = block[j]
<1> DEFINE b == Stmts(block)
<1>1. b \in Seq(Item)
  BY StmtsType
<1>2. DOMAIN b = DOMAIN block /\ \A j \in DOMAIN block : b[j].t = "stmt" /\ b[j].n = block[j]
  BY DEF Stmts
<1>3. DOMAIN block = 1..Len(block) /\ Len(block) \in Nat
  OBVIOUS
<1> HIDE DEF b
<1>4. DOMAIN b = 1..Len(b) /\ Len(b) \in Nat
  BY <1>1
<1>5. Len(b) = Len(block)
  BY <1>2, <1>3, <1>4
<1>6. \A j \in 1..Len(b) : j \in DOMAIN block /\ b[j].t = "stmt" /\ b[j].n = block[j]
  BY <1>2, <1>3, <1>5
<1> QED
  BY <1>1, <1>5, <1>6 DEF b

\* The branch of an if statement.
LEMMA LowBlock ==
    ASSUME NEW height, NEW level, NEW s, NEW block \in Seq(Stmt),
           Below(height, block, height[s])
    PROVE  Stmts(block) \in Seq(Item) /\ Low(height, level, Stmts(block), s)
  BY StmtsItems DEF Low, Ordered, Lower, Below

\* The body of a loop, its steps and its next iteration.
LEMMA LowLoop ==
    ASSUME NEW height, NEW level, NEW s \in Stmt,
           NEW body \in Seq(Stmt), Below(height, body, height[s]),
           NEW after \in Seq(Stmt), Below(height, after, height[s]),
           NEW items,
           items = Stmts(body) \o Cont(s) \o Stmts(after) \o Stmts(<<s>>) \o Brk(s)
    PROVE  items \in Seq(Item) /\ Low(height, level, items, s)
<1> DEFINE a == Stmts(body)
           b == Cont(s)
           c == Stmts(after)
           d == Stmts(<<s>>)
           e == Brk(s)
           last == Cat(d, e)
           steps == Cat(c, last)
           rest == Cat(b, steps)
<1>1. /\ a \in Seq(Item) /\ b \in Seq(Item) /\ c \in Seq(Item)
      /\ d \in Seq(Item) /\ e \in Seq(Item) /\ <<>> \in Seq(Item)
  BY StmtsType, MarkType
<1>2. /\ Len(e) = 1 /\ e[1].t = "brk" /\ e[1].n = s
      /\ Len(b) = 1 /\ b[1].t = "cont" /\ b[1].n = s
  BY DEF Brk, Cont
<1>3. Len(d) = 1 /\ d[1].t = "stmt" /\ d[1].n = s
  BY DEF Stmts
<1> HIDE DEF a, b, c, d, e
<1>4. last \in Seq(Item) /\ steps \in Seq(Item) /\ rest \in Seq(Item)
  BY <1>1, CatLaws DEF Conts
<1>5. Len(last) = 2 /\ last[1] = d[1] /\ last[2] = e[1]
  <2>1. /\ Len(last) = Len(d) + Len(e) /\ \A j \in 1..Len(e) : last[j + Len(d)] = e[j]
        /\ \A j \in 1..Len(d) : last[j] = d[j]
    BY <1>1, SuffixConcat DEF Suffix, Cat
  <2> HIDE DEF last
  <2>2. Len(last) = 2 /\ 1 \in 1..Len(d) /\ 1 \in 1..Len(e) /\ 1 + Len(d) = 2
    BY <1>2, <1>3, <2>1
  <2>3. last[1 + Len(d)] = e[1] /\ last[1] = d[1]
    BY <2>1, <2>2
  <2> QED
    BY <2>2, <2>3
<1> HIDE DEF last
<1>6. Low(height, level, last, s)
  BY <1>2, <1>3, <1>5 DEF Low, Ordered, Lower
<1>7. \A j \in 1..Len(last) : last[j].t # "ret" /\ (last[j].t = "brk" => last[j].n = s)
  BY <1>2, <1>3, <1>5
<1>8. Plain(height, c, s) /\ Behind(height, level, c, last, s)
  BY <1>7, StmtsItems DEF Below, Plain, Behind, c
<1>9. Low(height, level, steps, s) /\ MarksOf(steps, last)
  BY <1>1, <1>4, <1>6, <1>8, LowFront
<1> HIDE DEF steps
<1>10. \A j \in 1..Len(steps) : steps[j].t # "ret" /\ (steps[j].t = "brk" => steps[j].n = s)
  BY <1>7, <1>9 DEF MarksOf
<1>11. Plain(height, b, s) /\ Behind(height, level, b, steps, s)
  BY <1>2, <1>10 DEF Plain, Behind
<1>12. Low(height, level, rest, s) /\ MarksOf(rest, steps)
  BY <1>1, <1>4, <1>9, <1>11, LowFront
<1> HIDE DEF rest
<1>13. Plain(height, a, s) /\ Behind(height, level, a, rest, s)
  <2>1. Plain(height, a, s)
    BY StmtsItems DEF Below, Plain, a
  <2>2. \A j \in 1..Len(rest) : rest[j].t # "ret" /\ (rest[j].t = "brk" => rest[j].n = s)
    BY <1>10, <1>12 DEF MarksOf
  <2> QED
    BY <2>1, <2>2 DEF Behind
<1>14. Low(height, level, Cat(a, rest), s)
  BY <1>1, <1>4, <1>12, <1>13, LowFront
<1>15. items = Cat(a, rest)
  <2>1. Cat(Cat(Cat(Cat(Cat(a, b), c), d), e), <<>>)
            = Cat(a, Cat(b, Cat(c, Cat(d, Cat(e, <<>>)))))
    <3>1. /\ a \in Conts /\ b \in Conts /\ c \in Conts
          /\ d \in Conts /\ e \in Conts /\ <<>> \in Conts
      BY <1>1 DEF Conts
    <3> QED
      BY <3>1, Regroup
  <2>2. \A x \in Seq(Item) : Cat(x, <<>>) = x
    BY ConcatEmptySeq DEF Cat
  <2>3. Cat(Cat(Cat(Cat(a, b), c), d), e) \in Seq(Item)
    BY <1>1, CatLaws DEF Conts
  <2>4. Cat(Cat(Cat(Cat(a, b), c), d), e) = Cat(a, Cat(b, Cat(c, Cat(d, e))))
    BY <1>1, <2>1, <2>2, <2>3
  <2>5. items = Cat(Cat(Cat(Cat(a, b), c), d), e)
    BY DEF Cat, a, b, c, d, e
  <2> QED
    BY <2>4, <2>5 DEF rest, steps, last
<1>16. Cat(a, rest) \in Seq(Item)
  BY <1>1, <1>4, CatLaws DEF Conts
<1> QED
  BY <1>14, <1>15, <1>16

\* The body of the callee and the epilogue of the call.
LEMMA LowCall ==
    ASSUME NEW height \in [Stmt -> Nat], NEW level \in [Funcs -> Nat],
           NEW s \in Stmt, Ast[s].op = "call", level[Ast[s].f] < height[s],
           NEW body \in Seq(Stmt), Below(height, body, level[Ast[s].f]),
           NEW g \in Funcs
    PROVE  /\ Stmts(body) \o Ret(s, g) \in Seq(Item)
           /\ Low(height, level, Stmts(body) \o Ret(s, g), s)
<1> DEFINE a == Stmts(body)
           e == Ret(s, g)
<1>1. a \in Seq(Item) /\ e \in Seq(Item)
  BY StmtsType, MarkType
<1>2. Len(e) = 1 /\ e[1].t = "ret" /\ e[1].n = s
  BY DEF Ret
<1>3. level[Ast[s].f] \in Nat /\ height[s] \in Nat
  BY WellFormed
<1>4. Below(height, body, height[s])
  <2> SUFFICES ASSUME NEW j \in DOMAIN body PROVE height[body[j]] < height[s]
    BY DEF Below
  <2>1. height[body[j]] \in Nat /\ height[body[j]] < level[Ast[s].f]
    BY DEF Below
  <2> QED
    BY <1>3, <2>1
<1>5. Plain(height, a, s)
  BY <1>4, StmtsItems DEF Below, Plain
<1>6. Behind(height, level, a, e, s)
  <2>1. Callee(e[1]) = Ast[s].f
    BY <1>2 DEF Callee
  <2>2. \A i \in 1..Len(a) : height[a[i].n] < level[Ast[s].f]
    BY StmtsItems DEF Below
  <2> HIDE DEF a, e
  <2> QED
    BY <1>2, <2>1, <2>2 DEF Behind
<1>7. Low(height, level, e, s)
  <2> HIDE DEF e
  <2> QED
    BY <1>2 DEF Low, Ordered, Lower
<1> HIDE DEF a, e
<1>8. Low(height, level, Cat(a, e), s)
  BY <1>1, <1>5, <1>6, <1>7, LowFront
<1>9. Cat(a, e) \in Seq(Item)
  BY <1>1, CatLaws DEF Conts
<1> QED
  BY <1>8, <1>9 DEF Cat, a, e

(***************************************************************************)
(* Without recursion no function is active twice, so every variable that a *)
(* path or a run touches is that of the first activation.                  *)
(***************************************************************************)
LEMMA OneCall ==
    ASSUME NEW height \in [Stmt -> Nat], NEW level \in [Funcs -> Nat],
           entry \in Funcs, NEW k \in Seq(Item), Stacked(height, level, k),
           NEW f \in Funcs,
           \A j \in 1..Len(k) : k[j].t = "ret" =>
               level[Ast[k[j].n].f] < height[k[j].n]
    PROVE  /\ \A i, j \in Of(k, f) : i = j
           /\ f = entry => Of(k, f) = {}
<1>1. DOMAIN k = 1..Len(k) /\ Len(k) \in Nat
  OBVIOUS
<1>2. ASSUME NEW i \in Of(k, f)
      PROVE  /\ i \in 1..Len(k) /\ level[f] < height[k[i].n]
             /\ level[f] \in Nat /\ height[k[i].n] \in Nat
  <2>1. i \in 1..Len(k) /\ k[i].t = "ret" /\ Callee(k[i]) = f
    BY <1>1, <1>2 DEF Of
  <2>2. Ast[k[i].n].f = f
    BY <2>1 DEF Callee
  <2> QED
    BY <2>1, <2>2, ItemType
<1>3. ASSUME NEW i \in Of(k, f), NEW j \in Of(k, f), i < j
      PROVE  FALSE
  <2>1. i \in 1..Len(k) /\ j \in (i + 1)..Len(k)
    BY <1>2, <1>3
  <2>2. k[j].t = "ret" /\ Callee(k[j]) = f
    BY DEF Of
  <2>3. height[k[i].n] < level[f]
    BY <2>1, <2>2 DEF Stacked, Ordered
  <2> QED
    BY <1>2, <2>3
<1>4. ASSUME NEW i \in Of(k, f), f = entry
      PROVE  FALSE
  <2>1. height[k[i].n] < level[f]
    BY <1>2, <1>4 DEF Stacked, Under
  <2> QED
    BY <1>2, <2>1
<1>5. \A i, j \in Of(k, f) : i = j
  <2> SUFFICES ASSUME NEW i \in Of(k, f), NEW j \in Of(k, f) PROVE i = j
    OBVIOUS
  <2>1. i \in Int /\ j \in Int
    BY <1>2
  <2>2. ~(i < j) /\ ~(j < i)
    BY <1>3
  <2> QED
    BY <2>1, <2>2
<1> QED
  BY <1>4, <1>5

LEMMA Small ==
    ASSUME NEW S, \A x, y \in S : x = y
    PROVE  Cardinality(S) = IF S = {} THEN 0 ELSE 1
<1>1. CASE S = {}
  BY <1>1, FS_EmptySet
<1>2. CASE S # {}
  <2>1. PICK x : x \in S
    BY <1>2
  <2>2. S = {x}
    BY <2>1
  <2> QED
    BY <1>2, <2>2, FS_Singleton
<1> QED
  BY <1>1, <1>2

\* What the heights say of the call statements of a continuation.
LEMMA CallsFall ==
    ASSUME NEW height \in [Stmt -> Nat], NEW level \in [Funcs -> Nat],
           Falls(entry, height, level), NEW k \in Seq(Item),
           Stacked(height, level, k), NEW i \in 1..Len(k), Ast[k[i].n].op = "call"
    PROVE  Ast[k[i].n].f \in Funcs /\ level[Ast[k[i].n].f] < height[k[i].n]
<1>1. k[i].n \in Stmt
  BY ItemType
<1>2. height[k[i].n] < level[entry]
  BY DEF Stacked, Under
<1> QED
  BY <1>1, <1>2, WellFormed DEF Falls

Flat(c) == (\A f \in Funcs : c.depth[f] \in {0, 1}) /\ c.depth[c.scope] = 1
Depths(c) ==
    /\ Flat(c)
    /\ AtMark(c, "ret") =>
          /\ Callee(Head(c.k)) = c.scope /\ Head(c.k).up \in Funcs
          /\ Head(c.k).up # c.scope /\ c.depth[Head(c.k).up] = 1
    /\ AtStmt(c) /\ Node(c).op = "call" => c.depth[Node(c).f] = 0

LEMMA OneDeep ==
    ASSUME NEW height \in [Stmt -> Nat], NEW level \in [Funcs -> Nat],
           entry \in Funcs, Falls(entry, height, level),
           NEW c, ContextOK(c), Framed(c), c.k # <<>>, Stacked(height, level, c.k)
    PROVE  Depths(c)
<1> DEFINE k == c.k
<1>1. /\ k \in Seq(Item) /\ c.scope \in Funcs /\ c.depth \in [Funcs -> Int]
      /\ DOMAIN k = 1..Len(k) /\ Len(k) \in Nat /\ 1 \in 1..Len(k) /\ Head(k) = k[1]
  <2>1. k \in Seq(Item) /\ c.scope \in Funcs /\ c.depth \in [Funcs -> Int]
    BY DEF ContextOK
  <2>2. k # <<>>
    OBVIOUS
  <2> HIDE DEF k
  <2> QED
    BY <2>1, <2>2
<1>2. Owner(k, 1, c.scope) /\ Nested(k)
      /\ \A f \in Funcs : c.depth[f] = Count(k, f) + (IF f = entry THEN 1 ELSE 0)
  BY DEF Framed, Counted, Ended
<1> HIDE DEF k
<1>3. \A j \in 1..Len(k) : k[j].t = "ret" => level[Ast[k[j].n].f] < height[k[j].n]
  <2> SUFFICES ASSUME NEW j \in 1..Len(k), k[j].t = "ret"
               PROVE  level[Ast[k[j].n].f] < height[k[j].n]
    OBVIOUS
  <2>1. Ast[k[j].n].op = "call"
    BY DEF Stacked, Ordered, k
  <2> QED
    BY <1>1, <2>1, CallsFall DEF k
<1>4. \A f \in Funcs : /\ Count(k, f) = IF Of(k, f) = {} THEN 0 ELSE 1
                       /\ \A i, j \in Of(k, f) : i = j
                       /\ f = entry => Of(k, f) = {}
  BY <1>1, <1>3, OneCall, Small DEF Count, k
<1>5. \A f \in Funcs : c.depth[f] \in {0, 1}
  BY <1>2, <1>4
\* Whoever executes an item is active.
<1>6. ASSUME NEW i \in 1..(Len(k) + 1), NEW g \in Funcs, Owner(k, i, g)
      PROVE  g = entry \/ \E j \in i..Len(k) : j \in Of(k, g)
  BY <1>1, <1>6 DEF Owner, Of
<1>7. ASSUME NEW i \in 1..(Len(k) + 1), NEW g \in Funcs, Owner(k, i, g)
      PROVE  c.depth[g] = 1
  BY <1>2, <1>4, <1>6, <1>7
<1>8. c.depth[c.scope] = 1
  BY <1>1, <1>2, <1>7
<1>9. ASSUME AtMark(c, "ret")
      PROVE  /\ Callee(Head(c.k)) = c.scope /\ Head(c.k).up \in Funcs
             /\ Head(c.k).up # c.scope /\ c.depth[Head(c.k).up] = 1
  <2>1. k[1].t = "ret" /\ k[1].up \in Funcs
    BY <1>1, <1>9, ItemType DEF AtMark, k
  <2>2. Callee(k[1]) = c.scope
    BY <1>1, <1>2, <2>1 DEF Owner, Free
  <2>3. Owner(k, 2, k[1].up)
    BY <1>1, <1>2, <2>1 DEF Nested, Placed
  <2>4. 1 \in Of(k, c.scope)
    BY <1>1, <2>1, <2>2 DEF Of
  <2>5. k[1].up # c.scope
    BY <1>1, <1>4, <1>6, <2>1, <2>3, <2>4
  <2>6. c.depth[k[1].up] = 1
    BY <1>1, <1>7, <2>1, <2>3
  <2> QED
    BY <1>1, <2>1, <2>2, <2>5, <2>6 DEF k
<1>10. ASSUME AtStmt(c), Node(c).op = "call"
       PROVE  c.depth[Node(c).f] = 0
  <2> DEFINE f == Ast[k[1].n].f
  <2>1. k[1].t = "stmt" /\ Ast[k[1].n].op = "call" /\ Node(c).f = f
    BY <1>1, <1>10 DEF AtStmt, Node, k
  <2>2. f \in Funcs /\ level[f] < height[k[1].n]
    BY <1>1, <2>1, CallsFall DEF k
  <2>3. k[1].n \in Stmt /\ height[k[1].n] < level[entry]
    BY <1>1, ItemType DEF Stacked, Under, k
  <2>4. height[k[1].n] \in Nat /\ level[f] \in Nat /\ level[entry] \in Nat
    BY <2>2, <2>3
  <2> HIDE DEF f
  <2>5. f # entry
    BY <2>2, <2>3, <2>4
  <2>6. ASSUME NEW j \in Of(k, f) PROVE FALSE
    <3>1. j \in 1..Len(k) /\ k[j].t = "ret" /\ Callee(k[j]) = f
      BY <1>1, <2>6 DEF Of
    <3>2. j \in (1 + 1)..Len(k)
      BY <2>1, <3>1
    <3>3. height[k[1].n] < level[f]
      BY <1>1, <3>1, <3>2 DEF Stacked, Ordered, k
    <3> QED
      BY <2>2, <2>4, <3>3
  <2>7. c.depth[f] = 0
    BY <1>2, <1>4, <2>2, <2>5, <2>6
  <2> QED
    BY <2>1, <2>7
<1> QED
  BY <1>5, <1>8, <1>9, <1>10 DEF Depths, Flat

-----------------------------------------------------------------------------
(* A context at an input.                                                  *)
AlikeBut(c, d, i, changed) ==
    \A key \in Cells \ changed : CellValue(d, key, i) = CellValue(c, key, i)
Rest(c, d) == /\ d.goHead = c.goHead /\ d.code = c.code /\ d.scope = c.scope
              /\ d.depth = c.depth /\ d.decls = c.decls /\ d.k = c.k /\ d.pc = c.pc

LEMMA FirstCell ==
    ASSUME NEW x \in Vars
    PROVE  <<x, 1>> \in Cells
  BY MaxDepthAssumption DEF Cells

LEMMA FirstKey ==
    ASSUME NEW c, Flat(c), NEW x
    PROVE  /\ Key(c, x) = <<x, 1>>
           /\ InState(c, x) <=> x \in StateVars
  BY DEF Flat, Key, InState

\* A fresh constant is what a variable that nobody wrote has been before.
LEMMA TouchView ==
    ASSUME NEW c, ContextOK(c), NEW xs \in SUBSET Vars, NEW i
    PROVE  /\ ContextOK(Touch(c, xs)) /\ Rest(c, Touch(c, xs))
           /\ AlikeBut(c, Touch(c, xs), i, {})
<1> DEFINE new == {Key(c, x) : x \in {y \in xs : ~InState(c, y)}}
           sym == [key \in new |-> Symbol(key)]
           loc == Extend(c.local, sym)
           d   == [c EXCEPT !.local = loc]
<1>1. Touch(c, xs) = d
  BY DEF Touch
<1>2. \A key \in DOMAIN loc : loc[key] = IF key \in DOMAIN c.local THEN c.local[key]
                                         ELSE Symbol(key)
  BY DEF Extend
<1>3. DOMAIN c.local \subseteq DOMAIN loc
  BY DEF Extend
<1> HIDE DEF loc
<1>4. Rest(c, d) /\ d.state = c.state /\ d.local = loc
  BY DEF ContextOK, Fields, Rest
<1> HIDE DEF d
<1>5. AlikeBut(c, d, i, {})
  <2> SUFFICES ASSUME NEW key \in Cells PROVE CellValue(d, key, i) = CellValue(c, key, i)
    BY DEF AlikeBut
  <2> QED
    BY <1>2, <1>3, <1>4 DEF CellValue
<1>6. ContextOK(d)
  BY <1>1, TouchOK
<1> QED
  BY <1>1, <1>4, <1>5, <1>6

LEMMA UpdateView ==
    ASSUME NEW c, ContextOK(c), Flat(c), NEW x \in Vars, NEW v, NEW i
    PROVE  /\ ContextOK(Update(c, x, v)) /\ Rest(c, Update(c, x, v))
           /\ AlikeBut(c, Update(c, x, v), i, {<<x, 1>>})
           /\ CellValue(Update(c, x, v), <<x, 1>>, i) = v[i]
<1> DEFINE d == Update(c, x, v)
<1>1. CASE x \in StateVars
  <2> DEFINE st == [c.state EXCEPT ![x] = v]
  <2>1. d = [c EXCEPT !.state = st]
    BY <1>1, FirstKey DEF Update
  <2>2. st[x] = v /\ \A y \in StateVars : y # x => st[y] = c.state[y]
    BY <1>1 DEF ContextOK
  <2> HIDE DEF st
  <2>3. Rest(c, d) /\ d.state = st /\ d.local = c.local
    BY <2>1 DEF ContextOK, Fields, Rest
  <2>4. \A key \in Cells \ {<<x, 1>>} : key[1] \in StateVars => key[1] # x
    BY DEF Cells
  <2> HIDE DEF d
  <2>5. AlikeBut(c, d, i, {<<x, 1>>})
    BY <2>2, <2>3, <2>4 DEF AlikeBut, CellValue
  <2>6. CellValue(d, <<x, 1>>, i) = v[i]
    BY <1>1, <2>2, <2>3 DEF CellValue
  <2> QED
    BY <2>3, <2>5, <2>6, UpdateOK DEF d
<1>2. CASE x \notin StateVars
  <2> DEFINE loc == Put(c.local, <<x, 1>>, v)
  <2>1. d = [c EXCEPT !.local = loc]
    BY <1>2, FirstKey DEF Update
  <2>2. /\ <<x, 1>> \in DOMAIN loc /\ loc[<<x, 1>>] = v
        /\ \A key : key # <<x, 1>> =>
               /\ key \in DOMAIN loc <=> key \in DOMAIN c.local
               /\ key \in DOMAIN loc => loc[key] = c.local[key]
    BY DEF Put
  <2> HIDE DEF loc
  <2>3. Rest(c, d) /\ d.state = c.state /\ d.local = loc
    BY <2>1 DEF ContextOK, Fields, Rest
  <2> HIDE DEF d
  <2>4. AlikeBut(c, d, i, {<<x, 1>>})
    BY <2>2, <2>3 DEF AlikeBut, CellValue
  <2>5. CellValue(d, <<x, 1>>, i) = v[i]
    BY <1>2, <2>2, <2>3 DEF CellValue
  <2> QED
    BY <2>3, <2>4, <2>5, UpdateOK DEF d
<1> QED
  BY <1>1, <1>2

\* An expression has the same value on both sides.
LEMMA StoreView ==
    ASSUME NEW c, Flat(c), NEW i
    PROVE  Env(c, i) = Concrete!Store(AtInput(c, i))
<1> DEFINE r == AtInput(c, i)
<1>1. r.depth = c.depth /\ r.scope = c.scope
      /\ r.vals = [key \in Cells |-> CellValue(c, key, i)]
  BY DEF AtInput
<1> HIDE DEF r
<1>2. ASSUME NEW x \in Vars
      PROVE  /\ Concrete!Cell(r, x) = <<x, 1>>
             /\ r.vals[<<x, 1>>] = CellValue(c, <<x, 1>>, i)
  BY <1>1, FirstCell DEF Flat, Concrete!Cell
<1>3. ASSUME NEW x \in Vars
      PROVE  Value(c, x)[i] = IF Concrete!Cell(r, x)[2] \in 1..MaxDepth
                              THEN r.vals[Concrete!Cell(r, x)] ELSE 0
  <2>0. 1 \in 1..MaxDepth
    BY MaxDepthAssumption
  <2>1. Concrete!Cell(r, x) = <<x, 1>> /\ <<x, 1>>[2] = 1
    BY <1>2
  <2>2. CellValue(c, <<x, 1>>, i) = Value(c, x)[i]
    BY FirstKey DEF CellValue, Value
  <2> QED
    BY <1>2, <2>0, <2>1, <2>2
<1> QED
  BY <1>3 DEF Env, Concrete!Store, r

\* A run by its fields.
RunNames == {"alive", "vals", "goHead", "code", "scope", "depth", "decls", "k"}
IsRun(r, vals, goHead, code, scope, depth, decls, k) ==
    /\ r.alive = TRUE /\ r.vals = vals /\ r.goHead = goHead /\ r.code = code
    /\ r.scope = scope /\ r.depth = depth /\ r.decls = decls /\ r.k = k
    /\ DOMAIN r = RunNames /\ r = [f \in DOMAIN r |-> r[f]]
Vals(c, i)     == [key \in Cells |-> CellValue(c, key, i)]
Told(decls, i) == [j \in DOMAIN decls |-> [tag |-> decls[j].tag, v |-> decls[j].v[i]]]

LEMMA RunFields ==
    ASSUME NEW c, NEW i
    PROVE  IsRun(AtInput(c, i), Vals(c, i), c.goHead, c.code, c.scope, c.depth,
                 Told(c.decls, i), c.k)
<1> DEFINE v == Vals(c, i)
           e == Told(c.decls, i)
           r == AtInput(c, i)
<1>1. r = [alive |-> TRUE, vals |-> v, goHead |-> c.goHead, code |-> c.code,
           scope |-> c.scope, depth |-> c.depth, decls |-> e, k |-> c.k]
  BY Zenon DEF AtInput, Vals, Told
<1> HIDE DEF v, e, r
<1>2. r.alive = TRUE
  BY <1>1, Zenon
<1>3. IsRun(r, v, c.goHead, c.code, c.scope, c.depth, e, c.k)
  BY <1>1, <1>2 DEF IsRun, RunNames
<1> QED
  BY <1>3 DEF v, e, r

LEMMA SameRun ==
    ASSUME NEW v, NEW g, NEW o, NEW s, NEW d, NEW e, NEW k, NEW r, NEW q,
           IsRun(r, v, g, o, s, d, e, k), IsRun(q, v, g, o, s, d, e, k)
    PROVE  r = q
<1>1. \A f \in RunNames : r[f] = q[f]
  BY DEF RunNames, IsRun
<1>2. r = [f \in RunNames |-> r[f]] /\ q = [f \in RunNames |-> q[f]]
  BY Zenon DEF IsRun
<1>3. [f \in RunNames |-> r[f]] = [f \in RunNames |-> q[f]]
  BY <1>1, Zenon
<1> QED
  BY <1>2, <1>3, Zenon

LEMMA RunExcept ==
    ASSUME NEW v, NEW g, NEW o, NEW s, NEW d, NEW e, NEW k, NEW x, NEW r,
           IsRun(r, v, g, o, s, d, e, k)
    PROVE  /\ IsRun([r EXCEPT !.vals = x], x, g, o, s, d, e, k)
           /\ IsRun([r EXCEPT !.goHead = x], v, x, o, s, d, e, k)
           /\ IsRun([r EXCEPT !.code = x], v, g, x, s, d, e, k)
           /\ IsRun([r EXCEPT !.scope = x], v, g, o, x, d, e, k)
           /\ IsRun([r EXCEPT !.depth = x], v, g, o, s, x, e, k)
           /\ IsRun([r EXCEPT !.decls = x], v, g, o, s, d, x, k)
           /\ IsRun([r EXCEPT !.k = x], v, g, o, s, d, e, x)
  BY DEF IsRun, RunNames

LEMMA AlikeVals ==
    ASSUME NEW c, NEW d, NEW i, AlikeBut(c, d, i, {})
    PROVE  Vals(d, i) = Vals(c, i)
<1>1. \A key \in Cells : CellValue(d, key, i) = CellValue(c, key, i)
  BY DEF AlikeBut
<1> HIDE DEF Cells
<1> QED
  BY <1>1 DEF Vals

LEMMA MapsVals ==
    ASSUME NEW c, NEW d, NEW i, d.state = c.state, d.local = c.local
    PROVE  Vals(d, i) = Vals(c, i)
<1>1. \A key \in Cells : CellValue(d, key, i) = CellValue(c, key, i)
  BY DEF CellValue
<1> HIDE DEF Cells
<1> QED
  BY <1>1 DEF Vals

\* The helpers of the executor are those of the run.
LEMMA AlikeRun ==
    ASSUME NEW c, NEW d, NEW i, Rest(c, d), AlikeBut(c, d, i, {})
    PROVE  AtInput(d, i) = AtInput(c, i)
<1>1. Vals(d, i) = Vals(c, i)
  BY AlikeVals
<1>2. IsRun(AtInput(d, i), Vals(c, i), c.goHead, c.code, c.scope, c.depth,
            Told(c.decls, i), c.k)
  BY <1>1, RunFields DEF Rest
<1> QED
  BY <1>2, RunFields, SameRun

LEMMA NarrowRun ==
    ASSUME NEW c, ContextOK(c), NEW p, NEW d, d = [c EXCEPT !.pc = p], NEW i
    PROVE  AtInput(d, i) = AtInput(c, i)
<1>1. /\ d.goHead = c.goHead /\ d.code = c.code /\ d.scope = c.scope
      /\ d.depth = c.depth /\ d.decls = c.decls /\ d.k = c.k
      /\ d.state = c.state /\ d.local = c.local
  BY DEF ContextOK, Fields
<1>2. Vals(d, i) = Vals(c, i)
  BY <1>1, MapsVals
<1>3. IsRun(AtInput(d, i), Vals(c, i), c.goHead, c.code, c.scope, c.depth,
            Told(c.decls, i), c.k)
  BY <1>1, <1>2, RunFields
<1> QED
  BY <1>3, RunFields, SameRun

LEMMA TouchRun ==
    ASSUME NEW c, ContextOK(c), NEW xs \in SUBSET Vars, NEW i
    PROVE  AtInput(Touch(c, xs), i) = AtInput(c, i)
  BY TouchView, AlikeRun

LEMMA WriteVals ==
    ASSUME NEW c, NEW d, NEW x, NEW w, NEW i, AlikeBut(c, d, i, {<<x, 1>>}),
           CellValue(d, <<x, 1>>, i) = w
    PROVE  Vals(d, i) = [Vals(c, i) EXCEPT ![<<x, 1>>] = w]
<1>1. \A key \in Cells : CellValue(d, key, i)
                             = IF key = <<x, 1>> THEN w ELSE CellValue(c, key, i)
  BY DEF AlikeBut
<1> HIDE DEF Cells
<1> QED
  BY <1>1 DEF Vals

LEMMA WriteRun ==
    ASSUME NEW c, Flat(c), NEW d, Rest(c, d), NEW x, NEW w, NEW i,
           AlikeBut(c, d, i, {<<x, 1>>}), CellValue(d, <<x, 1>>, i) = w
    PROVE  AtInput(d, i) = Concrete!Write(AtInput(c, i), x, w)
<1> DEFINE r == AtInput(c, i)
           q == AtInput(d, i)
           v == Vals(c, i)
           e == Told(c.decls, i)
           u == [v EXCEPT ![<<x, 1>>] = w]
<1>1. IsRun(r, v, c.goHead, c.code, c.scope, c.depth, e, c.k)
  BY RunFields
<1>2. Vals(d, i) = u
  BY WriteVals
<1>3. IsRun(q, u, c.goHead, c.code, c.scope, c.depth, e, c.k)
  BY <1>2, RunFields DEF Rest
<1> HIDE DEF r, q, v, e
<1>4. r.depth = c.depth /\ r.scope = c.scope /\ r.vals = v
  BY <1>1 DEF IsRun
<1>5. Concrete!Cell(r, x) = <<x, 1>>
  BY <1>4 DEF Flat, Concrete!Cell
<1>6. Concrete!Write(r, x, w) = [r EXCEPT !.vals = [r.vals EXCEPT ![<<x, 1>>] = w]]
  BY <1>5 DEF Concrete!Write
<1>7. Concrete!Write(r, x, w) = [r EXCEPT !.vals = u]
  BY <1>4, <1>6
<1> HIDE DEF u
<1>8. IsRun([r EXCEPT !.vals = u], u, c.goHead, c.code, c.scope, c.depth, e, c.k)
  BY <1>1, RunExcept
<1>9. q = [r EXCEPT !.vals = u]
  BY <1>3, <1>8, SameRun
<1> QED
  BY <1>7, <1>9 DEF r, q

LEMMA UpdateRun ==
    ASSUME NEW c, ContextOK(c), Flat(c), NEW x \in Vars, NEW v, NEW i
    PROVE  AtInput(Update(c, x, v), i) = Concrete!Write(AtInput(c, i), x, v[i])
<1>1. /\ Rest(c, Update(c, x, v)) /\ AlikeBut(c, Update(c, x, v), i, {<<x, 1>>})
      /\ CellValue(Update(c, x, v), <<x, 1>>, i) = v[i]
  BY UpdateView
<1> QED
  BY <1>1, WriteRun

\* The fields that a halt, a reset or a new continuation changes.
LEMMA ContinueRun ==
    ASSUME NEW c, ContextOK(c), NEW k, NEW d, d = [c EXCEPT !.k = k], NEW i
    PROVE  AtInput(d, i) = [AtInput(c, i) EXCEPT !.k = k]
<1>1. /\ d.goHead = c.goHead /\ d.code = c.code /\ d.scope = c.scope
      /\ d.depth = c.depth /\ d.decls = c.decls /\ d.k = k
      /\ d.state = c.state /\ d.local = c.local
  BY DEF ContextOK, Fields
<1>2. Vals(d, i) = Vals(c, i)
  BY <1>1, MapsVals
<1>3. IsRun(AtInput(d, i), Vals(c, i), c.goHead, c.code, c.scope, c.depth,
            Told(c.decls, i), k)
  BY <1>1, <1>2, RunFields
<1>4. IsRun(AtInput(c, i), Vals(c, i), c.goHead, c.code, c.scope, c.depth,
            Told(c.decls, i), c.k)
  BY RunFields
<1>5. IsRun([AtInput(c, i) EXCEPT !.k = k], Vals(c, i), c.goHead, c.code, c.scope,
            c.depth, Told(c.decls, i), k)
  BY <1>4, RunExcept
<1> QED
  BY <1>3, <1>5, SameRun

Recoded(c, d, g, code) ==
    /\ d.goHead = g /\ d.code = code /\ d.scope = c.scope
    /\ d.depth = c.depth /\ d.decls = c.decls /\ d.k = c.k
    /\ d.state = c.state /\ d.local = c.local

LEMMA SignalRun ==
    ASSUME NEW c, NEW g, NEW code, NEW d, Recoded(c, d, g, code), NEW i, NEW q,
           IsRun(q, Vals(c, i), g, code, c.scope, c.depth, Told(c.decls, i), c.k)
    PROVE  AtInput(d, i) = q
<1>1. Vals(d, i) = Vals(c, i)
  BY MapsVals DEF Recoded
<1>2. IsRun(AtInput(d, i), Vals(c, i), g, code, c.scope, c.depth, Told(c.decls, i), c.k)
  BY <1>1, RunFields DEF Recoded
<1> QED
  BY <1>2, SameRun

LEMMA SignalIs ==
    ASSUME NEW v, NEW g, NEW o, NEW s, NEW d, NEW e, NEW k, NEW r,
           IsRun(r, v, g, o, s, d, e, k), NEW code
    PROVE  /\ IsRun(Concrete!Signal(r, code), v, FALSE, code, s, d, e, k)
           /\ o = code => IsRun(Concrete!Caught(r, code), v, TRUE, "NONE", s, d, e, k)
  BY DEF IsRun, RunNames, Concrete!Signal, Concrete!Caught

LEMMA PopRun ==
    ASSUME NEW c, ContextOK(c), NEW i
    PROVE  AtInput(Pop(c), i) = Concrete!Advance(AtInput(c, i))
<1>1. AtInput(c, i).k = c.k
  BY DEF AtInput
<1>2. Pop(c) = [c EXCEPT !.k = Tail(c.k)]
  BY DEF Pop
<1>3. AtInput(Pop(c), i) = [AtInput(c, i) EXCEPT !.k = Tail(c.k)]
  <2> DEFINE k == Tail(c.k)
             d == Pop(c)
  <2>1. d = [c EXCEPT !.k = k]
    BY <1>2
  <2> HIDE DEF d, k
  <2>2. AtInput(d, i) = [AtInput(c, i) EXCEPT !.k = k]
    BY <2>1, ContinueRun
  <2> QED
    BY <2>2 DEF d, k
<1> QED
  BY <1>1, <1>3 DEF Concrete!Advance

LEMMA PushRun ==
    ASSUME NEW c, ContextOK(c), NEW items, NEW i
    PROVE  AtInput(Push(c, items), i) = Concrete!Enter(AtInput(c, i), items)
<1>1. AtInput(c, i).k = c.k
  BY DEF AtInput
<1>2. Push(c, items) = [c EXCEPT !.k = items \o Tail(c.k)]
  BY DEF Push
<1>3. AtInput(Push(c, items), i) = [AtInput(c, i) EXCEPT !.k = items \o Tail(c.k)]
  <2> DEFINE k == items \o Tail(c.k)
             d == Push(c, items)
  <2>1. d = [c EXCEPT !.k = k]
    BY <1>2
  <2> HIDE DEF d, k
  <2>2. AtInput(d, i) = [AtInput(c, i) EXCEPT !.k = k]
    BY <2>1, ContinueRun
  <2> QED
    BY <2>2 DEF d, k
<1> QED
  BY <1>1, <1>3 DEF Concrete!Enter

LEMMA HaltRun ==
    ASSUME NEW c, ContextOK(c), NEW code, NEW i
    PROVE  AtInput(Halt(c, code), i) = Concrete!Signal(AtInput(c, i), code)
<1> DEFINE d == Halt(c, code)
           g == FALSE
           q == Concrete!Signal(AtInput(c, i), code)
<1>1. Recoded(c, d, g, code)
  BY DEF Halt, Recoded, ContextOK, Fields
<1>2. IsRun(q, Vals(c, i), g, code, c.scope, c.depth, Told(c.decls, i), c.k)
  BY RunFields, SignalIs
<1> HIDE DEF d, g, q
<1>3. AtInput(d, i) = q
  BY <1>1, <1>2, SignalRun
<1> QED
  BY <1>3 DEF d, q

LEMMA ResetRun ==
    ASSUME NEW c, ContextOK(c), NEW code \in Codes \ {"NONE"}, NEW i
    PROVE  AtInput(ResetIf(c, code), i) = Concrete!Caught(AtInput(c, i), code)
<1> DEFINE d == Resume(c)
           g == TRUE
           o == "NONE"
           q == Concrete!Caught(AtInput(c, i), code)
<1>1. ~c.goHead /\ c.code = code <=> c.code = code
  BY DEF ContextOK
<1>2. Recoded(c, d, g, o)
  BY DEF Resume, Recoded, ContextOK, Fields
<1>3. c.code = code =>
          IsRun(q, Vals(c, i), g, o, c.scope, c.depth, Told(c.decls, i), c.k)
  BY RunFields, SignalIs
<1>4. c.code # code => q = AtInput(c, i)
  <2>1. AtInput(c, i).code = c.code
    BY DEF AtInput
  <2> QED
    BY <2>1 DEF Concrete!Caught
<1>5. ResetIf(c, code) = IF c.code = code THEN d ELSE c
  BY <1>1 DEF ResetIf
<1> HIDE DEF d, g, o, q
<1>6. c.code = code => AtInput(d, i) = q
  BY <1>2, <1>3, SignalRun
<1> QED
  BY <1>4, <1>5, <1>6 DEF q

\* The vocabulary of the two sides is one.
LEMMA SameWords ==
    /\ \A e, env : Concrete!Eval(e, env) = Eval(e, env)
    /\ \A block : Concrete!Stmts(block) = Stmts(block)
    /\ \A s : Concrete!Cont(s) = Cont(s)
    /\ \A s : Concrete!Brk(s) = Brk(s)
    /\ \A s, g : Concrete!Ret(s, g) = Ret(s, g)
<1>1. \A e, env : Concrete!Eval(e, env) = Eval(e, env)
  BY Zenon DEF Concrete!Eval, Eval
<1>2. \A block : Concrete!Stmts(block) = Stmts(block)
  BY DEF Concrete!Stmts, Stmts
<1>3. (\A s : Concrete!Cont(s) = Cont(s)) /\ (\A s : Concrete!Brk(s) = Brk(s))
  BY DEF Concrete!Cont, Concrete!Brk, Cont, Brk
<1>4. \A s, g : Concrete!Ret(s, g) = Ret(s, g)
  BY DEF Concrete!Ret, Ret
<1> QED
  BY <1>1, <1>2, <1>3, <1>4

\* A path that has a statement or a mark to go on with.
Going(c) == ContextOK(c) /\ Depths(c) /\ c.k # <<>>

\* A condition and a translated expression at an input are those of the run.
LEMMA ValueView ==
    ASSUME NEW c, Going(c), NEW i \in Inputs, NEW e
    PROVE  /\ Translate(c, e)[i] = Concrete!Val(AtInput(c, i), e)
           /\ i \in Models(c, e) <=> Concrete!Val(AtInput(c, i), e)
<1>1. Concrete!Val(AtInput(c, i), e) = Eval(e, Env(c, i))
  BY SameWords, StoreView DEF Concrete!Val, Going, Depths
<1>2. Translate(c, e)[i] = Eval(e, Env(c, i))
  BY Zenon DEF Translate
<1>3. i \in Models(c, e) <=> Eval(e, Env(c, i))
  BY Zenon DEF Models
<1> QED
  BY <1>1, <1>2, <1>3

\* Where the run is.
LEMMA WhereRun ==
    ASSUME NEW c, ContextOK(c), c.k # <<>>, NEW i
    PROVE  /\ \A op : At(c, op) <=> Concrete!RAt(AtInput(c, i), op)
           /\ \A t : AtMark(c, t) <=> Concrete!RMark(AtInput(c, i), t)
           /\ Concrete!Here(AtInput(c, i)) = Node(c)
<1> DEFINE r == AtInput(c, i)
<1>1. r.alive /\ r.k = c.k /\ r.goHead = c.goHead
  BY RunFields DEF IsRun
<1> HIDE DEF r
<1>2. Concrete!Here(r) = Node(c)
  BY <1>1 DEF Concrete!Here, Node
<1> QED
  BY <1>1, <1>2 DEF At, AtStmt, AtMark, Concrete!RAt, Concrete!RMark, r

(***************************************************************************)
(* A step of the context that covers an input is a step of the run, or the *)
(* input is given up where the run allows it.                              *)
(***************************************************************************)
Covers(c, i)              == i \in c.pc /\ c.code # "THROW"
Tracked(height, level, c) == Stacked(height, level, c.k) /\ \E S : c.decls \in Seq(S)

Moves(height, level, c, succ, i) ==
    /\ \A d \in succ : d.pc \subseteq c.pc
    /\ \A d \in succ : Covers(d, i) =>
           /\ Concrete!RunStep(AtInput(c, i), AtInput(d, i))
           /\ Tracked(height, level, d)
    /\ (\A d \in succ : ~Covers(d, i)) =>
           Concrete!RunStep(AtInput(c, i), Concrete!Gone)

StepRuns(height, level, c, i) ==
    Abort \/ \E succ : Become(c, succ) /\ Moves(height, level, c, succ, i)

LEMMA OneMoves ==
    ASSUME NEW height, NEW level, NEW c, NEW i \in c.pc, NEW d, Become(c, {d}),
           d.pc = c.pc, d.code # "THROW", Tracked(height, level, d),
           Concrete!RunStep(AtInput(c, i), AtInput(d, i))
    PROVE  StepRuns(height, level, c, i)
<1>1. Moves(height, level, c, {d}, i)
  BY DEF Moves, Covers
<1> QED
  BY <1>1 DEF StepRuns

LEMMA TrackedPop ==
    ASSUME NEW height, NEW level, NEW c, ContextOK(c), c.k # <<>>,
           Tracked(height, level, c), NEW d, ContextOK(d), d.k = c.k,
           \E S : d.decls \in Seq(S)
    PROVE  Tracked(height, level, Pop(d))
<1>1. Stacked(height, level, Tail(c.k))
  BY StackedTail DEF ContextOK, Tracked
<1>2. Pop(d).k = Tail(c.k) /\ Pop(d).decls = d.decls
  BY DEF Pop, ContextOK, Fields
<1> QED
  BY <1>1, <1>2 DEF Tracked

LEMMA PopMoves ==
    ASSUME NEW height, NEW level, NEW c, ContextOK(c), c.k # <<>>,
           Tracked(height, level, c), NEW i \in c.pc,
           NEW d, ContextOK(d), d.k = c.k, d.pc = c.pc, d.code # "THROW",
           \E S : d.decls \in Seq(S), Become(c, {Pop(d)}),
           Concrete!RunStep(AtInput(c, i), Concrete!Advance(AtInput(d, i)))
    PROVE  StepRuns(height, level, c, i)
<1> DEFINE e == Pop(d)
<1>1. Tracked(height, level, e)
  BY TrackedPop
<1>2. e.pc = c.pc /\ e.code # "THROW"
  BY DEF Pop, ContextOK, Fields
<1>3. AtInput(e, i) = Concrete!Advance(AtInput(d, i))
  BY PopRun
<1>4. Become(c, {e})
  OBVIOUS
<1> HIDE DEF e
<1> QED
  BY <1>1, <1>2, <1>3, <1>4, OneMoves

LEMMA SkipMoves ==
    ASSUME NEW height, NEW level, NEW c, Going(c), Tracked(height, level, c),
           NEW i, Covers(c, i), Skip(c)
    PROVE  StepRuns(height, level, c, i)
<1>1. /\ ContextOK(c) /\ c.k # <<>> /\ i \in c.pc /\ c.code # "THROW"
      /\ \E S : c.decls \in Seq(S)
  BY DEF Going, Covers, Tracked
<1>2. Become(c, {Pop(c)}) /\ AtStmt(c) /\ ~c.goHead
  BY DEF Skip
<1>3. Concrete!Unwind(AtInput(c, i), Concrete!Advance(AtInput(c, i)))
  <2>1. AtInput(c, i).alive /\ AtInput(c, i).k = c.k /\ AtInput(c, i).goHead = c.goHead
    BY RunFields DEF IsRun
  <2> QED
    BY <1>2, <2>1 DEF Concrete!Unwind, AtStmt
<1>4. Concrete!RunStep(AtInput(c, i), Concrete!Advance(AtInput(c, i)))
  BY <1>3 DEF Concrete!RunStep
<1> QED
  BY <1>1, <1>2, <1>4, PopMoves

LEMMA RestGoing ==
    ASSUME NEW c, Going(c), NEW d, Rest(c, d), ContextOK(d)
    PROVE  Going(d)
  BY DEF Going, Rest, Depths, Flat, AtMark, AtStmt, Node

\* What the handlers of assignments and declarations write.
LEMMA AssignView ==
    ASSUME NEW c, Going(c), NEW i \in Inputs, NEW n \in StmtDesc, n.x \in Vars
    PROVE  /\ ContextOK(AssignTo(c, n)) /\ Rest(c, AssignTo(c, n))
           /\ AtInput(AssignTo(c, n), i)
                  = Concrete!Write(AtInput(c, i), n.x, Concrete!Val(AtInput(c, i), n.e))
<1> DEFINE d == Touch(c, Reads(n.e) \cup {n.x})
           v == Translate(c, n.e)
           w == Concrete!Val(AtInput(c, i), n.e)
<1>1. Reads(n.e) \cup {n.x} \in SUBSET Vars
  BY ReadsType DEF StmtDesc
<1>2. ContextOK(c)
  BY DEF Going
<1>3. ContextOK(d) /\ Rest(c, d) /\ AtInput(d, i) = AtInput(c, i)
  BY <1>1, <1>2, TouchView, TouchRun
<1>4. v[i] = w
  BY ValueView
<1>5. AssignTo(c, n) = Update(d, n.x, v)
  BY DEF AssignTo
<1> HIDE DEF d, v, w
<1>6. Flat(d)
  BY <1>3, RestGoing DEF Going, Depths
<1>7. AtInput(Update(d, n.x, v), i) = Concrete!Write(AtInput(d, i), n.x, v[i])
  BY <1>3, <1>6, UpdateRun
<1>8. ContextOK(Update(d, n.x, v)) /\ Rest(d, Update(d, n.x, v))
  BY <1>3, <1>6, UpdateView
<1>9. Rest(c, Update(d, n.x, v))
  BY <1>3, <1>8 DEF Rest
<1> QED
  BY <1>3, <1>4, <1>5, <1>7, <1>8, <1>9 DEF w

\* The context at a statement of kind op.
LEMMA AtNode ==
    ASSUME NEW c, Going(c), NEW op, At(c, op), NEW i
    PROVE  /\ ContextOK(c) /\ c.k # <<>> /\ c.code = "NONE" /\ c.goHead
           /\ Head(c.k).n \in Stmt /\ Node(c) = Ast[Head(c.k).n]
           /\ Node(c) \in StmtDesc /\ Node(c).op = op /\ AtStmt(c)
           /\ Concrete!RAt(AtInput(c, i), op)
           /\ Concrete!Here(AtInput(c, i)) = Node(c)
<1>1. ContextOK(c) /\ c.k # <<>> /\ AtStmt(c) /\ c.goHead /\ Node(c).op = op
  BY DEF Going, At
<1>2. Head(c.k).n \in Stmt /\ Node(c) \in StmtDesc
  BY <1>1, NodeType
<1>3. c.code = "NONE" /\ Node(c) = Ast[Head(c.k).n]
  BY <1>1 DEF ContextOK, Node
<1>4. Concrete!RAt(AtInput(c, i), op) /\ Concrete!Here(AtInput(c, i)) = Node(c)
  BY <1>1, WhereRun
<1> QED
  BY <1>1, <1>2, <1>3, <1>4

LEMMA WriteMoves ==
    ASSUME NEW height, NEW level, NEW c, Going(c), Tracked(height, level, c),
           NEW i \in Inputs, Covers(c, i), Node(c) \in StmtDesc, Node(c).x \in Vars,
           c.code = "NONE",
           At(c, "assign") \/ (At(c, "decl") /\ Node(c).e.op # "none"),
           Become(c, {Pop(AssignTo(c, Node(c)))})
    PROVE  StepRuns(height, level, c, i)
<1> DEFINE n == Node(c)
           d == AssignTo(c, n)
           r == AtInput(c, i)
           u == Concrete!Write(r, n.x, Concrete!Val(r, n.e))
<1>1. /\ ContextOK(c) /\ c.k # <<>> /\ i \in c.pc /\ \E S : c.decls \in Seq(S)
      /\ Become(c, {Pop(d)})
  BY DEF Going, Covers, Tracked
<1>2. ContextOK(d) /\ Rest(c, d) /\ AtInput(d, i) = u
  BY AssignView
<1>3. Concrete!Here(r) = n
      /\ (Concrete!RAt(r, "assign") \/ (Concrete!RAt(r, "decl") /\ n.e.op # "none"))
  BY <1>1, WhereRun
<1>4. Concrete!RAssign(r, Concrete!Advance(u))
  BY <1>3 DEF Concrete!RAssign
<1> HIDE DEF r, u, d, n
<1>5. d.k = c.k /\ d.pc = c.pc /\ d.code # "THROW" /\ d.decls = c.decls
  BY <1>2 DEF Rest
<1>6. Concrete!RunStep(AtInput(c, i), Concrete!Advance(AtInput(d, i)))
  BY <1>2, <1>4 DEF Concrete!RunStep, r
<1> QED
  BY <1>1, <1>2, <1>5, <1>6, PopMoves

LEMMA AssignMoves ==
    ASSUME NEW height, NEW level, NEW c, Going(c), Tracked(height, level, c),
           NEW i \in Inputs, Covers(c, i), Assign(c)
    PROVE  StepRuns(height, level, c, i)
<1>1. At(c, "assign") /\ Become(c, {Pop(AssignTo(c, Node(c)))})
  BY DEF Assign
<1>2. /\ Node(c) \in StmtDesc /\ c.code = "NONE" /\ Head(c.k).n \in Stmt
      /\ Node(c) = Ast[Head(c.k).n] /\ Node(c).op = "assign"
  BY <1>1, AtNode
<1>3. Node(c).x \in Vars
  BY <1>2, WellFormed
<1> QED
  BY <1>1, <1>2, <1>3, WriteMoves

LEMMA DeclMoves ==
    ASSUME NEW height, NEW level, NEW c, Going(c), Tracked(height, level, c),
           NEW i \in Inputs, Covers(c, i), Decl(c)
    PROVE  StepRuns(height, level, c, i)
<1>1. At(c, "decl") /\ (Become(c, {Pop(Declared(c, Node(c)))}) \/ Abort)
  BY DEF Decl
<1>2. /\ Node(c) \in StmtDesc /\ c.code = "NONE" /\ Head(c.k).n \in Stmt
      /\ Node(c) = Ast[Head(c.k).n] /\ Node(c).op = "decl"
  BY <1>1, AtNode
<1>3. Node(c).x \in Vars
  BY <1>2, WellFormed
<1>4. CASE Abort
  BY <1>4 DEF StepRuns
<1>5. CASE Become(c, {Pop(Declared(c, Node(c)))}) /\ Node(c).e.op # "none"
  <2>1. Become(c, {Pop(AssignTo(c, Node(c)))})
    BY <1>5 DEF Declared
  <2> QED
    BY <1>1, <1>2, <1>3, <1>5, <2>1, WriteMoves
<1>6. CASE Become(c, {Pop(Declared(c, Node(c)))}) /\ Node(c).e.op = "none"
  <2>1. Become(c, {Pop(c)})
    BY <1>6 DEF Declared
  <2>2. /\ ContextOK(c) /\ c.k # <<>> /\ i \in c.pc /\ c.code # "THROW"
        /\ \E S : c.decls \in Seq(S)
    BY DEF Going, Covers, Tracked
  <2>3. Concrete!RAt(AtInput(c, i), "decl") /\ Concrete!Here(AtInput(c, i)) = Node(c)
    BY <1>1, AtNode
  <2>4. Concrete!RNoValue(AtInput(c, i), Concrete!Advance(AtInput(c, i)))
    BY <1>6, <2>3 DEF Concrete!RNoValue
  <2>5. Concrete!RunStep(AtInput(c, i), Concrete!Advance(AtInput(c, i)))
    BY <2>4 DEF Concrete!RunStep
  <2> QED
    BY <2>1, <2>2, <2>5, PopMoves
<1> QED
  BY <1>1, <1>4, <1>5, <1>6

LEMMA SetEnvMoves ==
    ASSUME NEW height, NEW level, NEW c, Going(c), Tracked(height, level, c),
           NEW i \in Inputs, Covers(c, i), SetEnv(c)
    PROVE  StepRuns(height, level, c, i)
<1> DEFINE n == Node(c)
           d == Touch(c, Reads(n.e))
           v == Translate(c, n.e)
           w == Concrete!Val(AtInput(c, i), n.e)
           e == Update(d, n.x, v)
           r == AtInput(c, i)
           u == Concrete!Write(r, n.x, w)
<1>1. At(c, "env") /\ Become(c, {Pop([d EXCEPT !.state[n.x] = v])})
  BY Zenon DEF SetEnv
<1>2. /\ ContextOK(c) /\ c.k # <<>> /\ i \in c.pc /\ \E S : c.decls \in Seq(S)
      /\ c.code # "THROW"
  BY DEF Going, Covers, Tracked
<1>3. /\ n \in StmtDesc /\ Head(c.k).n \in Stmt /\ n = Ast[Head(c.k).n] /\ n.op = "env"
      /\ Concrete!RAt(r, "env") /\ Concrete!Here(r) = n
  BY <1>1, AtNode
<1>4. n.x \in Vars /\ n.x \in StateVars
  BY <1>3, WellFormed, AstAssumption
<1>5. Reads(n.e) \in SUBSET Vars
  BY <1>3, ReadsType DEF StmtDesc
<1>6. Concrete!RAssign(r, Concrete!Advance(u))
  BY <1>3 DEF Concrete!RAssign
<1>7. v[i] = w
  BY ValueView
<1>8. Become(c, {Pop([d EXCEPT !.state[n.x] = v])})
  BY <1>1
<1> HIDE DEF n
<1>9. ContextOK(d) /\ Rest(c, d) /\ AtInput(d, i) = r
  BY <1>2, <1>5, TouchView, TouchRun
<1> HIDE DEF d, v, w
<1>10. Flat(d)
  BY <1>9, RestGoing DEF Going, Depths
<1>11. ContextOK(e) /\ Rest(d, e) /\ AtInput(e, i) = Concrete!Write(AtInput(d, i), n.x, v[i])
  <2>1. n.x \in Vars /\ ContextOK(d) /\ Flat(d)
    BY <1>4, <1>9, <1>10
  <2>2. ContextOK(e) /\ Rest(d, e)
    BY <2>1, UpdateView
  <2>3. AtInput(e, i) = Concrete!Write(AtInput(d, i), n.x, v[i])
    BY <2>1, UpdateRun
  <2> QED
    BY <2>2, <2>3
<1>12. e = [d EXCEPT !.state[n.x] = v]
  BY <1>4, <1>10, FirstKey DEF Update
<1> HIDE DEF e
<1>13. Become(c, {Pop(e)}) /\ AtInput(e, i) = u
  BY <1>7, <1>8, <1>9, <1>11, <1>12
<1>14. e.k = c.k /\ e.pc = c.pc /\ e.code # "THROW" /\ e.decls = c.decls
  BY <1>2, <1>9, <1>11 DEF Rest
<1>15. Concrete!RunStep(AtInput(c, i), Concrete!Advance(AtInput(e, i)))
  BY <1>6, <1>13 DEF Concrete!RunStep
<1> QED
  BY <1>2, <1>11, <1>13, <1>14, <1>15, PopMoves

LEMMA ToldAppend ==
    ASSUME NEW S, NEW decls \in Seq(S), NEW tag, NEW v, NEW i
    PROVE  Told(Append(decls, [tag |-> tag, v |-> v]), i)
               = Append(Told(decls, i), [tag |-> tag, v |-> v[i]])
<1> DEFINE e == [tag |-> tag, v |-> v]
           all == Append(decls, e)
           w == [tag |-> tag, v |-> v[i]]
           t == Told(decls, i)
           T == {t[j] : j \in DOMAIN decls}
<1>1. /\ DOMAIN decls = 1..Len(decls) /\ Len(decls) \in Nat
      /\ DOMAIN all = 1..(Len(decls) + 1)
      /\ \A j \in 1..Len(decls) : all[j] = decls[j]
      /\ all[Len(decls) + 1] = e
  BY DEF Told
<1>2. t \in Seq(T) /\ Len(t) = Len(decls) /\ DOMAIN t = 1..Len(decls)
  BY <1>1 DEF Told
<1>3. [tag |-> e.tag, v |-> e.v[i]] = w
  OBVIOUS
<1>4. \A j \in 1..Len(decls) : t[j] = [tag |-> decls[j].tag, v |-> decls[j].v[i]]
  BY <1>1 DEF Told
<1>5. Told(all, i) = [j \in 1..(Len(decls) + 1) |->
                          [tag |-> all[j].tag, v |-> all[j].v[i]]]
  BY <1>1, Zenon DEF Told
<1>6. /\ DOMAIN Append(t, w) = 1..(Len(decls) + 1)
      /\ \A j \in 1..Len(decls) : Append(t, w)[j] = t[j]
      /\ Append(t, w)[Len(decls) + 1] = w
      /\ Append(t, w) = [j \in 1..(Len(decls) + 1) |-> Append(t, w)[j]]
  <2> HIDE DEF t, w, T
  <2> DEFINE q == Append(t, w)
  <2>1. q \in Seq(T \cup {w}) /\ Len(q) = Len(decls) + 1
    BY <1>2
  <2>2. /\ \A j \in 1..Len(decls) : q[j] = t[j]
        /\ q[Len(decls) + 1] = w
    BY <1>1, <1>2
  <2> HIDE DEF q
  <2>3. DOMAIN q = 1..(Len(decls) + 1)
    BY <2>1
  <2>4. q = [j \in DOMAIN q |-> q[j]]
    BY <2>1
  <2> QED
    BY <2>2, <2>3, <2>4 DEF q
<1> HIDE DEF t, w, all, e
<1>7. \A j \in 1..(Len(decls) + 1) :
          [tag |-> all[j].tag, v |-> all[j].v[i]] = Append(t, w)[j]
  <2> SUFFICES ASSUME NEW j \in 1..(Len(decls) + 1)
               PROVE  [tag |-> all[j].tag, v |-> all[j].v[i]] = Append(t, w)[j]
    OBVIOUS
  <2>0. Len(decls) \in Nat
    BY <1>1
  <2>1. CASE j \in 1..Len(decls)
    BY <1>1, <1>4, <1>6, <2>1
  <2>2. CASE j = Len(decls) + 1
    BY <1>1, <1>3, <1>6, <2>2
  <2>3. j \in 1..Len(decls) \/ j = Len(decls) + 1
    BY <2>0
  <2> QED
    BY <2>1, <2>2, <2>3
<1>8. Told(all, i) = Append(t, w)
  BY <1>5, <1>6, <1>7, Zenon
<1> QED
  BY <1>8 DEF t, w, all, e

LEMMA DeclareMoves ==
    ASSUME NEW height, NEW level, NEW c, Going(c), Tracked(height, level, c),
           NEW i \in Inputs, Covers(c, i), Declare(c)
    PROVE  StepRuns(height, level, c, i)
<1> DEFINE n == Node(c)
           d == Touch(c, Reads(n.e))
           v == Translate(c, n.e)
           w == Concrete!Val(AtInput(c, i), n.e)
           more == Append(d.decls, [tag |-> n.tag, v |-> v])
           e == [d EXCEPT !.decls = more]
           r == AtInput(c, i)
           told == Append(Told(c.decls, i), [tag |-> n.tag, v |-> w])
           u == [r EXCEPT !.decls = told]
<1>1. At(c, "declare") /\ Become(c, {Pop(e)})
  BY Zenon DEF Declare
<1>2. /\ ContextOK(c) /\ c.k # <<>> /\ i \in c.pc /\ c.code # "THROW"
  BY DEF Going, Covers
<1>3. /\ n \in StmtDesc /\ Concrete!RAt(r, "declare") /\ Concrete!Here(r) = n
  BY <1>1, AtNode
<1>4. Reads(n.e) \in SUBSET Vars
  BY <1>3, ReadsType DEF StmtDesc
<1>5. v[i] = w
  BY ValueView
<1>6. r.decls = Told(c.decls, i)
  BY RunFields DEF IsRun
<1>7. Concrete!RDeclare(r, Concrete!Advance(u))
  BY <1>3, <1>6 DEF Concrete!RDeclare
<1>8. Become(c, {Pop(e)})
  BY <1>1
<1> HIDE DEF n
<1>9. ContextOK(d) /\ Rest(c, d) /\ AtInput(d, i) = r
  BY <1>2, <1>4, TouchView, TouchRun
<1> HIDE DEF d, v, w, r
<1>10. PICK S : c.decls \in Seq(S)
  BY DEF Tracked
<1>11. d.decls = c.decls
  BY <1>9 DEF Rest
<1>12. more \in Seq(S \cup {[tag |-> n.tag, v |-> v]})
  BY <1>10, <1>11
<1>13. Told(more, i) = told
  BY <1>5, <1>10, <1>11, ToldAppend
<1> HIDE DEF more, told
<1>14. /\ ContextOK(e) /\ e.decls = more /\ e.k = d.k /\ e.pc = d.pc /\ e.code = d.code
       /\ e.goHead = d.goHead /\ e.scope = d.scope /\ e.depth = d.depth
       /\ e.state = d.state /\ e.local = d.local
  BY <1>9 DEF ContextOK, Fields
<1> HIDE DEF e
<1>15. Vals(e, i) = Vals(d, i)
  BY <1>14, MapsVals
<1>16. IsRun(AtInput(e, i), Vals(d, i), d.goHead, d.code, d.scope, d.depth, told, d.k)
  BY <1>13, <1>14, <1>15, RunFields
<1>17. IsRun(r, Vals(d, i), d.goHead, d.code, d.scope, d.depth, Told(d.decls, i), d.k)
  BY <1>9, RunFields
<1>18. IsRun(u, Vals(d, i), d.goHead, d.code, d.scope, d.depth, told, d.k)
  BY <1>17, RunExcept
<1>19. AtInput(e, i) = u
  BY <1>16, <1>18, SameRun
<1>20. Concrete!RunStep(AtInput(c, i), Concrete!Advance(AtInput(e, i)))
  BY <1>7, <1>19 DEF Concrete!RunStep, r
<1>21. e.k = c.k /\ e.pc = c.pc /\ e.code # "THROW" /\ \E T : e.decls \in Seq(T)
  BY <1>2, <1>9, <1>12, <1>14 DEF Rest
<1> QED
  BY <1>2, <1>8, <1>14, <1>20, <1>21, PopMoves

\* A statement that touches variables and narrows the path.
Narrowed(c, n, p) == [Touch(c, Reads(n.e)) EXCEPT !.pc = c.pc \cap p]
Likewise(c, d, i) == /\ ContextOK(d) /\ d.code = c.code /\ d.k = c.k
                     /\ d.decls = c.decls /\ AtInput(d, i) = AtInput(c, i)

LEMMA NarrowTouch ==
    ASSUME NEW c, ContextOK(c), NEW n \in StmtDesc, NEW p, NEW i
    PROVE  Likewise(c, Narrowed(c, n, p), i) /\ Narrowed(c, n, p).pc = c.pc \cap p
<1> DEFINE t == Touch(c, Reads(n.e))
           q == c.pc \cap p
           d == Narrowed(c, n, p)
<1>1. Reads(n.e) \in SUBSET Vars
  BY ReadsType DEF StmtDesc
<1>2. ContextOK(t) /\ Rest(c, t) /\ AtInput(t, i) = AtInput(c, i)
  BY <1>1, TouchView, TouchRun
<1>3. d = [t EXCEPT !.pc = q] /\ q \subseteq c.pc /\ c.pc \subseteq Inputs
  BY DEF ContextOK, Narrowed
<1> HIDE DEF t, q, d
<1>4. ContextOK(d) /\ d.pc = q /\ d.code = t.code /\ d.k = t.k /\ d.decls = t.decls
  BY <1>2, <1>3 DEF ContextOK, Fields
<1>5. AtInput(d, i) = AtInput(t, i)
  BY <1>2, <1>3, NarrowRun
<1> QED
  BY <1>2, <1>4, <1>5 DEF Rest, Likewise, q, d

LEMMA RequireMoves ==
    ASSUME NEW height, NEW level, NEW c, Going(c), Tracked(height, level, c),
           NEW i \in Inputs, Covers(c, i), Require(c)
    PROVE  StepRuns(height, level, c, i)
<1> DEFINE n == Node(c)
           yes == Models(c, n.e)
           t == Touch(c, Reads(n.e))
           d == Narrowed(c, n, yes)
           r == AtInput(c, i)
<1>1. At(c, "require") /\ Become(c, {Pop([t EXCEPT !.pc = @ \cap yes])})
  BY Zenon DEF Require
<1>2. /\ ContextOK(c) /\ c.k # <<>> /\ i \in c.pc /\ c.code # "THROW"
      /\ \E S : c.decls \in Seq(S)
  BY DEF Going, Covers, Tracked
<1>3. /\ n \in StmtDesc /\ Concrete!RAt(r, "require") /\ Concrete!Here(r) = n
  BY <1>1, AtNode
<1>4. i \in yes <=> Concrete!Val(r, n.e)
  BY ValueView
<1>5. t.pc = c.pc
  <2>1. Reads(n.e) \in SUBSET Vars
    BY <1>3, ReadsType DEF StmtDesc
  <2> QED
    BY <1>2, <2>1, TouchView DEF Rest
<1>6. Become(c, {Pop(d)})
  BY <1>1, <1>5 DEF Narrowed
<1>7. /\ i \in yes => Concrete!RRequire(r, Concrete!Advance(r))
      /\ i \notin yes => Concrete!RRequire(r, Concrete!Gone)
  BY <1>3, <1>4 DEF Concrete!RRequire
<1> HIDE DEF yes, n
<1>8. /\ ContextOK(d) /\ d.pc = c.pc \cap yes /\ d.code = c.code /\ d.k = c.k
      /\ d.decls = c.decls /\ AtInput(d, i) = r
  BY <1>2, <1>3, NarrowTouch DEF Likewise
<1> HIDE DEF r, d
<1>9. AtInput(Pop(d), i) = Concrete!Advance(r)
  BY <1>8, PopRun
<1>10. Tracked(height, level, Pop(d))
  BY <1>2, <1>8, TrackedPop
<1>11. Pop(d).pc = c.pc \cap yes /\ Pop(d).code = c.code
  BY <1>8 DEF Pop, ContextOK, Fields
<1>12. Moves(height, level, c, {Pop(d)}, i)
  <2>1. i \in yes => Concrete!RunStep(r, AtInput(Pop(d), i))
    BY <1>7, <1>9 DEF Concrete!RunStep
  <2>2. i \notin yes => Concrete!RunStep(r, Concrete!Gone)
    BY <1>7 DEF Concrete!RunStep
  <2> QED
    BY <1>2, <1>10, <1>11, <2>1, <2>2 DEF Moves, Covers, r
<1> QED
  BY <1>6, <1>12 DEF StepRuns

LEMMA TouchLike ==
    ASSUME NEW c, ContextOK(c), NEW n \in StmtDesc, NEW i
    PROVE  /\ Likewise(c, Touch(c, Reads(n.e)), i) /\ Rest(c, Touch(c, Reads(n.e)))
           /\ Touch(c, Reads(n.e)).pc = c.pc
<1>1. Reads(n.e) \in SUBSET Vars
  BY ReadsType DEF StmtDesc
<1> QED
  BY <1>1, TouchView, TouchRun DEF Rest, Likewise

LEMMA GoneMoves ==
    ASSUME NEW height, NEW level, NEW c, NEW i, NEW d, Become(c, {d}),
           d.pc \subseteq c.pc, d.code = "THROW",
           Concrete!RunStep(AtInput(c, i), Concrete!Gone)
    PROVE  StepRuns(height, level, c, i)
<1>1. Moves(height, level, c, {d}, i)
  BY DEF Moves, Covers
<1> QED
  BY <1>1 DEF StepRuns

LEMMA HaltPop ==
    ASSUME NEW c, ContextOK(c), NEW d, ContextOK(d), d.k = c.k, d.pc = c.pc, c.k # <<>>,
           NEW code \in Codes \ {"NONE"}
    PROVE  /\ ContextOK(Halt(d, code)) /\ Halt(d, code).k = c.k /\ Halt(d, code).pc = c.pc
           /\ Halt(d, code).code = code /\ Halt(d, code).decls = d.decls
           /\ Pop(Halt(d, code)).pc = c.pc /\ Pop(Halt(d, code)).code = code
<1>1. /\ ContextOK(Halt(d, code)) /\ Halt(d, code).k = c.k /\ Halt(d, code).pc = c.pc
      /\ Halt(d, code).code = code /\ Halt(d, code).decls = d.decls
  BY DEF ContextOK, Fields, Halt, Codes
<1> DEFINE e == Halt(d, code)
<1> HIDE DEF e
<1>2. Pop(e).pc = e.pc /\ Pop(e).code = e.code
  BY <1>1 DEF Pop, ContextOK, Fields, e
<1> QED
  BY <1>1, <1>2 DEF e

LEMMA AssertMoves ==
    ASSUME NEW height, NEW level, NEW c, Going(c), Tracked(height, level, c),
           NEW i \in Inputs, Covers(c, i), Assert(c)
    PROVE  StepRuns(height, level, c, i)
<1> DEFINE n == Node(c)
           yes == Models(c, n.e)
           d == Touch(c, Reads(n.e))
           r == AtInput(c, i)
<1>1. At(c, "assert") /\ Become(c, {Pop(IF Valid(c, yes) THEN d ELSE Halt(d, "THROW"))})
  BY Zenon DEF Assert
<1>2. /\ ContextOK(c) /\ c.k # <<>> /\ i \in c.pc /\ c.code # "THROW"
      /\ \E S : c.decls \in Seq(S)
  BY DEF Going, Covers, Tracked
<1>3. /\ n \in StmtDesc /\ Concrete!RAt(r, "assert") /\ Concrete!Here(r) = n
  BY <1>1, AtNode
<1>4. i \in yes <=> Concrete!Val(r, n.e)
  BY ValueView
<1>5. /\ i \in yes => Concrete!RAssert(r, Concrete!Advance(r))
      /\ Concrete!RAssert(r, Concrete!Gone)
  BY <1>3, <1>4 DEF Concrete!RAssert
<1>6. ContextOK(d) /\ d.pc = c.pc /\ d.k = c.k /\ d.decls = c.decls /\ d.code = c.code
      /\ AtInput(d, i) = r
  BY <1>2, <1>3, TouchLike DEF Likewise
<1>7. CASE Valid(c, yes)
  <2>1. i \in yes /\ Become(c, {Pop(d)})
    BY <1>1, <1>2, <1>7 DEF Valid
  <2> HIDE DEF d, yes
  <2>2. Concrete!RunStep(AtInput(c, i), Concrete!Advance(AtInput(d, i)))
    BY <1>5, <1>6, <2>1 DEF Concrete!RunStep
  <2> QED
    BY <1>2, <1>6, <2>1, <2>2, PopMoves
<1>8. CASE ~Valid(c, yes)
  <2> DEFINE e == Pop(Halt(d, "THROW"))
  <2>1. Become(c, {e})
    BY <1>1, <1>8
  <2> HIDE DEF d, yes, n
  <2>2. e.pc = c.pc /\ e.code = "THROW"
    BY <1>2, <1>6, HaltPop DEF Codes
  <2> HIDE DEF e
  <2>3. Concrete!RunStep(AtInput(c, i), Concrete!Gone)
    BY <1>5 DEF Concrete!RunStep
  <2> QED
    BY <2>1, <2>2, <2>3, GoneMoves
<1> QED
  BY <1>7, <1>8

LEMMA ThrowMoves ==
    ASSUME NEW height, NEW level, NEW c, Going(c), Tracked(height, level, c),
           NEW i \in Inputs, Covers(c, i), Throw(c)
    PROVE  StepRuns(height, level, c, i)
<1> DEFINE e == Pop(Halt(c, "THROW"))
<1>1. At(c, "throw") /\ Become(c, {e})
  BY DEF Throw
<1>2. Concrete!RAt(AtInput(c, i), "throw") /\ ContextOK(c) /\ c.k # <<>>
  BY <1>1, AtNode
<1>3. e.pc = c.pc /\ e.code = "THROW"
  BY <1>2, HaltPop DEF Codes
<1>4. Concrete!RunStep(AtInput(c, i), Concrete!Gone)
  BY <1>2 DEF Concrete!RunStep, Concrete!RThrow
<1> HIDE DEF e
<1> QED
  BY <1>1, <1>3, <1>4, GoneMoves

LEMMA SignalMoves ==
    ASSUME NEW height, NEW level, NEW c, Going(c), Tracked(height, level, c),
           NEW i \in Inputs, Covers(c, i), Break(c) \/ Continue(c)
    PROVE  StepRuns(height, level, c, i)
<1>1. ASSUME NEW code \in {"BREAK", "CONTINUE"}, Become(c, {Pop(Halt(c, code))}),
             Concrete!RSignal(AtInput(c, i),
                              Concrete!Advance(Concrete!Signal(AtInput(c, i), code)))
      PROVE  StepRuns(height, level, c, i)
  <2> DEFINE d == Halt(c, code)
  <2>1. /\ ContextOK(c) /\ c.k # <<>> /\ i \in c.pc /\ \E S : c.decls \in Seq(S)
    BY DEF Going, Covers, Tracked
  <2>2. /\ ContextOK(d) /\ d.k = c.k /\ d.pc = c.pc /\ d.code = code /\ d.decls = c.decls
    BY <2>1, HaltPop DEF Codes
  <2>3. AtInput(d, i) = Concrete!Signal(AtInput(c, i), code)
    BY <2>1, HaltRun
  <2>4. Concrete!RunStep(AtInput(c, i), Concrete!Advance(AtInput(d, i)))
    BY <1>1, <2>3 DEF Concrete!RunStep
  <2>5. Become(c, {Pop(d)})
    BY <1>1
  <2>6. d.code # "THROW"
    BY <2>2
  <2> HIDE DEF d
  <2> QED
    BY <2>1, <2>2, <2>4, <2>5, <2>6, PopMoves
<1>2. CASE Break(c)
  <2>1. At(c, "break") /\ Become(c, {Pop(Halt(c, "BREAK"))})
    BY <1>2 DEF Break
  <2>2. Concrete!RAt(AtInput(c, i), "break")
    BY <2>1, AtNode
  <2>3. Concrete!RSignal(AtInput(c, i),
                         Concrete!Advance(Concrete!Signal(AtInput(c, i), "BREAK")))
    BY <2>2 DEF Concrete!RSignal
  <2> QED
    BY <1>1, <2>1, <2>3
<1>3. CASE Continue(c)
  <2>1. At(c, "continue") /\ Become(c, {Pop(Halt(c, "CONTINUE"))})
    BY <1>3 DEF Continue
  <2>2. Concrete!RAt(AtInput(c, i), "continue")
    BY <2>1, AtNode
  <2>3. Concrete!RSignal(AtInput(c, i),
                         Concrete!Advance(Concrete!Signal(AtInput(c, i), "CONTINUE")))
    BY <2>2 DEF Concrete!RSignal
  <2> QED
    BY <1>1, <2>1, <2>3
<1> QED
  BY <1>2, <1>3

\* A returned value in the local map is a write to the return parameter.
Returned(t, x, v) == [Halt(t, "RETURN") EXCEPT !.local = Put(@, Key(t, x), v)]

LEMMA ReturnRun ==
    ASSUME NEW t, ContextOK(t), Flat(t), NEW x \in Vars, x \notin StateVars,
           NEW v, NEW i, NEW f, f = Returned(t, x, v)
    PROVE  /\ AtInput(f, i)
                  = Concrete!Signal(Concrete!Write(AtInput(t, i), x, v[i]), "RETURN")
           /\ ContextOK(f) /\ f.k = t.k /\ f.pc = t.pc /\ f.code = "RETURN"
           /\ f.decls = t.decls
<1> DEFINE loc == Put(t.local, <<x, 1>>, v)
           e == Update(t, x, v)
           h == Halt(t, "RETURN")
           g == Halt(e, "RETURN")
<1>1. Key(t, x) = <<x, 1>> /\ ~InState(t, x)
  BY FirstKey
<1>2. /\ ContextOK(h) /\ h.goHead = FALSE /\ h.code = "RETURN" /\ h.scope = t.scope
      /\ h.depth = t.depth /\ h.decls = t.decls /\ h.k = t.k /\ h.pc = t.pc
      /\ h.state = t.state /\ h.local = t.local
  BY DEF ContextOK, Fields, Halt, Codes
<1>3. e = [t EXCEPT !.local = loc]
  BY <1>1 DEF Update
<1>4. f = [h EXCEPT !.local = loc]
  BY <1>1, <1>2 DEF Returned
<1>5. DOMAIN loc \subseteq Vars \X Int
  <2>1. <<x, 1>> \in Vars \X Int
    OBVIOUS
  <2> QED
    BY <2>1 DEF Put, ContextOK
<1> HIDE DEF loc, h
<1>6. /\ ContextOK(f) /\ f.goHead = FALSE /\ f.code = "RETURN" /\ f.scope = t.scope
      /\ f.depth = t.depth /\ f.decls = t.decls /\ f.k = t.k /\ f.pc = t.pc
      /\ f.state = t.state /\ f.local = loc
  BY <1>2, <1>4, <1>5 DEF ContextOK, Fields
<1>7. ContextOK(e) /\ e.goHead = t.goHead /\ e.scope = t.scope
      /\ e.depth = t.depth /\ e.decls = t.decls /\ e.k = t.k
      /\ e.state = t.state /\ e.local = loc
  BY <1>3, <1>5 DEF ContextOK, Fields
<1>8. AtInput(e, i) = Concrete!Write(AtInput(t, i), x, v[i])
  BY UpdateRun
<1> HIDE DEF e
<1>9. AtInput(g, i) = Concrete!Signal(AtInput(e, i), "RETURN")
  BY <1>7, HaltRun
<1>10. /\ g.goHead = FALSE /\ g.code = "RETURN" /\ g.scope = t.scope
       /\ g.depth = t.depth /\ g.decls = t.decls /\ g.k = t.k
       /\ g.state = t.state /\ g.local = loc
  BY <1>7 DEF ContextOK, Fields, Halt
<1> HIDE DEF g
<1>11. Vals(f, i) = Vals(g, i)
  BY <1>6, <1>10, MapsVals
<1>12. IsRun(AtInput(g, i), Vals(g, i), g.goHead, g.code, t.scope, t.depth,
             Told(t.decls, i), t.k)
  BY <1>10, RunFields
<1>13. IsRun(AtInput(f, i), Vals(g, i), g.goHead, g.code, t.scope, t.depth,
             Told(t.decls, i), t.k)
  <2>1. f.goHead = g.goHead /\ f.code = g.code
    BY <1>6, <1>10
  <2> QED
    BY <1>6, <1>11, <2>1, RunFields
<1>14. AtInput(f, i) = AtInput(g, i)
  BY <1>12, <1>13, SameRun
<1> QED
  BY <1>6, <1>8, <1>9, <1>14

\* A write to no variable changes nothing.
LEMMA NoWrite ==
    ASSUME NEW c, Flat(c), NEW w, NEW i
    PROVE  Concrete!Write(AtInput(c, i), NoVar, w) = AtInput(c, i)
<1> DEFINE r == AtInput(c, i)
           v == Vals(c, i)
           u == [v EXCEPT ![<<NoVar, 1>>] = w]
           e == Told(c.decls, i)
<1>1. IsRun(r, v, c.goHead, c.code, c.scope, c.depth, e, c.k)
  BY RunFields
<1>2. <<NoVar, 1>> \notin Cells
  BY AstAssumption DEF Cells
<1>3. u = v
  BY <1>2, Zenon DEF Vals
<1> HIDE DEF r, e, v
<1>4. r.depth = c.depth /\ r.scope = c.scope /\ r.vals = v
  BY <1>1 DEF IsRun
<1>5. Concrete!Cell(r, NoVar) = <<NoVar, 1>>
  BY <1>4 DEF Flat, Concrete!Cell
<1>6. Concrete!Write(r, NoVar, w) = [r EXCEPT !.vals = v]
  BY <1>3, <1>4, <1>5 DEF Concrete!Write
<1> HIDE DEF u
<1>7. IsRun([r EXCEPT !.vals = v], v, c.goHead, c.code, c.scope, c.depth, e, c.k)
  BY <1>1, RunExcept
<1> QED
  BY <1>1, <1>6, <1>7, SameRun DEF r

LEMMA ReturnMoves ==
    ASSUME NEW height, NEW level, NEW c, Going(c), Tracked(height, level, c),
           NEW i \in Inputs, Covers(c, i), Return(c)
    PROVE  StepRuns(height, level, c, i)
<1> DEFINE n == Node(c)
           x == Fun[c.scope].ret
           t == Touch(c, Reads(n.e))
           v == Translate(c, n.e)
           w == Concrete!Val(AtInput(c, i), n.e)
           r == AtInput(c, i)
           f == Returned(t, x, v)
<1>1. At(c, "return")
      /\ Become(c, {Pop(IF n.e.op = "none" \/ x = NoVar THEN Halt(t, "RETURN")
                        ELSE [Halt(t, "RETURN") EXCEPT !.local = Put(@, Key(c, x), v)])})
  BY Zenon DEF Return
<1>2. /\ ContextOK(c) /\ c.k # <<>> /\ i \in c.pc /\ c.code # "THROW"
      /\ \E S : c.decls \in Seq(S)
  BY DEF Going, Covers, Tracked
<1>3. /\ n \in StmtDesc /\ Concrete!RAt(r, "return") /\ Concrete!Here(r) = n
  BY <1>1, AtNode
<1>4. v[i] = w
  BY ValueView
<1>5. r.scope = c.scope
  BY RunFields DEF IsRun
<1>6. Concrete!RReturn(r, Concrete!Advance(Concrete!Signal(
          IF n.e.op = "none" THEN r ELSE Concrete!Write(r, x, w), "RETURN")))
  BY <1>3, <1>5 DEF Concrete!RReturn
<1>7. /\ ContextOK(t) /\ t.pc = c.pc /\ t.k = c.k /\ t.decls = c.decls
      /\ AtInput(t, i) = r /\ Rest(c, t)
  BY <1>2, <1>3, TouchLike DEF Likewise
<1>8. Key(t, x) = Key(c, x)
  BY <1>7 DEF Key, Rest
<1>9. Flat(t)
  BY <1>7, RestGoing DEF Going, Depths
<1>10. ASSUME NEW d, Become(c, {Pop(d)}), ContextOK(d), d.k = c.k, d.pc = c.pc,
              d.code = "RETURN", d.decls = c.decls,
              AtInput(d, i) = Concrete!Signal(
                  IF n.e.op = "none" THEN r ELSE Concrete!Write(r, x, w), "RETURN")
       PROVE  StepRuns(height, level, c, i)
  <2>1. Concrete!RunStep(AtInput(c, i), Concrete!Advance(AtInput(d, i)))
    BY <1>6, <1>10 DEF Concrete!RunStep
  <2>2. d.code # "THROW"
    BY <1>10
  <2> QED
    BY <1>2, <1>10, <2>1, <2>2, PopMoves
<1>11. CASE n.e.op = "none" \/ x = NoVar
  <2> DEFINE d == Halt(t, "RETURN")
  <2>1. Become(c, {Pop(d)})
    BY <1>1, <1>11
  <2> HIDE DEF v, w, n, x, t
  <2>2. ContextOK(d) /\ d.k = c.k /\ d.pc = c.pc /\ d.code = "RETURN" /\ d.decls = c.decls
    BY <1>2, <1>7, HaltPop DEF Codes
  <2>3. AtInput(d, i) = Concrete!Signal(r, "RETURN")
    BY <1>7, HaltRun
  <2>4. x = NoVar => Concrete!Write(r, x, w) = r
    BY NoWrite DEF Going, Depths
  <2> HIDE DEF d, r
  <2>5. AtInput(d, i) = Concrete!Signal(
            IF n.e.op = "none" THEN r ELSE Concrete!Write(r, x, w), "RETURN")
    BY <1>11, <2>3, <2>4
  <2> QED
    BY <1>10, <2>1, <2>2, <2>5
<1>12. CASE ~(n.e.op = "none" \/ x = NoVar)
  <2>1. x \in Vars /\ x \notin StateVars
    <3>1. c.scope \in Funcs
      BY <1>2 DEF ContextOK
    <3> QED
      BY <1>12, <3>1, LocalsAssumption, AstAssumption
  <2>2. Become(c, {Pop(f)})
    BY <1>1, <1>8, <1>12 DEF Returned
  <2> HIDE DEF v, w, n, x, t, r
  <2>4. /\ AtInput(f, i)
                  = Concrete!Signal(Concrete!Write(AtInput(t, i), x, v[i]), "RETURN")
        /\ ContextOK(f) /\ f.k = t.k /\ f.pc = t.pc /\ f.code = "RETURN"
        /\ f.decls = t.decls
    <3>1. ContextOK(t)
      BY <1>7
    <3>2. Flat(t)
      BY <1>9
    <3>3. f = Returned(t, x, v)
      OBVIOUS
    <3> HIDE DEF f
    <3> QED
      BY <2>1, <3>1, <3>2, <3>3, ReturnRun
  <2> HIDE DEF f
  <2>5. AtInput(f, i) = Concrete!Signal(
            IF n.e.op = "none" THEN r ELSE Concrete!Write(r, x, w), "RETURN")
    BY <1>4, <1>7, <1>12, <2>4
  <2> QED
    BY <1>7, <1>10, <2>2, <2>4, <2>5
<1> QED
  BY <1>11, <1>12

Falling(height, level) ==
    /\ height \in [Stmt -> Nat] /\ level \in [Funcs -> Nat] /\ entry \in Funcs
    /\ Falls(entry, height, level)

LEMMA TrackedPush ==
    ASSUME NEW height, NEW level, Falling(height, level), NEW c, ContextOK(c),
           c.k # <<>>, Tracked(height, level, c), NEW d, ContextOK(d), d.k = c.k,
           d.decls = c.decls, NEW items \in Seq(Item),
           Low(height, level, items, Head(c.k).n)
    PROVE  Tracked(height, level, Push(d, items))
<1>1. /\ height \in [Stmt -> Nat] /\ level \in [Funcs -> Nat] /\ entry \in Funcs
  BY DEF Falling
<1>2. c.k \in Seq(Item) /\ Stacked(height, level, c.k)
  BY DEF ContextOK, Tracked
<1>3. Stacked(height, level, items \o Tail(c.k))
  BY <1>1, <1>2, StackedPush
<1>4. Push(d, items).k = items \o Tail(c.k) /\ Push(d, items).decls = d.decls
  BY DEF Push, ContextOK, Fields
<1> QED
  BY <1>3, <1>4 DEF Tracked

\* The blocks of the statement at hand and the function it calls.
LEMMA NodeFalls ==
    ASSUME NEW height, NEW level, Falling(height, level), NEW c, ContextOK(c),
           AtStmt(c), Tracked(height, level, c)
    PROVE  /\ Below(height, Node(c).body, height[Head(c.k).n])
           /\ Below(height, Node(c).alt, height[Head(c.k).n])
           /\ Below(height, Node(c).step, height[Head(c.k).n])
           /\ Node(c).op = "call" =>
                  /\ level[Node(c).f] < height[Head(c.k).n] /\ Node(c).f \in Funcs
                  /\ Below(height, Fun[Node(c).f].body, level[Node(c).f])
<1> DEFINE s == Head(c.k).n
<1>1. s \in Stmt /\ Node(c) = Ast[s]
  BY NodeType DEF Node
<1>2. height[s] < level[entry]
  <2>1. c.k \in Seq(Item) /\ c.k # <<>>
    BY DEF ContextOK, AtStmt
  <2>2. 1 \in 1..Len(c.k) /\ Head(c.k) = c.k[1]
    BY <2>1
  <2> QED
    BY <2>2 DEF Tracked, Stacked, Under
<1> HIDE DEF s
<1>3. /\ \A block \in {Ast[s].body, Ast[s].alt, Ast[s].step} :
             \A j \in DOMAIN block : height[block[j]] < height[s]
      /\ Ast[s].op = "call" => level[Ast[s].f] < height[s]
  BY <1>1, <1>2 DEF Falling, Falls
<1>4. ASSUME Ast[s].op = "call"
      PROVE  Ast[s].f \in Funcs /\ Below(height, Fun[Ast[s].f].body, level[Ast[s].f])
  <2>1. Ast[s].f \in Funcs
    BY <1>1, <1>4, WellFormed
  <2>2. level[Ast[s].f] < height[s]
    BY <1>3, <1>4
  <2>3. level[Ast[s].f] \in Nat /\ height[s] \in Nat /\ level[entry] \in Nat
    BY <1>1, <2>1 DEF Falling
  <2>4. level[Ast[s].f] <= level[entry]
    BY <1>2, <2>2, <2>3
  <2> QED
    BY <2>1, <2>4 DEF Falling, Falls, Below
<1> QED
  BY <1>1, <1>3, <1>4 DEF Below, s

\* A branch, or one more iteration.
LEMMA NarrowPush ==
    ASSUME NEW height, NEW level, Falling(height, level), NEW c, ContextOK(c),
           c.k # <<>>, Tracked(height, level, c), NEW n \in StmtDesc, NEW p, NEW i,
           NEW items \in Seq(Item), Low(height, level, items, Head(c.k).n),
           NEW d, d = Push(Narrowed(c, n, p), items)
    PROVE  /\ d.pc = c.pc \cap p /\ d.code = c.code /\ Tracked(height, level, d)
           /\ AtInput(d, i) = Concrete!Enter(AtInput(c, i), items)
<1> DEFINE t == Narrowed(c, n, p)
<1>0. d = Push(t, items)
  OBVIOUS
<1>1. /\ ContextOK(t) /\ t.code = c.code /\ t.k = c.k /\ t.decls = c.decls
      /\ AtInput(t, i) = AtInput(c, i) /\ t.pc = c.pc \cap p
  BY NarrowTouch DEF Likewise
<1> HIDE DEF t
<1>2. Tracked(height, level, d)
  BY <1>0, <1>1, TrackedPush
<1>3. AtInput(d, i) = Concrete!Enter(AtInput(c, i), items)
  BY <1>0, <1>1, PushRun
<1>4. d.pc = t.pc /\ d.code = t.code
  BY <1>0, <1>1 DEF Push, ContextOK, Fields
<1> QED
  BY <1>1, <1>2, <1>3, <1>4

LEMMA IfMoves ==
    ASSUME NEW height, NEW level, Falling(height, level),
           NEW c, Going(c), Tracked(height, level, c),
           NEW i \in Inputs, Covers(c, i), If(c)
    PROVE  StepRuns(height, level, c, i)
<1> DEFINE n == Node(c)
           yes == Models(c, n.e)
           t == Touch(c, Reads(n.e))
           r == AtInput(c, i)
           chosen == {br \in Branches(c, n) : Satisfiable(c, br.p)}
           succ == {Follow(t, b) : b \in chosen}
           no == Inputs \ yes
           body == Stmts(n.body)
           alt == Stmts(n.alt)
           then == Push(Narrowed(c, n, yes), body)
           else == Push(Narrowed(c, n, no), alt)
<1>1. At(c, "if") /\ Become(c, succ)
  BY Zenon DEF If
<1>2. /\ ContextOK(c) /\ c.k # <<>> /\ i \in c.pc /\ c.code # "THROW"
  BY DEF Going, Covers
<1>3. /\ n \in StmtDesc /\ Concrete!RAt(r, "if") /\ Concrete!Here(r) = n /\ AtStmt(c)
      /\ n.body \in Seq(Stmt) /\ n.alt \in Seq(Stmt)
  BY <1>1, AtNode DEF StmtDesc
<1>4. i \in yes <=> Concrete!Val(r, n.e)
  BY ValueView
<1>5. /\ i \in yes => Concrete!RunStep(r, Concrete!Enter(r, Stmts(n.body)))
      /\ i \notin yes => Concrete!RunStep(r, Concrete!Enter(r, Stmts(n.alt)))
  BY <1>3, <1>4, SameWords DEF Concrete!RunStep, Concrete!RIf
<1>6. t.pc = c.pc
  BY <1>2, <1>3, TouchLike
<1>7. \A d \in succ : d = then \/ d = else
  <2> SUFFICES ASSUME NEW b \in chosen PROVE Follow(t, b) = then \/ Follow(t, b) = else
    BY Zenon
  <2>1. \/ b.p = yes /\ b.block = n.body
        \/ b.p = no /\ b.block = n.alt
    BY DEF Branches, Branch
  <2>2. Follow(t, b) = Push([t EXCEPT !.pc = c.pc \cap b.p], Stmts(b.block))
    BY <1>6 DEF Follow
  <2> HIDE DEF chosen, yes, no
  <2> QED
    BY <2>1, <2>2, Zenon DEF Narrowed
<1>8. i \in yes => then \in succ
  <2> SUFFICES ASSUME i \in yes PROVE then \in succ
    OBVIOUS
  <2> DEFINE b == Branch(yes, n.body)
  <2>1. b \in Branches(c, n) /\ b.p = yes /\ b.block = n.body
    BY DEF Branches, Branch
  <2>2. b \in chosen
    BY <1>2, <2>1 DEF Satisfiable
  <2>3. Follow(t, b) = then
    BY <1>6, <2>1 DEF Follow, Narrowed
  <2> QED
    BY <2>2, <2>3
<1>9. i \notin yes => else \in succ
  <2> SUFFICES ASSUME i \notin yes PROVE else \in succ
    OBVIOUS
  <2> DEFINE b == Branch(Inputs \ yes, n.alt)
  <2>1. b \in Branches(c, n) /\ b.p = Inputs \ yes /\ b.block = n.alt
    BY DEF Branches, Branch
  <2>2. b \in chosen
    BY <1>2, <2>1 DEF Satisfiable
  <2>3. Follow(t, b) = else
    BY <1>6, <2>1 DEF Follow, Narrowed
  <2> QED
    BY <2>2, <2>3
<1>10. /\ Below(height, n.body, height[Head(c.k).n])
       /\ Below(height, n.alt, height[Head(c.k).n])
  BY <1>2, <1>3, NodeFalls
<1>11. /\ body \in Seq(Item) /\ Low(height, level, body, Head(c.k).n)
       /\ alt \in Seq(Item) /\ Low(height, level, alt, Head(c.k).n)
  BY <1>3, <1>10, LowBlock
<1>17. i \in no <=> i \notin yes
  OBVIOUS
<1> HIDE DEF yes, no, n, succ, body, alt
<1>18. then = Push(Narrowed(c, n, yes), body) /\ else = Push(Narrowed(c, n, no), alt)
  OBVIOUS
<1> HIDE DEF then, else
<1>12. /\ then.pc = c.pc \cap yes /\ then.code = c.code /\ Tracked(height, level, then)
       /\ AtInput(then, i) = Concrete!Enter(r, body)
  BY <1>2, <1>3, <1>11, <1>18, NarrowPush
<1>13. /\ else.pc = c.pc \cap no /\ else.code = c.code
       /\ Tracked(height, level, else)
       /\ AtInput(else, i) = Concrete!Enter(r, alt)
  BY <1>2, <1>3, <1>11, <1>18, NarrowPush
<1> HIDE DEF r
<1>14. Covers(then, i) <=> i \in yes
  BY <1>2, <1>12 DEF Covers
<1>15. Covers(else, i) <=> i \notin yes
  BY <1>2, <1>13, <1>17 DEF Covers
<1>16. Moves(height, level, c, succ, i)
  <2>1. \A d \in succ : d.pc \subseteq c.pc
    BY <1>7, <1>12, <1>13
  <2>2. ASSUME NEW d \in succ, Covers(d, i)
        PROVE  Concrete!RunStep(r, AtInput(d, i)) /\ Tracked(height, level, d)
    <3>1. CASE d = then
      BY <1>5, <1>12, <1>14, <2>2, <3>1 DEF body
    <3>2. CASE d = else
      BY <1>5, <1>13, <1>15, <2>2, <3>2 DEF alt
    <3> QED
      BY <1>7, <3>1, <3>2
  <2>3. \E d \in succ : Covers(d, i)
    BY <1>8, <1>9, <1>14, <1>15
  <2> QED
    BY <2>1, <2>2, <2>3 DEF Moves, r
<1> QED
  BY <1>1, <1>16 DEF StepRuns

LoopItems(body, s, after) ==
    Stmts(body) \o Cont(s) \o Stmts(after) \o Stmts(<<s>>) \o Brk(s)

LEMMA IterateMoves ==
    ASSUME NEW height, NEW level, Falling(height, level),
           NEW c, Going(c), Tracked(height, level, c),
           NEW i \in Inputs, Covers(c, i), c.code = "NONE",
           NEW n \in StmtDesc, NEW s \in Stmt, s = Head(c.k).n,
           NEW after \in Seq(Stmt), Below(height, after, height[s]),
           Below(height, n.body, height[s]),
           NEW d, ContextOK(d), Rest(c, d), Become(c, {Iterate(d, n, s, after)}),
           /\ Concrete!Val(AtInput(d, i), n.e) =>
                  Concrete!RLoop(AtInput(c, i), Concrete!Enter(AtInput(d, i),
                                     LoopItems(n.body, s, after)))
           /\ ~Concrete!Val(AtInput(d, i), n.e) =>
                  /\ Concrete!RLoop(AtInput(c, i), Concrete!Advance(AtInput(d, i)))
                  /\ Concrete!RLoop(AtInput(c, i), Concrete!Gone)
    PROVE  StepRuns(height, level, c, i)
<1> DEFINE yes == Models(d, n.e)
           no == Inputs \ yes
           items == LoopItems(n.body, s, after)
           go == Push(Narrowed(d, n, yes), items)
           rest == Narrowed(d, n, no)
           r == AtInput(d, i)
           now == AtInput(c, i)
<1>1. Going(d)
  BY RestGoing
<1>2. i \in yes <=> Concrete!Val(r, n.e)
  BY <1>1, ValueView
<1>3. /\ d.k = c.k /\ d.pc = c.pc /\ d.code = "NONE" /\ d.decls = c.decls
      /\ d.k # <<>> /\ i \in d.pc /\ ContextOK(c)
  BY DEF Rest, Going, Covers
<1>4. Tracked(height, level, d)
  BY <1>3 DEF Tracked
<1>5. /\ i \in yes => Concrete!RunStep(now, Concrete!Enter(r, items))
      /\ i \notin yes => /\ Concrete!RunStep(now, Concrete!Advance(r))
                         /\ Concrete!RunStep(now, Concrete!Gone)
  BY <1>2 DEF Concrete!RunStep
<1>6. items \in Seq(Item) /\ Low(height, level, items, s)
  <2>1. n.body \in Seq(Stmt) /\ items = Stmts(n.body) \o Cont(s) \o Stmts(after)
                                            \o Stmts(<<s>>) \o Brk(s)
    BY DEF StmtDesc, LoopItems
  <2> HIDE DEF items
  <2> QED
    BY <2>1, LowLoop
<1>7. /\ Satisfiable(d, yes) => Become(c, {go})
      /\ ~Satisfiable(d, yes) => Become(c, {Pop(rest)})
  <2>1. Touch(d, Reads(n.e)).pc = d.pc
    BY TouchLike
  <2>2. d.pc \ yes = d.pc \cap no
    BY DEF ContextOK
  <2> QED
    BY <2>1, <2>2 DEF Iterate, Narrowed, LoopItems
<1> HIDE DEF yes, no, items
<1>8. go = Push(Narrowed(d, n, yes), items)
  OBVIOUS
<1> HIDE DEF go
<1>9. /\ go.pc = d.pc \cap yes /\ go.code = d.code /\ Tracked(height, level, go)
      /\ AtInput(go, i) = Concrete!Enter(r, items)
  <2>1. items \in Seq(Item)
    BY <1>6
  <2>2. Low(height, level, items, Head(d.k).n)
    BY <1>3, <1>6
  <2>3. d.k # <<>>
    BY <1>3
  <2> QED
    BY <1>4, <1>8, <2>1, <2>2, <2>3, NarrowPush
<1>10. /\ ContextOK(rest) /\ rest.code = d.code /\ rest.k = d.k /\ rest.decls = d.decls
       /\ AtInput(rest, i) = r /\ rest.pc = d.pc \cap no
  BY NarrowTouch DEF Likewise
<1> HIDE DEF rest, r, now
<1>11. CASE Satisfiable(d, yes)
  <2>1. Covers(go, i) <=> i \in yes
    BY <1>3, <1>9 DEF Covers
  <2>2. Moves(height, level, c, {go}, i)
    BY <1>3, <1>5, <1>9, <2>1 DEF Moves, now
  <2> QED
    BY <1>7, <1>11, <2>2 DEF StepRuns
<1>12. CASE ~Satisfiable(d, yes)
  <2>1. i \notin yes
    BY <1>3, <1>12 DEF Satisfiable
  <2>2. c.pc \cap no = c.pc
    BY <1>3, <1>12 DEF Satisfiable, no, ContextOK
  <2>3. rest.pc = c.pc /\ rest.k = c.k /\ rest.code # "THROW"
        /\ (\E S : rest.decls \in Seq(S)) /\ c.k # <<>>
    BY <1>3, <1>4, <1>10, <2>2 DEF Tracked
  <2>4. Concrete!RunStep(AtInput(c, i), Concrete!Advance(AtInput(rest, i)))
    BY <1>5, <1>10, <2>1 DEF now
  <2>5. Become(c, {Pop(rest)}) /\ i \in c.pc
    BY <1>3, <1>7, <1>12
  <2> QED
    BY <1>3, <1>10, <2>3, <2>4, <2>5, PopMoves
<1> QED
  BY <1>11, <1>12

LEMMA WhileMoves ==
    ASSUME NEW height, NEW level, Falling(height, level),
           NEW c, Going(c), Tracked(height, level, c),
           NEW i \in Inputs, Covers(c, i), While(c)
    PROVE  StepRuns(height, level, c, i)
<1> DEFINE n == Node(c)
           s == Head(c.k).n
           none == <<>>
           r == AtInput(c, i)
<1>1. At(c, "while") /\ Become(c, {Iterate(c, n, s, none)})
  BY DEF While
<1>2. /\ n \in StmtDesc /\ n = Ast[s] /\ n.op = "while" /\ s \in Stmt
      /\ Concrete!RAt(r, "while") /\ AtStmt(c) /\ ContextOK(c) /\ c.code = "NONE"
  BY <1>1, AtNode
<1>3. none \in Seq(Stmt) /\ Below(height, none, height[s]) /\ Rest(c, c)
  BY DEF Below, Rest
<1>4. Below(height, n.body, height[s])
  BY <1>2, NodeFalls
<1>5. r.k = c.k
  BY RunFields DEF IsRun
<1>6. /\ Concrete!Val(r, n.e) =>
             Concrete!RLoop(r, Concrete!Enter(r, LoopItems(n.body, s, none)))
      /\ ~Concrete!Val(r, n.e) =>
             Concrete!RLoop(r, Concrete!Advance(r)) /\ Concrete!RLoop(r, Concrete!Gone)
  <2>1. Head(r.k).n = s /\ Ast[Head(r.k).n] = n /\ n.op # "for"
    BY <1>2, <1>5
  <2> HIDE DEF n, s, r
  <2> QED
    BY <1>2, <2>1, SameWords DEF Concrete!RLoop, LoopItems
<1> HIDE DEF n, none, r
<1>7. s = Head(c.k).n
  OBVIOUS
<1> HIDE DEF s
<1> QED
  BY <1>1, <1>2, <1>3, <1>4, <1>6, <1>7, IterateMoves DEF r

\* A loop is being entered when none of its visits is on the stack.
LEMMA EnteringView ==
    ASSUME NEW height, NEW level, Falling(height, level), NEW c, ContextOK(c),
           AtStmt(c), Tracked(height, level, c), NEW i
    PROVE  Visits(c, Head(c.k).n) = 0 <=> Concrete!Entering(AtInput(c, i))
<1> DEFINE k == c.k
           s == Head(k).n
           V == {j \in DOMAIN k : k[j].t = "brk" /\ k[j].n = s}
<1>1. /\ DOMAIN k = 1..Len(k) /\ Len(k) \in Nat /\ Len(k) >= 1 /\ Head(k) = k[1]
      /\ k[1].t = "stmt" /\ k[1] \in Item
  <2>1. k \in Seq(Item) /\ k # <<>> /\ Head(k).t = "stmt"
    BY DEF ContextOK, AtStmt
  <2> HIDE DEF k
  <2> QED
    BY <2>1
<1>2. Concrete!Entering(AtInput(c, i)) <=> ~(Len(k) > 1 /\ k[2].t = "brk" /\ k[2].n = s)
  <2>1. AtInput(c, i).k = k
    BY DEF AtInput
  <2> QED
    BY <2>1 DEF Concrete!Entering
<1>3. ASSUME NEW j \in V
      PROVE  Len(k) > 1 /\ k[2].t = "brk" /\ k[2].n = s
  <2>1. j \in 1..Len(k) /\ k[j].t = "brk" /\ k[j].n = s /\ j # 1
    BY <1>1
  <2>2. j \in (1 + 1)..Len(k) /\ 1 \in 1..Len(k)
    BY <1>1, <2>1
  <2>3. Ordered(height, level, k)
    BY DEF Tracked, Stacked
  <2> HIDE DEF k, s
  <2>4. Lower(height, k, 1, k[j].n)
    BY <2>1, <2>2, <2>3 DEF Ordered
  <2>5. ~(height[k[1].n] < height[s])
    <3>1. k[1].n = s /\ k[1].n \in Stmt
      BY <1>1 DEF s, Item
    <3>2. height[s] \in Nat
      BY <3>1 DEF Falling
    <3> QED
      BY <3>1, <3>2
  <2> QED
    BY <1>1, <2>1, <2>4, <2>5 DEF Lower
<1>4. Len(k) > 1 /\ k[2].t = "brk" /\ k[2].n = s => 2 \in V
  BY <1>1
<1>5. IsFiniteSet(V)
  <2>1. IsFiniteSet(1..Len(k))
    BY <1>1, FS_Interval
  <2> QED
    BY <1>1, <2>1, FS_Subset
<1>6. Cardinality(V) = 0 <=> V = {}
  <2> HIDE DEF V
  <2> QED
    BY <1>5, FS_EmptySet
<1>7. Visits(c, s) = Cardinality(V)
  BY DEF Visits
<1> HIDE DEF V
<1> QED
  BY <1>2, <1>3, <1>4, <1>6, <1>7

LEMMA ForMoves ==
    ASSUME NEW height, NEW level, Falling(height, level),
           NEW c, Going(c), Tracked(height, level, c),
           NEW i \in Inputs, Covers(c, i), For(c)
    PROVE  StepRuns(height, level, c, i)
<1> DEFINE n == Node(c)
           s == Head(c.k).n
           inits == IF Visits(c, s) = 0 THEN n.init ELSE <<>>
           first == Ast[inits[1]]
           d == IF inits = <<>> THEN c ELSE Declared(c, first)
           after == n.step
           r == AtInput(c, i)
           begun == IF inits = <<>> \/ first.e.op = "none" THEN r
                    ELSE Concrete!Write(r, first.x, Concrete!Val(r, first.e))
<1>1. At(c, "for") /\ (Abort \/ Become(c, {Iterate(d, n, s, after)}))
  BY Zenon DEF For, Node
<1>2. /\ n \in StmtDesc /\ n = Ast[s] /\ n.op = "for" /\ s \in Stmt
      /\ Concrete!RAt(r, "for") /\ AtStmt(c) /\ ContextOK(c) /\ c.code = "NONE"
  BY <1>1, AtNode
<1>3. after \in Seq(Stmt) /\ n.init \in Seq(Stmt)
  BY <1>2 DEF StmtDesc
<1>4. Below(height, n.body, height[s]) /\ Below(height, after, height[s])
  BY <1>2, NodeFalls
<1>5. r.k = c.k
  BY RunFields DEF IsRun
<1>6. inits = IF Concrete!Entering(r) THEN n.init ELSE <<>>
  BY <1>2, EnteringView
<1>7. ContextOK(d) /\ Rest(c, d) /\ AtInput(d, i) = begun
  <2>1. CASE inits = <<>>
    BY <1>2, <2>1 DEF Rest
  <2>2. CASE inits # <<>>
    <3>1. inits = n.init /\ 1 \in DOMAIN n.init /\ inits[1] \in Stmt
      BY <1>3, <2>2
    <3>2. first.op \in {"assign", "decl"} /\ first \in StmtDesc
      <4>1. first.op \in {"assign", "decl"}
        BY <1>2, <3>1, WellFormed
      <4> QED
        BY <3>1, <4>1, AstAssumption
    <3>3. first.x \in Vars
      BY <3>1, <3>2, WellFormed
    <3>4. d = Declared(c, first)
      BY <2>2
    <3>5. begun = IF first.e.op = "none" THEN r
                  ELSE Concrete!Write(r, first.x, Concrete!Val(r, first.e))
      BY <2>2
    <3> HIDE DEF first, d, begun
    <3>6. CASE first.e.op = "none"
      BY <1>2, <3>4, <3>5, <3>6 DEF Declared, Rest
    <3>7. CASE first.e.op # "none"
      BY <3>2, <3>3, <3>4, <3>5, <3>7, AssignView DEF Declared
    <3> QED
      BY <3>6, <3>7
  <2> QED
    BY <2>1, <2>2
<1>8. /\ Concrete!Val(begun, n.e) =>
             Concrete!RLoop(r, Concrete!Enter(begun, LoopItems(n.body, s, after)))
      /\ ~Concrete!Val(begun, n.e) =>
             Concrete!RLoop(r, Concrete!Advance(begun)) /\ Concrete!RLoop(r, Concrete!Gone)
  <2>1. Head(r.k).n = s /\ Ast[Head(r.k).n] = n
    BY <1>2, <1>5
  <2> DEFINE all == IF n.op = "for" THEN n.step ELSE <<>>
             ins == IF n.op = "for" /\ Concrete!Entering(r) THEN n.init ELSE <<>>
  <2>2. all = after /\ ins = inits
    BY <1>2, <1>6
  <2> HIDE DEF n, s, r, inits, after
  <2>3. \A next : Concrete!RLoop(r, next) <=>
            IF Concrete!Val(begun, n.e)
            THEN next = Concrete!Enter(begun, LoopItems(n.body, s, after))
            ELSE next = Concrete!Advance(begun) \/ next = Concrete!Gone
    BY <1>2, <2>1, <2>2, SameWords DEF Concrete!RLoop, LoopItems
  <2> HIDE DEF begun
  <2> QED
    BY <2>3
<1>9. CASE Abort
  BY <1>9 DEF StepRuns
<1>10. CASE Become(c, {Iterate(d, n, s, after)})
  <2>1. s = Head(c.k).n
    OBVIOUS
  <2> HIDE DEF n, after, r, s, d, begun
  <2> QED
    BY <1>2, <1>3, <1>4, <1>7, <1>8, <1>10, <2>1, IterateMoves DEF r
<1> QED
  BY <1>1, <1>9, <1>10

LEMMA ResetLike ==
    ASSUME NEW c, ContextOK(c), NEW code \in Codes \ {"NONE"}
    PROVE  /\ ContextOK(ResetIf(c, code)) /\ ResetIf(c, code).k = c.k
           /\ ResetIf(c, code).pc = c.pc /\ ResetIf(c, code).decls = c.decls
           /\ c.code # "THROW" => ResetIf(c, code).code # "THROW"
           /\ c.code = "THROW" /\ code # "THROW" => ResetIf(c, code).code = "THROW"
  BY DEF ContextOK, Fields, ResetIf, Resume, Codes

LEMMA MarkMoves ==
    ASSUME NEW height, NEW level, NEW c, Going(c), Tracked(height, level, c),
           NEW i \in Inputs, Covers(c, i), LoopBodyDone(c) \/ LoopDone(c)
    PROVE  StepRuns(height, level, c, i)
<1>1. ASSUME NEW code \in {"BREAK", "CONTINUE"}, Become(c, {Pop(ResetIf(c, code))}),
             Concrete!RLoopMark(AtInput(c, i),
                                Concrete!Advance(Concrete!Caught(AtInput(c, i), code)))
      PROVE  StepRuns(height, level, c, i)
  <2> DEFINE d == ResetIf(c, code)
  <2>0. code \in Codes \ {"NONE"}
    BY DEF Codes
  <2>1. /\ ContextOK(c) /\ c.k # <<>> /\ i \in c.pc /\ c.code # "THROW"
        /\ \E S : c.decls \in Seq(S)
    BY DEF Going, Covers, Tracked
  <2>2. ContextOK(d) /\ d.k = c.k /\ d.pc = c.pc /\ d.code # "THROW" /\ d.decls = c.decls
    BY <2>0, <2>1, ResetLike
  <2>3. AtInput(d, i) = Concrete!Caught(AtInput(c, i), code)
    BY <2>0, <2>1, ResetRun
  <2>4. Concrete!RunStep(AtInput(c, i), Concrete!Advance(AtInput(d, i)))
    BY <1>1, <2>3 DEF Concrete!RunStep
  <2>5. Become(c, {Pop(d)})
    BY <1>1
  <2> HIDE DEF d
  <2> QED
    BY <2>1, <2>2, <2>4, <2>5, PopMoves
<1>2. CASE LoopBodyDone(c)
  <2>1. AtMark(c, "cont") /\ Become(c, {Pop(ResetIf(c, "CONTINUE"))})
    BY <1>2 DEF LoopBodyDone
  <2>2. Concrete!RMark(AtInput(c, i), "cont")
    BY <2>1, WhereRun DEF Going
  <2>3. Concrete!RLoopMark(AtInput(c, i),
                Concrete!Advance(Concrete!Caught(AtInput(c, i), "CONTINUE")))
    BY <2>2 DEF Concrete!RLoopMark
  <2> QED
    BY <1>1, <2>1, <2>3
<1>3. CASE LoopDone(c)
  <2>1. AtMark(c, "brk") /\ Become(c, {Pop(ResetIf(c, "BREAK"))})
    BY <1>3 DEF LoopDone
  <2>2. Concrete!RMark(AtInput(c, i), "brk")
    BY <2>1, WhereRun DEF Going
  <2>3. Concrete!RLoopMark(AtInput(c, i),
                Concrete!Advance(Concrete!Caught(AtInput(c, i), "BREAK")))
    BY <2>2 DEF Concrete!RLoopMark
  <2> QED
    BY <1>1, <2>1, <2>3
<1> QED
  BY <1>2, <1>3

(***************************************************************************)
(* Depths and scopes: no variable changes with them.                       *)
(***************************************************************************)
LEMMA RunDepth ==
    ASSUME NEW v, NEW g, NEW o, NEW s, NEW dep, NEW e, NEW k, NEW r,
           IsRun(r, v, g, o, s, dep, e, k), NEW f, NEW x
    PROVE  IsRun([r EXCEPT !.depth[f] = x], v, g, o, s, [dep EXCEPT ![f] = x], e, k)
<1> DEFINE n == [dep EXCEPT ![f] = x]
<1>1. [r EXCEPT !.depth[f] = x] = [r EXCEPT !.depth = n]
  BY DEF IsRun
<1> HIDE DEF n
<1>2. IsRun([r EXCEPT !.depth = n], v, g, o, s, n, e, k)
  BY RunExcept
<1> QED
  BY <1>1, <1>2 DEF n

LEMMA DepthRun ==
    ASSUME NEW c, ContextOK(c), NEW f \in Funcs, NEW i
    PROVE  LET d == [c EXCEPT !.depth[f] = @ - 1]
           IN  /\ ContextOK(d) /\ d.k = c.k /\ d.pc = c.pc /\ d.decls = c.decls
               /\ d.code = c.code
               /\ AtInput(d, i) = [AtInput(c, i) EXCEPT !.depth[f] = @ - 1]
<1> DEFINE dep == [c.depth EXCEPT ![f] = c.depth[f] - 1]
           d == [c EXCEPT !.depth[f] = @ - 1]
           r == AtInput(c, i)
           x == c.depth[f] - 1
<1>1. dep \in [Funcs -> Int]
  BY DEF ContextOK
<1>2. d = [c EXCEPT !.depth = dep]
  OBVIOUS
<1> HIDE DEF dep, d
<1>3. /\ ContextOK(d) /\ d.k = c.k /\ d.pc = c.pc /\ d.decls = c.decls /\ d.code = c.code
      /\ d.goHead = c.goHead /\ d.scope = c.scope /\ d.depth = dep
      /\ d.state = c.state /\ d.local = c.local
  BY <1>1, <1>2 DEF ContextOK, Fields
<1>4. Vals(d, i) = Vals(c, i)
  BY <1>3, MapsVals
<1>5. IsRun(AtInput(d, i), Vals(c, i), c.goHead, c.code, c.scope, dep,
            Told(c.decls, i), c.k)
  BY <1>3, <1>4, RunFields
<1>6. IsRun(r, Vals(c, i), c.goHead, c.code, c.scope, c.depth, Told(c.decls, i), c.k)
  BY RunFields
<1> HIDE DEF r
<1>7. r.depth[f] - 1 = x
  BY <1>6 DEF IsRun
<1> HIDE DEF x
<1>8. IsRun([r EXCEPT !.depth[f] = x], Vals(c, i), c.goHead, c.code, c.scope,
            [c.depth EXCEPT ![f] = x], Told(c.decls, i), c.k)
  BY <1>6, RunDepth
<1>9. AtInput(d, i) = [r EXCEPT !.depth[f] = x]
  BY <1>5, <1>8, SameRun DEF dep, x
<1> QED
  BY <1>3, <1>7, <1>9 DEF d, r

LEMMA FinishMoves ==
    ASSUME NEW height, NEW level, NEW c, ContextOK(c), Tracked(height, level, c),
           NEW i \in Inputs, Covers(c, i), Finish(c), entry \in Funcs
    PROVE  StepRuns(height, level, c, i)
<1> DEFINE e == [c EXCEPT !.depth[entry] = @ - 1]
           r == AtInput(c, i)
           u == [r EXCEPT !.depth[entry] = @ - 1]
           d == ResetIf(e, "RETURN")
<1>1. c.k = <<>> /\ c.depth[entry] > 0 /\ Become(c, {d})
  BY DEF Finish
<1>2. r.alive /\ r.k = c.k /\ r.depth = c.depth
  BY RunFields DEF IsRun
<1>3. Concrete!RFinish(r, Concrete!Caught(u, "RETURN"))
  BY <1>1, <1>2 DEF Concrete!RFinish
<1>4. /\ ContextOK(e) /\ e.k = c.k /\ e.pc = c.pc /\ e.decls = c.decls /\ e.code = c.code
      /\ AtInput(e, i) = u
  BY DepthRun
<1> HIDE DEF e, u, r
<1>5. "RETURN" \in Codes \ {"NONE"}
  BY DEF Codes
<1>6. AtInput(d, i) = Concrete!Caught(u, "RETURN")
  BY <1>4, <1>5, ResetRun
<1>7. d.k = c.k /\ d.pc = c.pc /\ d.decls = c.decls /\ d.code # "THROW"
  BY <1>4, <1>5, ResetLike DEF Covers
<1>8. Tracked(height, level, d)
  BY <1>7 DEF Tracked
<1>9. Concrete!RunStep(AtInput(c, i), AtInput(d, i))
  BY <1>3, <1>6 DEF Concrete!RunStep, r
<1> HIDE DEF d
<1> QED
  BY <1>1, <1>7, <1>8, <1>9, OneMoves DEF Covers

Params(c, d, ps, vs) ==
    /\ \A j \in DOMAIN ps : /\ <<ps[j], 1>> \in DOMAIN d.local
                            /\ d.local[<<ps[j], 1>>] = vs[j]
    /\ \A key : (\A j \in DOMAIN ps : key # <<ps[j], 1>>) =>
           /\ key \in DOMAIN d.local <=> key \in DOMAIN c.local
           /\ key \in DOMAIN d.local => d.local[key] = c.local[key]
SameState(c, d) == /\ d.pc = c.pc /\ d.state = c.state /\ d.goHead = c.goHead
                   /\ d.code = c.code /\ d.decls = c.decls /\ d.k = c.k

LEMMA BindView ==
    ASSUME NEW e, ContextOK(e), e.depth[e.scope] = 1, NEW ps, NEW vs,
           \A j \in DOMAIN ps : ps[j] \in Vars,
           \A j, l \in DOMAIN ps : ps[j] = ps[l] => j = l,
           NEW b, b = Bind(e, ps, vs)
    PROVE  /\ ContextOK(b) /\ SameState(e, b) /\ b.scope = e.scope /\ b.depth = e.depth
           /\ Params(e, b, ps, vs)
<1> DEFINE keys == {Key(e, ps[j]) : j \in DOMAIN ps}
           arg  == [key \in keys |-> vs[CHOOSE j \in DOMAIN ps : Key(e, ps[j]) = key]]
           loc  == Extend(arg, e.local)
<1>1. \A x : Key(e, x) = <<x, 1>>
  BY DEF Key
<1>2. b = [e EXCEPT !.local = loc]
  BY DEF Bind
<1>3. keys = {<<ps[j], 1>> : j \in DOMAIN ps}
  BY <1>1
<1>4. keys \subseteq Vars \X Int
  BY <1>3
<1>5. ASSUME NEW j \in DOMAIN ps
      PROVE  <<ps[j], 1>> \in keys /\ arg[<<ps[j], 1>>] = vs[j]
  <2>1. <<ps[j], 1>> \in keys
    BY <1>3
  <2> DEFINE l == CHOOSE l \in DOMAIN ps : Key(e, ps[l]) = <<ps[j], 1>>
  <2>2. l \in DOMAIN ps /\ Key(e, ps[l]) = <<ps[j], 1>>
    BY <1>1, Zenon
  <2>3. arg[<<ps[j], 1>>] = vs[l]
    BY <2>1, Zenon
  <2> HIDE DEF l, arg, keys
  <2>4. l = j
    BY <1>1, <2>2
  <2> QED
    BY <2>1, <2>3, <2>4
<1>6. DOMAIN arg = keys
  BY Zenon
<1> HIDE DEF arg, keys
<1>7. DOMAIN loc \subseteq Vars \X Int
  BY <1>4, <1>6 DEF Extend, ContextOK
<1>8. \A j \in DOMAIN ps : <<ps[j], 1>> \in DOMAIN loc /\ loc[<<ps[j], 1>>] = vs[j]
  BY <1>5, <1>6 DEF Extend
<1>9. \A key : key \notin keys =>
          /\ key \in DOMAIN loc <=> key \in DOMAIN e.local
          /\ key \in DOMAIN loc => loc[key] = e.local[key]
  BY <1>6 DEF Extend
<1> HIDE DEF loc
<1>10. /\ ContextOK(b) /\ SameState(e, b) /\ b.scope = e.scope /\ b.depth = e.depth
       /\ b.local = loc
  BY <1>2, <1>7 DEF ContextOK, Fields, SameState
<1>11. \A key : (\A j \in DOMAIN ps : key # <<ps[j], 1>>) => key \notin keys
  BY <1>3
<1> QED
  BY <1>8, <1>9, <1>10, <1>11 DEF Params

\* The values of the cells when the parameters are bound.
Own(ps, fresh) == \A j \in DOMAIN ps : /\ <<ps[j], 1>> \in fresh /\ ps[j] \in Vars
                                       /\ ps[j] \notin StateVars
Bound(c, b, ps, vs, fresh, i) ==
    /\ \A key \in Cells \ fresh : CellValue(b, key, i) = CellValue(c, key, i)
    /\ \A j \in DOMAIN ps : /\ <<ps[j], 1>> \in Cells
                            /\ CellValue(b, <<ps[j], 1>>, i) = vs[j][i]

LEMMA ParamVals ==
    ASSUME NEW c, NEW t, NEW b, NEW ps, NEW vs, NEW fresh, NEW i, Own(ps, fresh),
           AlikeBut(c, t, i, {}), Params(t, b, ps, vs), b.state = t.state
    PROVE  Bound(c, b, ps, vs, fresh, i)
<1>1. ASSUME NEW key \in Cells \ fresh
      PROVE  CellValue(b, key, i) = CellValue(c, key, i)
  <2>1. \A j \in DOMAIN ps : key # <<ps[j], 1>>
    BY <1>1 DEF Own
  <2>2. CellValue(b, key, i) = CellValue(t, key, i)
    BY <2>1 DEF CellValue, Params
  <2>3. CellValue(t, key, i) = CellValue(c, key, i)
    BY DEF AlikeBut
  <2> QED
    BY <2>2, <2>3
<1>2. ASSUME NEW j \in DOMAIN ps
      PROVE  <<ps[j], 1>> \in Cells /\ CellValue(b, <<ps[j], 1>>, i) = vs[j][i]
  <2>1. <<ps[j], 1>> \in Cells
    BY FirstCell DEF Own
  <2>2. <<ps[j], 1>>[1] \notin StateVars
    BY DEF Own
  <2> QED
    BY <2>1, <2>2 DEF CellValue, Params
<1> QED
  BY <1>1, <1>2 DEF Bound

\* The run of the callee: its step in the form of the fields of a run.
Entered(now, next, f, x, items) ==
    /\ DOMAIN next = DOMAIN now
    /\ next = [Concrete!Enter([now EXCEPT !.depth[f] = x, !.scope = f], items)
                 EXCEPT !.vals = next.vals]

LEMMA CalleeRun ==
    ASSUME NEW now, NEW next, NEW v, NEW w, NEW g, NEW o, NEW s, NEW f, NEW dep, NEW dp,
           NEW e, NEW k, NEW items, NEW all, NEW x, dp = [dep EXCEPT ![f] = x],
           all = items \o Tail(k), IsRun(now, v, g, o, s, dep, e, k),
           IsRun(next, w, g, o, f, dp, e, all)
    PROVE  Entered(now, next, f, x, items)
<1> DEFINE r1 == [now EXCEPT !.depth[f] = x]
           r2 == [r1 EXCEPT !.scope = f]
           r3 == [r2 EXCEPT !.k = all]
           r4 == [r3 EXCEPT !.vals = w]
<1>1. IsRun(r1, v, g, o, s, dp, e, k)
  BY RunDepth
<1>2. Concrete!Enter(r2, items) = [r2 EXCEPT !.k = items \o Tail(r2.k)]
  BY DEF Concrete!Enter
<1> HIDE DEF r1
<1>3. IsRun(r2, v, g, o, f, dp, e, k)
  BY <1>1, RunExcept
<1> HIDE DEF r2
<1>4. r2.k = k
  BY <1>3 DEF IsRun
<1>5. IsRun(r3, v, g, o, f, dp, e, all)
  BY <1>3, RunExcept
<1>6. Concrete!Enter(r2, items) = r3
  BY <1>2, <1>4
<1> HIDE DEF r3
<1>7. IsRun(r4, w, g, o, f, dp, e, all)
  BY <1>5, RunExcept
<1>8. next = r4
  BY <1>7, SameRun
<1>9. next.vals = w /\ DOMAIN next = DOMAIN now
  BY DEF IsRun
<1>10. next = [Concrete!Enter(r2, items) EXCEPT !.vals = next.vals]
  BY <1>6, <1>8, <1>9
<1> QED
  BY <1>9, <1>10 DEF r2, r1, Entered

\* A call of the run, of statement n, into depth x.
Called(now, next, n, x, fresh, items) ==
    /\ Entered(now, next, n.f, x, items)
    /\ DOMAIN next.vals = Concrete!Cells
    /\ \A key \in Concrete!Cells \ fresh : next.vals[key] = now.vals[key]
    /\ \A j \in DOMAIN Fun[n.f].params : x <= MaxDepth =>
           next.vals[<<Fun[n.f].params[j], x>>] = Concrete!Val(now, n.args[j])
Inner(n, x) == {<<y, x>> : y \in Fun[n.f].locals}
Into(n, s, up) == Concrete!Stmts(Fun[n.f].body) \o Concrete!Ret(s, up)

LEMMA CalledRun ==
    ASSUME NEW now, NEW next, Concrete!RAt(now, "call"), NEW n, n = Concrete!Here(now),
           NEW x, x = now.depth[n.f] + 1, NEW s, s = Head(now.k).n,
           NEW up, up = now.scope, Called(now, next, n, x, Inner(n, x), Into(n, s, up))
    PROVE  Concrete!RCall(now, next)
<1> DEFINE m == Concrete!Here(now)
           y == now.depth[m.f] + 1
<1>1. Called(now, next, m, y, Inner(m, y), Into(m, Head(now.k).n, now.scope))
  OBVIOUS
<1> QED
  BY <1>1, Zenon DEF Concrete!RCall, Called, Entered, Inner, Into

LEMMA CallMoves ==
    ASSUME NEW height, NEW level, Falling(height, level),
           NEW c, Going(c), Tracked(height, level, c),
           NEW i \in Inputs, Covers(c, i), Call(c)
    PROVE  StepRuns(height, level, c, i)
<1> DEFINE s  == Head(c.k).n
           n  == Node(c)
           f  == n.f
           ps == Fun[f].params
           locals == Fun[f].locals
           body == Fun[f].body
           vs == [j \in DOMAIN n.args |-> Translate(c, n.args[j])]
           xs == UNION {Reads(n.args[j]) : j \in DOMAIN n.args}
           t  == Touch(c, xs)
           e  == [t EXCEPT !.depth[f] = @ + 1]
           b  == Bind(e, ps, vs)
           g  == [b EXCEPT !.scope = f]
           items == Stmts(body) \o Ret(s, c.scope)
           last == Push(g, items)
           r  == AtInput(c, i)
           next == AtInput(last, i)
           dep == [c.depth EXCEPT ![f] = 1]
<1>1. At(c, "call") /\ Become(c, {last})
  BY Zenon DEF Call
<1>2. /\ ContextOK(c) /\ c.k # <<>> /\ i \in c.pc /\ c.code # "THROW" /\ Depths(c)
  BY DEF Going, Covers
<1>3. /\ n \in StmtDesc /\ n = Ast[s] /\ n.op = "call" /\ s \in Stmt /\ AtStmt(c)
      /\ Concrete!RAt(r, "call") /\ Concrete!Here(r) = n
  BY <1>1, AtNode
<1>4. f \in Funcs /\ ps \in Seq(Vars) /\ body \in Seq(Stmt) /\ Len(n.args) = Len(ps)
      /\ n.args \in Seq(Expr)
  BY <1>3, WellFormed, AstAssumption DEF StmtDesc
<1>5. /\ \A j \in DOMAIN ps : ps[j] \in locals /\ ps[j] \in Vars /\ ps[j] \notin StateVars
      /\ \A j, l \in DOMAIN ps : ps[j] = ps[l] => j = l
  <2>1. /\ locals \cap StateVars = {} /\ \A j \in DOMAIN ps : ps[j] \in locals
        /\ \A j, l \in DOMAIN ps : ps[j] = ps[l] => j = l
    BY <1>4, LocalsAssumption
  <2>2. \A j \in DOMAIN ps : ps[j] \in Vars
    BY <1>4
  <2> QED
    BY <2>1, <2>2
<1>6. c.depth[f] = 0 /\ c.depth[c.scope] = 1 /\ c.scope \in Funcs
      /\ c.depth \in [Funcs -> Int]
  BY <1>2, <1>3 DEF Depths, Flat, ContextOK
<1>7. DOMAIN n.args = DOMAIN ps /\ \A j \in DOMAIN ps : vs[j] = Translate(c, n.args[j])
  BY <1>4
<1>8. xs \in SUBSET Vars
  <2>1. \A j \in DOMAIN n.args : n.args[j] \in Expr
    BY <1>4
  <2> QED
    BY <2>1, ReadsType
<1>9. /\ level[f] < height[s] /\ Below(height, body, level[f])
  BY <1>2, <1>3, NodeFalls
<1>10. items \in Seq(Item) /\ Low(height, level, items, s)
  <2>1. f = Ast[s].f /\ Ast[s].op = "call"
    BY <1>3
  <2>2. height \in [Stmt -> Nat] /\ level \in [Funcs -> Nat]
    BY DEF Falling
  <2>3. level[Ast[s].f] < height[s] /\ Below(height, body, level[Ast[s].f])
    BY <1>9, <2>1
  <2> HIDE DEF s, n, f, body
  <2> QED
    BY <1>3, <1>4, <1>6, <2>1, <2>2, <2>3, LowCall
<1>11. /\ Concrete!Val(r, n.e) = Concrete!Val(r, n.e)
       /\ \A j \in DOMAIN ps : vs[j][i] = Concrete!Val(r, n.args[j])
  BY <1>7, ValueView
<1>12. /\ Head(r.k).n = s /\ r.scope = c.scope /\ r.depth = c.depth /\ r.vals = Vals(c, i)
  BY RunFields DEF IsRun
<1> HIDE DEF n, vs, xs, body, locals, ps, f, s, items
<1>13. /\ ContextOK(t) /\ Rest(c, t) /\ AlikeBut(c, t, i, {})
  BY <1>2, <1>8, TouchView
<1> HIDE DEF t
<1>14. /\ ContextOK(e) /\ e.scope = c.scope /\ e.depth = dep /\ SameState(t, e)
       /\ e.local = t.local
  <2> DEFINE up == [t.depth EXCEPT ![f] = t.depth[f] + 1]
  <2>1. up \in [Funcs -> Int] /\ up = dep
    <3>1. t.depth = c.depth
      BY <1>13 DEF Rest
    <3>2. t.depth[f] + 1 = 1
      BY <1>6, <3>1
    <3>3. up = dep
      BY <3>1, <3>2
    <3> QED
      BY <1>6, <3>3
  <2>2. e = [t EXCEPT !.depth = up]
    OBVIOUS
  <2> HIDE DEF up, e
  <2> QED
    BY <1>13, <2>1, <2>2 DEF ContextOK, Fields, Rest, SameState
<1>15. e.depth[e.scope] = 1
  BY <1>4, <1>6, <1>14
<1>16. b = Bind(e, ps, vs)
  OBVIOUS
<1> HIDE DEF e, b
<1>17. /\ ContextOK(b) /\ SameState(e, b) /\ b.scope = e.scope /\ b.depth = e.depth
       /\ Params(e, b, ps, vs)
  <2>1. ContextOK(e)
    BY <1>14
  <2>2. \A j \in DOMAIN ps : ps[j] \in Vars
    BY <1>5
  <2>3. \A j, l \in DOMAIN ps : ps[j] = ps[l] => j = l
    BY <1>5
  <2> QED
    BY <1>15, <1>16, <2>1, <2>2, <2>3, BindView
<1>18. /\ ContextOK(g) /\ SameState(b, g) /\ g.scope = f /\ g.depth = b.depth
       /\ g.local = b.local
  BY <1>4, <1>17 DEF ContextOK, Fields, SameState
<1> HIDE DEF g
<1>19. /\ g.pc = c.pc /\ g.goHead = c.goHead /\ g.code = c.code /\ g.decls = c.decls
       /\ g.k = c.k /\ g.depth = dep /\ g.state = t.state /\ Params(t, g, ps, vs)
  BY <1>13, <1>14, <1>17, <1>18 DEF Rest, SameState, Params
<1> DEFINE fresh == {<<x, 1>> : x \in locals}
<1>20. Bound(c, g, ps, vs, fresh, i)
  <2>1. AlikeBut(c, t, i, {})
    BY <1>13
  <2>2. Params(t, g, ps, vs)
    BY <1>19
  <2>3. g.state = t.state
    BY <1>19
  <2>4. Own(ps, fresh)
    BY <1>5 DEF Own
  <2> HIDE DEF fresh
  <2> QED
    BY <2>1, <2>2, <2>3, <2>4, ParamVals
<1>21. Tracked(height, level, last)
  <2>1. Low(height, level, items, Head(c.k).n)
    BY <1>10 DEF s
  <2> QED
    BY <1>2, <1>10, <1>18, <1>19, <2>1, TrackedPush
<1>22. /\ last.pc = c.pc /\ last.code = c.code /\ last.goHead = c.goHead
       /\ last.decls = c.decls /\ last.k = items \o Tail(c.k) /\ last.depth = dep
       /\ last.scope = f /\ last.state = g.state /\ last.local = g.local
  BY <1>18, <1>19 DEF Push, ContextOK, Fields
<1>23. Become(c, {last})
  BY <1>1
<1> HIDE DEF last
<1>24. Vals(last, i) = Vals(g, i)
  BY <1>22, MapsVals
<1> DEFINE all == items \o Tail(c.k)
           x == 1
<1>25. IsRun(next, Vals(g, i), c.goHead, c.code, f, dep, Told(c.decls, i), all)
  BY <1>22, <1>24, RunFields
<1>26. IsRun(r, Vals(c, i), c.goHead, c.code, c.scope, c.depth, Told(c.decls, i), c.k)
  BY RunFields
<1> HIDE DEF next, r
<1>27. Entered(r, next, f, x, items)
  <2>1. dep = [c.depth EXCEPT ![f] = x] /\ all = items \o Tail(c.k)
    OBVIOUS
  <2> HIDE DEF dep, all, x
  <2> QED
    BY <1>25, <1>26, <2>1, CalleeRun
<1>28. next.vals = Vals(g, i)
  BY <1>25 DEF IsRun
<1>29. /\ DOMAIN next.vals = Cells
       /\ \A key \in Cells \ fresh : next.vals[key] = r.vals[key]
       /\ \A j \in DOMAIN ps : next.vals[<<ps[j], 1>>] = Concrete!Val(r, n.args[j])
  <2> HIDE DEF Cells, fresh
  <2>1. /\ \A key \in Cells : next.vals[key] = CellValue(g, key, i)
        /\ \A key \in Cells : r.vals[key] = CellValue(c, key, i)
        /\ DOMAIN next.vals = Cells
    BY <1>12, <1>28 DEF Vals
  <2> QED
    BY <1>11, <1>20, <2>1 DEF Bound
<1>30. Concrete!RCall(r, next)
  <2>1. x = r.depth[n.f] + 1
    BY <1>6, <1>12 DEF f
  <2>2. Concrete!Cells = Cells
    BY DEF Concrete!Cells, Cells
  <2>3. items = Into(n, s, c.scope)
    BY SameWords DEF items, Into, body, f
  <2>4. fresh = Inner(n, x)
    BY DEF fresh, Inner, locals, f
  <2>5. Called(r, next, n, x, fresh, items)
    <3>1. Entered(r, next, n.f, x, items)
      BY <1>27 DEF f
    <3>2. DOMAIN next.vals = Concrete!Cells
      BY <1>29, <2>2
    <3>3. \A key \in Concrete!Cells \ fresh : next.vals[key] = r.vals[key]
      BY <1>29, <2>2
    <3>4. \A j \in DOMAIN Fun[n.f].params :
              next.vals[<<Fun[n.f].params[j], x>>] = Concrete!Val(r, n.args[j])
      BY <1>29 DEF ps, f
    <3> HIDE DEF fresh, x
    <3> QED
      BY <3>1, <3>2, <3>3, <3>4, Zenon DEF Called
  <2> HIDE DEF fresh, x
  <2>6. Called(r, next, n, x, Inner(n, x), Into(n, s, c.scope))
    BY <2>3, <2>4, <2>5
  <2>7. Concrete!RAt(r, "call") /\ n = Concrete!Here(r)
    BY <1>3 DEF r
  <2>8. s = Head(r.k).n /\ c.scope = r.scope
    BY <1>12
  <2> QED
    BY <2>1, <2>6, <2>7, <2>8, CalledRun
<1>31. Concrete!RunStep(AtInput(c, i), AtInput(last, i))
  BY <1>30 DEF Concrete!RunStep, r, next
<1>32. last.pc = c.pc /\ last.code # "THROW"
  BY <1>2, <1>22
<1> QED
  BY <1>2, <1>21, <1>23, <1>31, <1>32, OneMoves

\* The frame of the caller: its scope, and the depth of the callee lowered.
Lowered(depth, f) == [depth EXCEPT ![f] = depth[f] - 1]
Left(c, f, up) == [c EXCEPT !.scope = up, !.depth[f] = @ - 1]

LEMMA LeftRun ==
    ASSUME NEW c, ContextOK(c), NEW f \in Funcs, NEW up \in Funcs, NEW i,
           NEW e, e = Left(c, f, up)
    PROVE  /\ ContextOK(e) /\ e.k = c.k /\ e.pc = c.pc /\ e.decls = c.decls
           /\ e.code = c.code /\ e.scope = up /\ e.local = c.local
           /\ e.depth = Lowered(c.depth, f)
           /\ AtInput(e, i) = Left(AtInput(c, i), f, up)
<1> DEFINE dep == [c.depth EXCEPT ![f] = c.depth[f] - 1]
           r == AtInput(c, i)
           q == [r EXCEPT !.scope = up]
           x == c.depth[f] - 1
<1>1. dep \in [Funcs -> Int]
  BY DEF ContextOK
<1>2. e = [c EXCEPT !.scope = up, !.depth = dep]
  BY DEF Left, ContextOK, Fields
<1> HIDE DEF dep
<1>3. /\ ContextOK(e) /\ e.k = c.k /\ e.pc = c.pc /\ e.decls = c.decls /\ e.code = c.code
      /\ e.goHead = c.goHead /\ e.scope = up /\ e.depth = dep
      /\ e.state = c.state /\ e.local = c.local
  BY <1>1, <1>2 DEF ContextOK, Fields
<1>4. Vals(e, i) = Vals(c, i)
  BY <1>3, MapsVals
<1>5. IsRun(AtInput(e, i), Vals(c, i), c.goHead, c.code, up, dep, Told(c.decls, i), c.k)
  BY <1>3, <1>4, RunFields
<1>6. IsRun(r, Vals(c, i), c.goHead, c.code, c.scope, c.depth, Told(c.decls, i), c.k)
  BY RunFields
<1> HIDE DEF r
<1>7. IsRun(q, Vals(c, i), c.goHead, c.code, up, c.depth, Told(c.decls, i), c.k)
  BY <1>6, RunExcept
<1>8. Left(r, f, up) = [q EXCEPT !.depth[f] = q.depth[f] - 1]
  BY <1>6 DEF Left, IsRun, RunNames
<1> HIDE DEF q
<1>9. q.depth[f] - 1 = x
  BY <1>7 DEF IsRun
<1> HIDE DEF x
<1>10. IsRun([q EXCEPT !.depth[f] = x], Vals(c, i), c.goHead, c.code, up,
             [c.depth EXCEPT ![f] = x], Told(c.decls, i), c.k)
  BY <1>7, RunDepth
<1>11. AtInput(e, i) = [q EXCEPT !.depth[f] = x]
  BY <1>5, <1>10, SameRun DEF dep, x
<1> QED
  BY <1>3, <1>8, <1>9, <1>11 DEF r, dep, Lowered

LEMMA ResetFlat ==
    ASSUME NEW c, ContextOK(c), Flat(c), NEW code
    PROVE  Flat(ResetIf(c, code)) /\ ResetIf(c, code).local = c.local
  BY DEF ContextOK, Fields, ResetIf, Resume, Flat

Caller(r, n, v, up) ==
    LET back == Concrete!Caught(Left(r, n.f, up), "RETURN")
    IN  IF n.x = NoVar THEN back ELSE Concrete!Write(back, n.x, v)

LEMMA CallerRun ==
    ASSUME NEW now, Concrete!RMark(now, "ret"), NEW n, n = Ast[Head(now.k).n],
           NEW v, v = now.vals[<<Fun[n.f].ret, now.depth[n.f]>>],
           NEW up, up = Head(now.k).up
    PROVE  Concrete!RCallReturn(now, Concrete!Advance(Caller(now, n, v, up)))
<1> DEFINE m == Ast[Head(now.k).n]
           w == now.vals[<<Fun[m.f].ret, now.depth[m.f]>>]
<1>1. Concrete!RCallReturn(now, Concrete!Advance(Caller(now, m, w, Head(now.k).up)))
  BY Zenon DEF Concrete!RCallReturn, Caller, Left
<1> QED
  BY <1>1

LEMMA CallReturnMoves ==
    ASSUME NEW height, NEW level, NEW c, Going(c), Tracked(height, level, c),
           NEW i \in Inputs, Covers(c, i), CallReturn(c)
    PROVE  StepRuns(height, level, c, i)
<1> DEFINE m   == Head(c.k)
           n   == Ast[m.n]
           f   == n.f
           x   == n.x
           ret == Fun[f].ret
           e   == Left(c, f, m.up)
           d   == ResetIf(e, "RETURN")
           up  == [d EXCEPT !.depth[f] = @ + 1]
           v   == c.local[<<ret, 1>>]
           t   == Touch(d, {x})
           r   == AtInput(c, i)
           back == Concrete!Caught(Left(r, f, m.up), "RETURN")
           w   == r.vals[<<ret, 1>>]
<1>1. /\ AtMark(c, "ret")
      /\ IF x = NoVar THEN Become(c, {Pop(d)})
         ELSE IF Key(up, ret) \notin DOMAIN c.local THEN Abort
         ELSE Become(c, {Pop(Update(t, x, c.local[Key(up, ret)]))})
  BY Zenon DEF CallReturn, Left
<1>2. /\ ContextOK(c) /\ c.k # <<>> /\ i \in c.pc /\ c.code # "THROW"
      /\ (\E S : c.decls \in Seq(S)) /\ Flat(c) /\ c.k \in Seq(Item)
      /\ c.depth \in [Funcs -> Int]
  BY DEF Going, Covers, Tracked, Depths, ContextOK
<1>3. /\ f = c.scope /\ m.up \in Funcs /\ m.up # c.scope /\ c.depth[m.up] = 1
  BY <1>1 DEF Going, Depths, Callee
<1>4. /\ m \in Item /\ m.t = "ret" /\ m.n \in Stmt /\ n.op = "call"
  <2>1. 1 \in 1..Len(c.k) /\ m = c.k[1]
    BY <1>2
  <2>2. m.t = "ret"
    BY <1>1 DEF AtMark
  <2>3. m.n \in Stmt /\ n.op = "call"
    BY <1>2, <2>1, <2>2, ItemType DEF Tracked, Stacked, Ordered
  <2> QED
    BY <1>2, <2>1, <2>2, <2>3
<1>5. f \in Funcs /\ n \in StmtDesc /\ (x # NoVar => ret # NoVar /\ x \in Vars)
  BY <1>4, WellFormed, AstAssumption DEF StmtDesc
<1>6. c.depth[f] = 1
  BY <1>2, <1>3 DEF Flat
<1>7. r.depth = c.depth /\ r.vals = Vals(c, i) /\ Head(r.k) = m
  BY RunFields DEF IsRun
<1>8. Concrete!RCallReturn(r, Concrete!Advance(Caller(r, n, w, m.up)))
  <2>1. Concrete!RMark(r, "ret")
    BY <1>1, <1>2, WhereRun
  <2>2. w = r.vals[<<Fun[n.f].ret, r.depth[n.f]>>]
    BY <1>6, <1>7
  <2>3. n = Ast[Head(r.k).n] /\ m.up = Head(r.k).up
    BY <1>7
  <2> HIDE DEF w, r, n, m
  <2> QED
    BY <2>1, <2>2, <2>3, CallerRun
<1>9. Caller(r, n, w, m.up) = IF x = NoVar THEN back ELSE Concrete!Write(back, x, w)
  BY Zenon DEF Caller
<1>10. e = Left(c, f, m.up)
  OBVIOUS
<1> HIDE DEF m, n, f, ret, x, w, back, e, r
<1>11. /\ ContextOK(e) /\ e.k = c.k /\ e.pc = c.pc /\ e.decls = c.decls
      /\ e.code = c.code /\ e.scope = m.up /\ e.local = c.local
      /\ e.depth = Lowered(c.depth, f) /\ AtInput(e, i) = Left(r, f, m.up)
  <2> DEFINE g == m.up
  <2>1. g \in Funcs /\ e = Left(c, f, g)
    BY <1>3, <1>10
  <2> HIDE DEF g
  <2>2. /\ ContextOK(e) /\ e.k = c.k /\ e.pc = c.pc /\ e.decls = c.decls
        /\ e.code = c.code /\ e.scope = g /\ e.local = c.local
        /\ e.depth = Lowered(c.depth, f) /\ AtInput(e, i) = Left(AtInput(c, i), f, g)
    BY <1>2, <1>5, <2>1, LeftRun
  <2> QED
    BY <2>2 DEF g, r
<1>12. Flat(e)
  <2>1. e.depth[f] = 0 /\ \A g \in Funcs : g # f => e.depth[g] = c.depth[g]
    BY <1>2, <1>5, <1>6, <1>11 DEF Lowered
  <2> QED
    BY <1>2, <1>3, <1>11, <2>1 DEF Flat
<1>13. "RETURN" \in Codes \ {"NONE"}
  BY DEF Codes
<1>14. /\ ContextOK(d) /\ d.k = c.k /\ d.pc = c.pc /\ d.decls = c.decls
       /\ d.code # "THROW" /\ Flat(d) /\ d.local = c.local
       /\ AtInput(d, i) = back
  BY <1>2, <1>11, <1>12, <1>13, ResetLike, ResetFlat, ResetRun DEF back
<1>15. d.scope = m.up /\ d.depth = e.depth
  BY <1>11 DEF ResetIf, Resume, ContextOK, Fields
<1> HIDE DEF d
<1>16. CASE x = NoVar
  <2>1. Become(c, {Pop(d)})
    BY <1>1, <1>16
  <2>2. Concrete!RCallReturn(AtInput(c, i), Concrete!Advance(AtInput(d, i)))
    BY <1>8, <1>14, <1>16, <1>9 DEF r
  <2>3. Concrete!RunStep(AtInput(c, i), Concrete!Advance(AtInput(d, i)))
    BY <2>2 DEF Concrete!RunStep
  <2> QED
    BY <1>2, <1>14, <2>1, <2>3, PopMoves
<1>17. CASE x # NoVar /\ Key(up, ret) \notin DOMAIN c.local
  BY <1>1, <1>17 DEF StepRuns
<1>18. CASE x # NoVar /\ Key(up, ret) \in DOMAIN c.local
  <2> DEFINE u == Update(t, x, v)
  <2>1. Key(up, ret) = <<ret, 1>>
    <3>1. up.scope = m.up /\ up.depth[m.up] = d.depth[m.up]
      BY <1>3, <1>14, <1>15 DEF ContextOK, Fields
    <3>2. d.depth[m.up] = 1
      BY <1>2, <1>3, <1>5, <1>11, <1>15 DEF Lowered
    <3> HIDE DEF up
    <3> QED
      BY <3>1, <3>2 DEF Key
  <2>2. Become(c, {Pop(u)})
    BY <1>1, <1>18, <2>1
  <2>3. x \in Vars /\ ret \in Vars /\ ret \notin StateVars
    <3>1. ret \in Fun[f].locals /\ Fun[f].locals \cap StateVars = {}
      BY <1>5, <1>18, LocalsAssumption DEF ret
    <3>2. Fun[f].locals \in SUBSET Vars
      BY <1>5, AstAssumption
    <3> QED
      BY <1>5, <1>18, <3>1, <3>2
  <2>4. v[i] = w
    <3>1. <<ret, 1>> \in Cells /\ <<ret, 1>> \in DOMAIN c.local
      BY <1>18, <2>1, <2>3, FirstCell
    <3>2. CellValue(c, <<ret, 1>>, i) = v[i]
      BY <2>3, <3>1 DEF CellValue
    <3> HIDE DEF v
    <3> QED
      BY <1>7, <3>1, <3>2 DEF Vals, w
  <2> HIDE DEF v
  <2>5. {x} \in SUBSET Vars
    BY <2>3
  <2>6. ContextOK(t) /\ Rest(d, t) /\ AtInput(t, i) = back
    BY <1>14, <2>5, TouchView, TouchRun
  <2> HIDE DEF t
  <2>7. Flat(t)
    BY <1>14, <2>6 DEF Flat, Rest
  <2>8. ContextOK(u) /\ Rest(t, u)
    BY <2>3, <2>6, <2>7, UpdateView
  <2>9. AtInput(u, i) = Concrete!Write(AtInput(t, i), x, v[i])
    BY <2>3, <2>6, <2>7, UpdateRun
  <2> HIDE DEF u
  <2>10. /\ u.k = c.k /\ u.pc = c.pc /\ u.code # "THROW" /\ u.decls = c.decls
        /\ AtInput(u, i) = Concrete!Write(back, x, w)
    BY <1>14, <2>4, <2>6, <2>8, <2>9 DEF Rest
  <2>11. Concrete!RCallReturn(AtInput(c, i), Concrete!Advance(AtInput(u, i)))
    BY <1>8, <1>18, <1>9, <2>10 DEF r
  <2>12. Concrete!RunStep(AtInput(c, i), Concrete!Advance(AtInput(u, i)))
    BY <2>11 DEF Concrete!RunStep
  <2> QED
    BY <1>2, <2>2, <2>8, <2>10, <2>12, PopMoves
<1> QED
  BY <1>16, <1>17, <1>18

\* A step of the context that covers the input.
LEMMA StepMoves ==
    ASSUME NEW height, NEW level, Falling(height, level),
           NEW c, ContextOK(c), Framed(c), Tracked(height, level, c),
           NEW i \in Inputs, Covers(c, i), Step(c)
    PROVE  StepRuns(height, level, c, i)
<1>1. CASE Finish(c)
  BY <1>1, FinishMoves DEF Falling
<1>2. CASE ~Finish(c)
  <2>1. c.k # <<>>
    <3>1. ASSUME c.k = <<>> PROVE Finish(c)
      <4>1. \A op, t : ~At(c, op) /\ ~AtMark(c, t) /\ ~AtStmt(c)
        BY <3>1 DEF At, AtMark, AtStmt
      <4> QED
        BY <4>1, Zenon DEF Step, DropThrown, Skip, Assign, Decl, SetEnv, Declare, If,
           Require, Assert, Throw, Break, Continue, Return, While, For, LoopBodyDone,
           LoopDone, Call, CallReturn
    <3> QED
      BY <1>2, <3>1
  <2>2. Going(c)
    BY <2>1, OneDeep DEF Falling, Tracked, Going
  <2>3. ~DropThrown(c)
    BY DEF DropThrown, Covers
  <2>4. CASE Skip(c)
    BY <2>2, <2>4, SkipMoves
  <2>5. CASE Assign(c)
    BY <2>2, <2>5, AssignMoves
  <2>6. CASE Decl(c)
    BY <2>2, <2>6, DeclMoves
  <2>7. CASE SetEnv(c)
    BY <2>2, <2>7, SetEnvMoves
  <2>8. CASE Declare(c)
    BY <2>2, <2>8, DeclareMoves
  <2>9. CASE If(c)
    BY <2>2, <2>9, IfMoves
  <2>10. CASE Require(c)
    BY <2>2, <2>10, RequireMoves
  <2>11. CASE Assert(c)
    BY <2>2, <2>11, AssertMoves
  <2>12. CASE Throw(c)
    BY <2>2, <2>12, ThrowMoves
  <2>13. CASE Break(c) \/ Continue(c)
    BY <2>2, <2>13, SignalMoves
  <2>14. CASE Return(c)
    BY <2>2, <2>14, ReturnMoves
  <2>15. CASE While(c)
    BY <2>2, <2>15, WhileMoves
  <2>16. CASE For(c)
    BY <2>2, <2>16, ForMoves
  <2>17. CASE LoopBodyDone(c) \/ LoopDone(c)
    BY <2>2, <2>17, MarkMoves
  <2>18. CASE Call(c)
    BY <2>2, <2>18, CallMoves
  <2>19. CASE CallReturn(c)
    BY <2>2, <2>19, CallReturnMoves
  <2> QED
    BY <1>2, <2>3, <2>4, <2>5, <2>6, <2>7, <2>8, <2>9, <2>10, <2>11, <2>12, <2>13,
       <2>14, <2>15, <2>16, <2>17, <2>18, <2>19, Zenon DEF Step
<1> QED
  BY <1>1, <1>2

(***************************************************************************)
(* A step of any other context leaves the input where it is: its successors *)
(* cover no more than it does, and a path that threw stays thrown.          *)
(***************************************************************************)
Silent(c, i) == Abort \/ \E succ : Become(c, succ) /\ \A d \in succ : ~Covers(d, i)
Thrown(c)    == DOMAIN c = Fields /\ c.code = "THROW"

LEMMA ThrownStays ==
    ASSUME NEW c, Thrown(c)
    PROVE  /\ Thrown(Pop(c))
           /\ \A code : code # "THROW" => Thrown(ResetIf(c, code))
           /\ \A f, up : Thrown(Left(c, f, up)) /\ Thrown([c EXCEPT !.depth[f] = @ - 1])
           /\ \A xs : Thrown(Touch(c, xs))
           /\ \A x, v : Thrown(Update(c, x, v))
<1>1. Thrown(Pop(c))
  BY DEF Thrown, Fields, Pop
<1>2. \A code : code # "THROW" => Thrown(ResetIf(c, code))
  BY DEF Thrown, ResetIf
<1>3. ASSUME NEW f, NEW up
      PROVE  Thrown(Left(c, f, up)) /\ Thrown([c EXCEPT !.depth[f] = @ - 1])
  BY DEF Thrown, Fields, Left
<1>4. ASSUME NEW xs PROVE Thrown(Touch(c, xs))
  <2> DEFINE loc == Extend(c.local, [key \in {Key(c, x) : x \in {y \in xs : ~InState(c, y)}}
                                       |-> Symbol(key)])
  <2>1. Touch(c, xs) = [c EXCEPT !.local = loc]
    BY DEF Touch
  <2> HIDE DEF loc
  <2> QED
    BY <2>1 DEF Thrown, Fields
<1>5. ASSUME NEW x, NEW v PROVE Thrown(Update(c, x, v))
  <2>1. ASSUME NEW loc PROVE Thrown([c EXCEPT !.local = loc])
    BY DEF Thrown, Fields
  <2>2. ASSUME NEW st PROVE Thrown([c EXCEPT !.state = st])
    BY DEF Thrown, Fields
  <2> DEFINE st  == [c.state EXCEPT ![x] = v]
             loc == Put(c.local, Key(c, x), v)
  <2>3. Update(c, x, v) = [c EXCEPT !.state = st] \/ Update(c, x, v) = [c EXCEPT !.local = loc]
    BY DEF Update
  <2> HIDE DEF st, loc
  <2> QED
    BY <2>1, <2>2, <2>3
<1> QED
  BY <1>1, <1>2, <1>3, <1>4, <1>5

LEMMA ThrownStep ==
    ASSUME NEW c, ContextOK(c), c.code = "THROW", Step(c), NEW i
    PROVE  Silent(c, i)
<1>1. Thrown(c) /\ ~c.goHead
  BY DEF ContextOK, Thrown
<1>2. \A op : ~At(c, op)
  BY <1>1 DEF At
<1>3. ASSUME NEW d, Thrown(d), Become(c, {d}) \/ Become(c, {Pop(d)})
      PROVE  Silent(c, i)
  <2>1. ~Covers(d, i)
    BY <1>3 DEF Covers, Thrown
  <2>2. ~Covers(Pop(d), i)
    BY <1>3, ThrownStays DEF Covers, Thrown
  <2> QED
    BY <1>3, <2>1, <2>2 DEF Silent
<1>4. CASE DropThrown(c)
  BY <1>4 DEF DropThrown, Silent
<1>5. CASE LoopBodyDone(c)
  <2>1. Become(c, {Pop(ResetIf(c, "CONTINUE"))})
    BY <1>5 DEF LoopBodyDone
  <2>2. Thrown(ResetIf(c, "CONTINUE"))
    BY <1>1, ThrownStays
  <2> QED
    BY <1>3, <2>1, <2>2
<1>6. CASE LoopDone(c)
  <2>1. Become(c, {Pop(ResetIf(c, "BREAK"))})
    BY <1>6 DEF LoopDone
  <2>2. Thrown(ResetIf(c, "BREAK"))
    BY <1>1, ThrownStays
  <2> QED
    BY <1>3, <2>1, <2>2
<1>7. CASE Finish(c)
  <2> DEFINE e == [c EXCEPT !.depth[entry] = @ - 1]
  <2>1. Become(c, {ResetIf(e, "RETURN")})
    BY <1>7 DEF Finish
  <2>2. Thrown(e)
    BY <1>1, ThrownStays
  <2> HIDE DEF e
  <2>3. Thrown(ResetIf(e, "RETURN"))
    BY <2>2, ThrownStays
  <2> QED
    BY <1>3, <2>1, <2>3
<1>8. CASE CallReturn(c)
  <2> DEFINE m == Head(c.k)
             n == Ast[m.n]
             d == ResetIf(Left(c, n.f, m.up), "RETURN")
             r == Key([d EXCEPT !.depth[n.f] = @ + 1], Fun[n.f].ret)
  <2>1. \/ Become(c, {Pop(d)}) \/ Abort
        \/ Become(c, {Pop(Update(Touch(d, {n.x}), n.x, c.local[r]))})
    BY <1>8, Zenon DEF CallReturn, Left
  <2>2. Thrown(Left(c, n.f, m.up))
    BY <1>1, ThrownStays
  <2>3. Thrown(d)
    BY <2>2, ThrownStays
  <2> HIDE DEF d, r, n
  <2>4. Thrown(Touch(d, {n.x}))
    BY <2>3, ThrownStays
  <2>5. Thrown(Update(Touch(d, {n.x}), n.x, c.local[r]))
    BY <2>4, ThrownStays
  <2> QED
    BY <1>3, <2>1, <2>3, <2>5 DEF Silent
<1> QED
  BY <1>2, <1>4, <1>5, <1>6, <1>7, <1>8, Zenon DEF Step, Skip, Assign, Decl, SetEnv,
     Declare, If, Require, Assert, Throw, Break, Continue, Return, While, For, Call

LEMMA StepSilent ==
    ASSUME NEW c, ContextOK(c), entry \in Entries, Step(c), NEW i, ~Covers(c, i)
    PROVE  Silent(c, i)
<1>1. CASE c.code = "THROW"
  BY <1>1, ThrownStep
<1>2. CASE i \notin c.pc
  BY <1>2, StepLemma DEF StepOK, SuccOK, Silent, Covers
<1> QED
  BY <1>1, <1>2 DEF Covers

(***************************************************************************)
(* The run of the input: the one context that covers it, or none.           *)
(***************************************************************************)
Cover(S, i) == {c \in S : Covers(c, i)}
RunIn(S, i) == IF S = {} THEN [alive |-> FALSE] ELSE AtInput(CHOOSE c \in S : TRUE, i)

LEMMA RunViews ==
    /\ RunOf(probe) = RunIn(Cover(ctxs, probe), probe)
    /\ RunOf(probe)' = RunIn(Cover(ctxs', probe'), probe')
<1>1. RunOf(probe) = RunIn(Cover(ctxs, probe), probe)
  BY Zenon DEF RunOf, RunIn, Covering, Cover, Covers
<1>2. RunOf(probe)' = RunIn(Cover(ctxs', probe'), probe')
  BY Zenon DEF RunOf, RunIn, Covering, Cover, Covers
<1> QED
  BY <1>1, <1>2

LEMMA RunInOne ==
    ASSUME NEW S, \A c, d \in S : c # d => c.pc \cap d.pc = {},
           NEW c \in S, NEW i, Covers(c, i)
    PROVE  RunIn(Cover(S, i), i) = AtInput(c, i)
<1>1. Cover(S, i) = {c}
  BY DEF Cover, Covers
<1>2. (CHOOSE d \in {c} : TRUE) = c
  OBVIOUS
<1> QED
  BY <1>1, <1>2 DEF RunIn

LEMMA RunInNone ==
    ASSUME NEW S, NEW i, \A c \in S : ~Covers(c, i)
    PROVE  RunIn(Cover(S, i), i) = Concrete!Gone
<1>1. Cover(S, i) = {}
  BY DEF Cover
<1> QED
  BY <1>1 DEF RunIn, Concrete!Gone

AllTracked(height, level, S, i) == \A c \in S : Covers(c, i) => Tracked(height, level, c)

Onward(height, level, i) ==
    /\ entry' = entry
    /\ LET now  == RunIn(Cover(ctxs, i), i)
           next == RunIn(Cover(ctxs', i), i)
       IN  now = next \/ Concrete!RunStep(now, next)
    /\ AllTracked(height, level, ctxs', i)

LEMMA MovesOnward ==
    ASSUME NEW height, NEW level, DisjointPaths, DisjointPaths',
           NEW i, AllTracked(height, level, ctxs, i), NEW c \in ctxs, Covers(c, i),
           StepRuns(height, level, c, i)
    PROVE  Onward(height, level, i)
<1>1. CASE Abort
  BY <1>1 DEF Abort, Onward
<1>2. ASSUME NEW succ, Become(c, succ), Moves(height, level, c, succ, i)
      PROVE  Onward(height, level, i)
  <2>1. ctxs' = (ctxs \ {c}) \cup succ /\ entry' = entry
    BY <1>2 DEF Become
  <2>2. RunIn(Cover(ctxs, i), i) = AtInput(c, i)
    BY RunInOne DEF DisjointPaths
  <2>3. \A d \in ctxs \ {c} : ~Covers(d, i)
    BY DEF DisjointPaths, Covers
  <2>4. AllTracked(height, level, ctxs', i)
    BY <1>2, <2>1, <2>3 DEF AllTracked, Moves
  <2>5. CASE \A d \in succ : ~Covers(d, i)
    <3>1. \A d \in ctxs' : ~Covers(d, i)
      BY <2>1, <2>3, <2>5
    <3>2. RunIn(Cover(ctxs', i), i) = Concrete!Gone
      BY <3>1, RunInNone
    <3> QED
      BY <1>2, <2>1, <2>2, <2>4, <2>5, <3>2 DEF Moves, Onward
  <2>6. ASSUME NEW d \in succ, Covers(d, i)
        PROVE  Onward(height, level, i)
    <3>1. d \in ctxs' /\ \A a, b \in ctxs' : a # b => a.pc \cap b.pc = {}
      BY <2>1 DEF DisjointPaths
    <3>2. RunIn(Cover(ctxs', i), i) = AtInput(d, i)
      BY <2>6, <3>1, RunInOne
    <3> QED
      BY <1>2, <2>1, <2>2, <2>4, <2>6, <3>2 DEF Moves, Onward
  <2> QED
    BY <2>5, <2>6
<1> QED
  BY <1>1, <1>2 DEF StepRuns

LEMMA SilentOnward ==
    ASSUME NEW height, NEW level, NEW i, AllTracked(height, level, ctxs, i),
           NEW c \in ctxs, ~Covers(c, i), Silent(c, i)
    PROVE  Onward(height, level, i)
<1>1. CASE Abort
  BY <1>1 DEF Abort, Onward
<1>2. ASSUME NEW succ, Become(c, succ), \A d \in succ : ~Covers(d, i)
      PROVE  Onward(height, level, i)
  <2>1. ctxs' = (ctxs \ {c}) \cup succ /\ entry' = entry
    BY <1>2 DEF Become
  <2>2. Cover(ctxs', i) = Cover(ctxs, i)
    BY <1>2, <2>1 DEF Cover
  <2>3. AllTracked(height, level, ctxs', i)
    BY <1>2, <2>1 DEF AllTracked
  <2> QED
    BY <2>1, <2>2, <2>3 DEF Onward
<1> QED
  BY <1>1, <1>2 DEF Silent

LEMMA NextOnward ==
    ASSUME NEW height, NEW level, Falling(height, level), TypeOK, AllFramed,
           DisjointPaths, DisjointPaths', NEW i \in Inputs,
           AllTracked(height, level, ctxs, i), [Next]_vars
    PROVE  Onward(height, level, i)
<1>1. CASE UNCHANGED vars
  BY <1>1 DEF vars, Onward
<1>2. ASSUME NEW c \in ctxs, Overflow(c)
      PROVE  Onward(height, level, i)
  BY <1>2 DEF Overflow, Abort, Onward
<1>3. ASSUME NEW c \in ctxs, Step(c)
      PROVE  Onward(height, level, i)
  <2>1. ContextOK(c) /\ Framed(c) /\ entry \in Entries
    BY DEF TypeOK, AllFramed
  <2>2. CASE Covers(c, i)
    <3>1. Tracked(height, level, c)
      BY <2>2 DEF AllTracked
    <3>2. StepRuns(height, level, c, i)
      BY <1>3, <2>1, <2>2, <3>1, StepMoves
    <3> QED
      BY <2>2, <3>2, MovesOnward
  <2>3. CASE ~Covers(c, i)
    <3>1. Silent(c, i)
      BY <1>3, <2>1, <2>3, StepSilent
    <3> QED
      BY <2>3, <3>1, SilentOnward
  <2> QED
    BY <2>2, <2>3
<1> QED
  BY <1>1, <1>2, <1>3 DEF Next, Proceed

LEMMA RunStarts ==
    ASSUME NEW height, NEW level, Falling(height, level), Init, probe \in Inputs
    PROVE  RunOf(probe) = Concrete!Start(entry) /\ AllTracked(height, level, ctxs, probe)
<1> DEFINE c == InitContext(entry)
           r == Concrete!Start(entry)
           v == [key \in Cells |-> Concrete!Given(key)]
           body == Fun[entry].body
<1>1. ctxs = {c} /\ entry \in Entries /\ entry \in Funcs
  BY EntriesAssumption DEF Init
<1>2. /\ c.goHead = TRUE /\ c.code = "NONE" /\ c.scope = entry
      /\ c.depth = [g \in Funcs |-> IF g = entry THEN 1 ELSE 0]
      /\ c.decls = <<>> /\ c.k = Stmts(body) /\ c.pc = Inputs
      /\ c.state = [x \in StateVars |-> Symbol(<<x, 1>>)]
      /\ c.local = [key \in (Vars \ StateVars) \X {1} |-> Symbol(key)]
  BY DEF InitContext
<1>3. Covers(c, probe)
  BY <1>2 DEF Covers
<1> HIDE DEF c, body
<1>4. RunIn(Cover(ctxs, probe), probe) = AtInput(c, probe)
  BY <1>1, <1>3, RunInOne
<1>5. ASSUME NEW key \in Cells
      PROVE  CellValue(c, key, probe) = Concrete!Given(key)
  <2>1. CellValue(c, key, probe) = Symbol(key)[probe]
    <3>1. CASE key[1] \in StateVars
      <4>1. key = <<key[1], 1>>
        BY <3>1 DEF Cells
      <4> QED
        BY <1>2, <3>1, <4>1 DEF CellValue
    <3>2. CASE key[1] \notin StateVars
      BY <1>2, <3>2 DEF CellValue
    <3> QED
      BY <3>1, <3>2
  <2>2. Symbol(key)[probe] = Concrete!Given(key)
    BY DEF Symbol, Concrete!Given
  <2> QED
    BY <2>1, <2>2
<1>6. Vals(c, probe) = v
  <2> HIDE DEF Cells
  <2> QED
    BY <1>5 DEF Vals
<1>7. Told(c.decls, probe) = <<>>
  BY <1>2 DEF Told
<1> DEFINE dep == [g \in Funcs |-> IF g = entry THEN 1 ELSE 0]
           yes == TRUE
           none == "NONE"
           nil == <<>>
           items == Stmts(body)
<1>8. Concrete!Cells = Cells /\ Concrete!Stmts(body) = items
  BY SameWords DEF Concrete!Cells, Cells
<1>9. r = [alive |-> TRUE, vals |-> v, goHead |-> yes, code |-> none, scope |-> entry,
           depth |-> dep, decls |-> nil, k |-> items]
  BY <1>8, Zenon DEF Concrete!Start, body
<1> HIDE DEF v, dep, yes, none, nil, items, r
<1>10. r.alive = TRUE
  BY <1>9, Zenon
<1>11. IsRun(r, v, yes, none, entry, dep, nil, items)
  BY <1>9, <1>10 DEF IsRun, RunNames
<1>12. /\ c.goHead = yes /\ c.code = none /\ c.scope = entry /\ c.depth = dep
       /\ Told(c.decls, probe) = nil /\ c.k = items
  BY <1>2, <1>7 DEF yes, none, dep, nil, items
<1>13. IsRun(AtInput(c, probe), v, yes, none, entry, dep, nil, items)
  BY <1>6, <1>12, RunFields
<1>14. AtInput(c, probe) = r
  BY <1>11, <1>13, SameRun
<1>15. Tracked(height, level, c)
  <2>1. body \in Seq(Stmt)
    BY <1>1, AstAssumption DEF body
  <2>2. level[entry] <= level[entry]
    BY <1>1 DEF Falling
  <2>3. Below(height, body, level[entry])
    BY <1>1, <2>2 DEF Falling, Falls, Below, body
  <2>4. /\ \A j \in 1..Len(items) : /\ j \in DOMAIN body
                                    /\ items[j].t = "stmt" /\ items[j].n = body[j]
    BY <2>1, StmtsItems DEF items
  <2>5. Ordered(height, level, items) /\ Under(height, items, level[entry])
    <3>1. Len(items) \in Nat
      BY <2>1, StmtsItems DEF items
    <3> QED
      BY <2>3, <2>4, <3>1 DEF Ordered, Under, Below
  <2>6. c.decls \in Seq({})
    BY <1>2
  <2> QED
    BY <1>12, <2>5, <2>6 DEF Tracked, Stacked
<1> QED
  BY <1>1, <1>4, <1>14, <1>15, RunViews DEF AllTracked, r

\* A run is followed while heights and levels bound what the paths still hold.
Followed ==
    \E height, level : Falling(height, level) /\ AllTracked(height, level, ctxs, probe)

LEMMA FollowedStep ==
    ASSUME TypeOK, AllFramed, DisjointPaths, DisjointPaths', probe \in Inputs, Followed,
           [RNext]_<<vars, probe>>
    PROVE  /\ Followed' /\ (probe \in Inputs)'
           /\ [Concrete!RunNext]_<<RunOf(probe), probe, entry>>
<1> DEFINE now == RunIn(Cover(ctxs, probe), probe)
           next == RunIn(Cover(ctxs', probe), probe)
<1>1. PICK height, level : Falling(height, level) /\ AllTracked(height, level, ctxs, probe)
  BY DEF Followed
<1>2. [Next]_vars /\ probe' = probe
  BY DEF RNext, vars
<1>3. Onward(height, level, probe)
  BY <1>1, <1>2, NextOnward
<1>4. RunOf(probe) = now /\ RunOf(probe)' = next
  BY <1>2, RunViews
<1>5. entry' = entry /\ (now = next \/ Concrete!RunStep(now, next))
      /\ AllTracked(height, level, ctxs', probe)
  BY <1>3 DEF Onward
<1> HIDE DEF now, next
<1>6. Falling(height, level)'
  BY <1>1, <1>5 DEF Falling
<1>7. AllTracked(height, level, ctxs, probe)'
  BY <1>2, <1>5 DEF AllTracked, Tracked, Stacked
<1>8. CASE now = next
  BY <1>2, <1>4, <1>5, <1>6, <1>7, <1>8 DEF Followed
<1>9. CASE Concrete!RunStep(now, next)
  <2>1. Concrete!RunNext
    <3>1. UNCHANGED <<probe, entry>>
      BY <1>2, <1>5
    <3> QED
      BY <1>4, <1>9, <3>1, Zenon DEF Concrete!RunNext
  <2> QED
    BY <1>2, <1>6, <1>7, <2>1 DEF Followed
<1> QED
  BY <1>5, <1>8, <1>9

(* FollowsRun: of a contract no function of which is active twice at a time *)
(* in the entry function, every path is a run: each input in its path       *)
(* condition runs through the same statements, to the values the path holds *)
(* for it and the mechanism it declares, whatever branches, loops, calls,   *)
(* returns and reverts the path goes through; an input is given up only     *)
(* at a loop exit or at an assert (SymExecEngine::strongestPostcondition).  *)
THEOREM PathsAreRuns == RSpec /\ NoRecursion(entry) => FollowsRun
<1>1. RInit => Init
  BY DEF RInit
<1>2. [RNext]_<<vars, probe>> => [Next]_vars
  BY DEF RNext, vars
<1>3. RInit /\ NoRecursion(entry) => Followed /\ probe \in Inputs /\ Concrete!RunInit
  <2> SUFFICES ASSUME RInit, NoRecursion(entry)
               PROVE  Followed /\ probe \in Inputs /\ Concrete!RunInit
    OBVIOUS
  <2>1. PICK height \in [Stmt -> Nat], level \in [Funcs -> Nat] :
            Falls(entry, height, level)
    BY DEF NoRecursion
  <2>2. Init /\ probe \in Inputs /\ entry \in Funcs
    BY EntriesAssumption DEF RInit, Init
  <2>3. Falling(height, level)
    BY <2>1, <2>2 DEF Falling
  <2>4. RunOf(probe) = Concrete!Start(entry) /\ AllTracked(height, level, ctxs, probe)
    BY <2>2, <2>3, RunStarts
  <2> QED
    BY <2>2, <2>3, <2>4 DEF Followed, Concrete!RunInit
<1>4. /\ TypeOK /\ AllFramed /\ DisjointPaths /\ DisjointPaths'
      /\ probe \in Inputs /\ Followed /\ [RNext]_<<vars, probe>>
      => /\ Followed' /\ (probe \in Inputs)'
         /\ [Concrete!RunNext]_<<RunOf(probe), probe, entry>>
  BY FollowedStep
<1>5. Spec => [](TypeOK /\ AllFramed) /\ []DisjointPaths
  BY AlwaysFramed, PathsDisjoint, PTL
<1> QED
  BY <1>1, <1>2, <1>3, <1>4, <1>5, PTL DEF RSpec, Spec, FollowsRun, Concrete!RunSpec
=============================================================================
