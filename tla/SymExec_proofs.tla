--------------------------- MODULE SymExec_proofs ---------------------------
(***************************************************************************)
(* Proofs about SymExec, for every contract, every set of inputs and every *)
(* bound of the stack.                                                     *)
(*                                                                         *)
(* A step replaces one context by a set of contexts.  StepLemma says what  *)
(* both invariants need of that set: its members are contexts again, their *)
(* path conditions are subsets of the old one, and disjoint.  The lemmas   *)
(* before it say so of the helpers the handlers are built from.            *)
(***************************************************************************)
EXTENDS SymExec, SequenceTheorems, FiniteSetTheorems, TLAPS

LEMMA KeyType ==
    ASSUME NEW c, ContextOK(c), NEW x \in Vars
    PROVE  Key(c, x) \in Vars \X Int
  BY DEF ContextOK, Key

LEMMA StmtsType ==
    ASSUME NEW seq \in Seq(Stmt)
    PROVE  Stmts(seq) \in Seq(Item)
<1>1. \A j \in DOMAIN seq : [t |-> "stmt", n |-> seq[j], up |-> NoFunc] \in Item
  BY DEF Item
<1>2. DOMAIN seq = 1..Len(seq) /\ Len(seq) \in Nat
  OBVIOUS
<1>3. Stmts(seq) = [j \in 1..Len(seq) |-> [t |-> "stmt", n |-> seq[j], up |-> NoFunc]]
  BY <1>2 DEF Stmts
<1> QED
  BY <1>1, <1>2, <1>3

LEMMA NodeType ==
    ASSUME NEW c, ContextOK(c), AtStmt(c)
    PROVE  /\ Head(c.k).n \in Stmt
           /\ Node(c) \in StmtDesc
<1>1. Head(c.k) \in Item
  BY DEF ContextOK, AtStmt
<1>2. Head(c.k).n \in Stmt
  BY <1>1 DEF Item
<1> QED
  BY <1>2, AstAssumption DEF Node

LEMMA ReadsType ==
    ASSUME NEW e \in Expr
    PROVE  Reads(e) \subseteq Vars
  BY DEF Expr, Reads

\* What a helper leaves alone.
Same(c, d) == d.pc = c.pc /\ d.k = c.k

LEMMA TouchOK ==
    ASSUME NEW c, ContextOK(c), NEW xs \in SUBSET Vars
    PROVE  ContextOK(Touch(c, xs)) /\ Same(c, Touch(c, xs))
<1> DEFINE new == {Key(c, x) : x \in {y \in xs : ~InState(c, y)}}
           loc == Extend(c.local, [key \in new |-> Symbol(key)])
<1>1. new \subseteq Vars \X Int
  BY KeyType
<1>2. DOMAIN loc \subseteq Vars \X Int
  BY <1>1 DEF Extend, ContextOK
<1>3. Touch(c, xs) = [c EXCEPT !.local = loc]
  BY DEF Touch
<1> HIDE DEF loc
<1> QED
  BY <1>2, <1>3 DEF ContextOK, Fields, Same

LEMMA UpdateOK ==
    ASSUME NEW c, ContextOK(c), NEW x \in Vars, NEW v
    PROVE  ContextOK(Update(c, x, v)) /\ Same(c, Update(c, x, v))
<1>1. CASE InState(c, x)
  <2>1. Update(c, x, v) = [c EXCEPT !.state = [@ EXCEPT ![x] = v]]
    BY <1>1 DEF Update
  <2> QED
    BY <2>1 DEF ContextOK, Fields, Same
<1>2. CASE ~InState(c, x)
  <2>1. Key(c, x) \in Vars \X Int
    BY KeyType
  <2>2. DOMAIN Put(c.local, Key(c, x), v) \subseteq Vars \X Int
    BY <2>1 DEF Put, ContextOK
  <2>3. Update(c, x, v) = [c EXCEPT !.local = Put(c.local, Key(c, x), v)]
    BY <1>2 DEF Update
  <2> HIDE DEF Put
  <2> QED
    BY <2>2, <2>3 DEF ContextOK, Fields, Same
<1> QED
  BY <1>1, <1>2

LEMMA AssignToOK ==
    ASSUME NEW c, ContextOK(c), NEW n \in StmtDesc, n.x \in Vars
    PROVE  ContextOK(AssignTo(c, n)) /\ Same(c, AssignTo(c, n))
<1> DEFINE d == Touch(c, Reads(n.e) \cup {n.x})
<1>1. Reads(n.e) \cup {n.x} \in SUBSET Vars
  BY ReadsType DEF StmtDesc
<1>2. ContextOK(d) /\ Same(c, d)
  BY <1>1, TouchOK
<1>3. /\ ContextOK(Update(d, n.x, Translate(c, n.e)))
      /\ Same(d, Update(d, n.x, Translate(c, n.e)))
  BY <1>2, UpdateOK
<1> QED
  BY <1>2, <1>3 DEF AssignTo, Same

LEMMA PopOK ==
    ASSUME NEW c, ContextOK(c), c.k # <<>>
    PROVE  ContextOK(Pop(c)) /\ Pop(c).pc = c.pc
<1>1. Tail(c.k) \in Seq(Item)
  BY DEF ContextOK
<1> QED
  BY <1>1 DEF Pop, ContextOK, Fields

LEMMA PushOK ==
    ASSUME NEW c, ContextOK(c), c.k # <<>>, NEW items \in Seq(Item)
    PROVE  ContextOK(Push(c, items)) /\ Push(c, items).pc = c.pc
<1>1. items \o Tail(c.k) \in Seq(Item)
  BY DEF ContextOK
<1> QED
  BY <1>1 DEF Push, ContextOK, Fields

LEMMA NarrowOK ==
    ASSUME NEW c, ContextOK(c), NEW p \in SUBSET Inputs
    PROVE  /\ ContextOK([c EXCEPT !.pc = p])
           /\ [c EXCEPT !.pc = p].k = c.k
           /\ [c EXCEPT !.pc = p].pc = p
  BY DEF ContextOK, Fields

LEMMA SignalOK ==
    ASSUME NEW c, ContextOK(c), NEW code \in Codes \ {"NONE"}
    PROVE  /\ ContextOK(Halt(c, code)) /\ Same(c, Halt(c, code))
           /\ ContextOK(ResetIf(c, code)) /\ Same(c, ResetIf(c, code))
  BY DEF ContextOK, Fields, Same, Halt, ResetIf, Resume, Codes

-----------------------------------------------------------------------------
(* Steps                                                                   *)
SuccOK(c, succ) ==
    /\ \A s \in succ : ContextOK(s) /\ s.pc \subseteq c.pc
    /\ \A s, t \in succ : s # t => s.pc \cap t.pc = {}

StepOK(c) == Abort \/ \E succ : Become(c, succ) /\ SuccOK(c, succ)

LEMMA OneOK ==
    ASSUME NEW c, NEW d, ContextOK(d), d.pc \subseteq c.pc, Become(c, {d})
    PROVE  StepOK(c)
  BY DEF StepOK, SuccOK

LEMMA PopTo ==
    ASSUME NEW c, ContextOK(c), NEW d, ContextOK(d), c.k # <<>>, d.k = c.k,
           d.pc \subseteq c.pc, Become(c, {Pop(d)})
    PROVE  StepOK(c)
<1>1. ContextOK(Pop(d)) /\ Pop(d).pc = d.pc
  BY PopOK
<1> QED
  BY <1>1, OneOK

LEMMA SimpleSteps ==
    ASSUME NEW c, ContextOK(c),
           \/ DropThrown(c) \/ Skip(c) \/ Assign(c) \/ Decl(c) \/ SetEnv(c)
           \/ Declare(c) \/ Require(c) \/ Assert(c) \/ Throw(c) \/ Break(c)
           \/ Continue(c) \/ Return(c) \/ LoopBodyDone(c) \/ LoopDone(c)
    PROVE  StepOK(c)
<1> DEFINE n == Node(c)
           d == Touch(c, Reads(n.e))
<1>1. CASE DropThrown(c)
  BY <1>1 DEF DropThrown, StepOK, SuccOK
<1>2. CASE Skip(c)
  BY <1>2, PopTo DEF Skip, AtStmt
<1>3. CASE LoopBodyDone(c)
  BY <1>3, SignalOK, PopTo DEF LoopBodyDone, AtMark, Same, Codes
<1>4. CASE LoopDone(c)
  BY <1>4, SignalOK, PopTo DEF LoopDone, AtMark, Same, Codes
<1>5. CASE Throw(c) \/ Break(c) \/ Continue(c)
  BY <1>5, SignalOK, PopTo DEF Throw, Break, Continue, At, AtStmt, Same, Codes
<1>6. ASSUME AtStmt(c)
      PROVE  /\ c.k # <<>> /\ Head(c.k).n \in Stmt /\ n \in StmtDesc
             /\ n = Ast[Head(c.k).n]
             /\ ContextOK(d) /\ Same(c, d)
  <2>1. n \in StmtDesc /\ Head(c.k).n \in Stmt
    BY <1>6, NodeType
  <2>2. Reads(n.e) \in SUBSET Vars
    BY <2>1, ReadsType DEF StmtDesc
  <2> QED
    BY <1>6, <2>1, <2>2, TouchOK DEF AtStmt, Node
<1>7. CASE Assign(c)
  <2>1. AtStmt(c) /\ n.op = "assign"
    BY <1>7 DEF Assign, At
  <2>2. n.x \in Vars
    BY <1>6, <2>1, WellFormed
  <2>3. ContextOK(AssignTo(c, n)) /\ Same(c, AssignTo(c, n))
    BY <1>6, <2>1, <2>2, AssignToOK
  <2> QED
    BY <1>6, <1>7, <2>1, <2>3, PopTo DEF Assign, Same
<1>8. CASE Decl(c)
  <2>1. AtStmt(c) /\ n.op = "decl"
    BY <1>8 DEF Decl, At
  <2>2. n.x \in Vars
    BY <1>6, <2>1, WellFormed
  <2>3. ContextOK(Declared(c, n)) /\ Same(c, Declared(c, n))
    BY <1>6, <2>1, <2>2, AssignToOK DEF Declared, Same
  <2> QED
    BY <1>6, <1>8, <2>1, <2>3, PopTo DEF Decl, Same, StepOK
<1>9. CASE SetEnv(c)
  <2>1. AtStmt(c)
    BY <1>9 DEF SetEnv, At
  <2> DEFINE v == Translate(c, n.e)
             e == [d EXCEPT !.state[n.x] = v]
  <2>2. ContextOK(e) /\ Same(c, e)
    <3>1. e = [d EXCEPT !.state = [d.state EXCEPT ![n.x] = v]]
      BY <1>6, <2>1 DEF ContextOK, Fields
    <3> HIDE DEF v, d
    <3> QED
      BY <1>6, <2>1, <3>1 DEF ContextOK, Fields, Same
  <2> QED
    BY <1>6, <1>9, <2>1, <2>2, PopTo DEF SetEnv, Same
<1>10. CASE Declare(c)
  <2>1. AtStmt(c)
    BY <1>10 DEF Declare, At
  <2> DEFINE l == Append(d.decls, [tag |-> n.tag, v |-> Translate(c, n.e)])
             e == [d EXCEPT !.decls = l]
  <2>2. ContextOK(e) /\ Same(c, e)
    <3> HIDE DEF l, d
    <3> QED
      BY <1>6, <2>1 DEF ContextOK, Fields, Same
  <2> QED
    BY <1>6, <1>10, <2>1, <2>2, PopTo DEF Declare, Same
<1>11. CASE Require(c)
  <2>1. AtStmt(c)
    BY <1>11 DEF Require, At
  <2> DEFINE p == d.pc \cap Models(c, n.e)
  <2>2. p \in SUBSET Inputs
    BY <1>6, <2>1 DEF ContextOK
  <2>3. ContextOK([d EXCEPT !.pc = p]) /\ [d EXCEPT !.pc = p].k = d.k
        /\ [d EXCEPT !.pc = p].pc = p
    BY <1>6, <2>1, <2>2, NarrowOK
  <2>4. p \subseteq c.pc
    BY <1>6, <2>1 DEF Same
  <2> QED
    BY <1>6, <1>11, <2>1, <2>3, <2>4, PopTo DEF Require, Same
<1>12. CASE Assert(c)
  <2>1. AtStmt(c)
    BY <1>12 DEF Assert, At
  <2> DEFINE e == IF Valid(c, Models(c, n.e)) THEN d ELSE Halt(d, "THROW")
  <2>2. ContextOK(e) /\ Same(c, e)
    BY <1>6, <2>1, SignalOK DEF Same, Codes
  <2> QED
    BY <1>6, <1>12, <2>1, <2>2, PopTo DEF Assert, Same
<1>13. CASE Return(c)
  <2>1. AtStmt(c)
    BY <1>13 DEF Return, At
  <2> DEFINE r == Fun[c.scope].ret
             h == Halt(d, "RETURN")
             loc == Put(h.local, Key(c, r), Translate(c, n.e))
             e == IF n.e.op = "none" \/ r = NoVar THEN h
                  ELSE [h EXCEPT !.local = loc]
  <2>2. ContextOK(h) /\ Same(c, h)
    BY <1>6, <2>1, SignalOK DEF Same, Codes
  <2>3. r \in Vars \cup {NoVar}
    BY AstAssumption DEF ContextOK
  <2>4. ASSUME r # NoVar PROVE DOMAIN loc \subseteq Vars \X Int
    BY <2>2, <2>3, <2>4, KeyType DEF Put, ContextOK
  <2>5. ContextOK(e) /\ Same(c, e)
    <3> HIDE DEF loc, h, d, r
    <3> QED
      BY <2>2, <2>4 DEF ContextOK, Fields, Same
  <2> QED
    BY <1>6, <1>13, <2>1, <2>5, PopTo DEF Return, Same
<1> QED
  BY <1>1, <1>2, <1>3, <1>4, <1>5, <1>7, <1>8, <1>9, <1>10, <1>11, <1>12, <1>13

LEMMA IfStep ==
    ASSUME NEW c, ContextOK(c), If(c)
    PROVE  StepOK(c)
<1> DEFINE n == Node(c)
           d == Touch(c, Reads(n.e))
           kept == {br \in Branches(c, n) : Satisfiable(c, br.p)}
           succ == {Follow(d, b) : b \in kept}
<1>1. n \in StmtDesc /\ c.k # <<>>
  BY NodeType DEF If, At, AtStmt
<1>2. ContextOK(d) /\ Same(c, d)
  BY <1>1, ReadsType, TouchOK DEF StmtDesc
<1>3. /\ \A b \in Branches(c, n) : b.p \subseteq Inputs /\ b.block \in Seq(Stmt)
      /\ \A a, b \in Branches(c, n) : a # b => a.p \cap b.p = {}
  <2>1. Models(c, n.e) \subseteq Inputs
    BY DEF Models
  <2>2. n.body \in Seq(Stmt) /\ n.alt \in Seq(Stmt)
    BY <1>1 DEF StmtDesc
  <2> QED
    BY <2>1, <2>2 DEF Branches, Branch
<1>4. ASSUME NEW b \in kept
      PROVE  ContextOK(Follow(d, b)) /\ Follow(d, b).pc = c.pc \cap b.p
  <2> DEFINE e == [d EXCEPT !.pc = d.pc \cap b.p]
  <2>1. d.pc \cap b.p \in SUBSET Inputs
    BY <1>3
  <2>2. ContextOK(e) /\ e.k = d.k /\ e.pc = d.pc \cap b.p
    BY <1>2, <2>1, NarrowOK
  <2>3. Stmts(b.block) \in Seq(Item)
    BY <1>3, StmtsType
  <2>4. e.k # <<>>
    BY <1>1, <1>2, <2>2 DEF Same
  <2>5. ContextOK(Push(e, Stmts(b.block))) /\ Push(e, Stmts(b.block)).pc = e.pc
    BY <2>2, <2>3, <2>4, PushOK
  <2>6. Follow(d, b) = Push(e, Stmts(b.block))
    BY DEF Follow
  <2> QED
    BY <1>2, <2>2, <2>5, <2>6 DEF Same
<1>5. SuccOK(c, succ)
  <2>1. \A x \in succ : ContextOK(x) /\ x.pc \subseteq c.pc
    BY <1>4
  <2>2. \A x, y \in succ : x # y => x.pc \cap y.pc = {}
    <3> SUFFICES ASSUME NEW a \in kept, NEW b \in kept,
                        Follow(d, a) # Follow(d, b)
                 PROVE  Follow(d, a).pc \cap Follow(d, b).pc = {}
      OBVIOUS
    <3>1. a # b
      OBVIOUS
    <3> QED
      BY <3>1, <1>3, <1>4
  <2> QED
    BY <2>1, <2>2 DEF SuccOK
<1>6. Become(c, succ)
  BY DEF If
<1> QED
  BY <1>5, <1>6 DEF StepOK

LEMMA MarkType ==
    ASSUME NEW s \in Stmt
    PROVE  /\ Cont(s) \in Seq(Item) /\ Brk(s) \in Seq(Item)
           /\ Stmts(<<s>>) \in Seq(Item)
           /\ \A g \in Funcs : Ret(s, g) \in Seq(Item)
<1>1. /\ [t |-> "cont", n |-> s, up |-> NoFunc] \in Item
      /\ [t |-> "brk", n |-> s, up |-> NoFunc] \in Item
  BY DEF Item
<1>2. \A g \in Funcs : [t |-> "ret", n |-> s, up |-> g] \in Item
  BY DEF Item
<1>3. \A i \in Item : <<i>> \in Seq(Item)
  OBVIOUS
<1>4. Cont(s) \in Seq(Item) /\ Brk(s) \in Seq(Item)
  BY <1>1, <1>3 DEF Cont, Brk
<1>5. \A g \in Funcs : Ret(s, g) \in Seq(Item)
  BY <1>2, <1>3 DEF Ret
<1>6. <<s>> \in Seq(Stmt)
  OBVIOUS
<1> QED
  BY <1>4, <1>5, <1>6, StmtsType

LEMMA IterateOK ==
    ASSUME NEW c, ContextOK(c), c.k # <<>>, NEW s \in Stmt, NEW n \in StmtDesc,
           NEW after \in Seq(Stmt)
    PROVE  /\ ContextOK(Iterate(c, n, s, after))
           /\ Iterate(c, n, s, after).pc \subseteq c.pc
<1> DEFINE yes == Models(c, n.e)
           d   == Touch(c, Reads(n.e))
           todo == Stmts(n.body) \o Cont(s) \o Stmts(after) \o Stmts(<<s>>) \o Brk(s)
           in  == [d EXCEPT !.pc = d.pc \cap yes]
           out == [d EXCEPT !.pc = d.pc \ yes]
<1>1. ContextOK(d) /\ Same(c, d)
  BY ReadsType, TouchOK DEF StmtDesc
<1>2. d.pc \cap yes \in SUBSET Inputs /\ d.pc \ yes \in SUBSET Inputs
  BY <1>1 DEF ContextOK
<1>3. /\ ContextOK(in) /\ in.k = d.k /\ in.pc = d.pc \cap yes
      /\ ContextOK(out) /\ out.k = d.k /\ out.pc = d.pc \ yes
  BY <1>1, <1>2, NarrowOK
<1>4. todo \in Seq(Item)
  <2>1. n.body \in Seq(Stmt)
    BY DEF StmtDesc
  <2>2. Stmts(n.body) \in Seq(Item) /\ Stmts(after) \in Seq(Item)
    BY <2>1, StmtsType
  <2> QED
    BY <2>2, MarkType
<1>5. in.k # <<>> /\ out.k # <<>>
  BY <1>1, <1>3 DEF Same
<1>6. ContextOK(Push(in, todo)) /\ Push(in, todo).pc = in.pc
  BY <1>3, <1>4, <1>5, PushOK
<1>7. ContextOK(Pop(out)) /\ Pop(out).pc = out.pc
  BY <1>3, <1>5, PopOK
<1>8. Iterate(c, n, s, after) = IF Satisfiable(c, yes) THEN Push(in, todo) ELSE Pop(out)
  BY DEF Iterate
<1> QED
  BY <1>1, <1>3, <1>6, <1>7, <1>8 DEF Same

LEMMA LoopSteps ==
    ASSUME NEW c, ContextOK(c), While(c) \/ For(c)
    PROVE  StepOK(c)
<1> DEFINE s == Head(c.k).n
           n == Node(c)
<1>1. AtStmt(c) /\ c.k # <<>>
  BY DEF While, For, At, AtStmt
<1>2. s \in Stmt /\ n \in StmtDesc /\ n = Ast[s]
  BY <1>1, NodeType DEF Node
<1>3. CASE While(c)
  <2>1. <<>> \in Seq(Stmt)
    OBVIOUS
  <2>2. ContextOK(Iterate(c, n, s, <<>>)) /\ Iterate(c, n, s, <<>>).pc \subseteq c.pc
    BY <1>1, <1>2, <2>1, IterateOK
  <2> QED
    BY <1>3, <2>2, OneOK DEF While
<1>4. CASE For(c)
  <2> DEFINE inits == IF Visits(c, s) = 0 THEN n.init ELSE <<>>
             d == IF inits = <<>> THEN c ELSE Declared(c, Ast[inits[1]])
  <2>1. n.init \in Seq(Stmt) /\ n.step \in Seq(Stmt)
    BY <1>2 DEF StmtDesc
  <2>2. ASSUME inits # <<>>
        PROVE  inits[1] \in Stmt /\ Ast[inits[1]].x \in Vars
    <3>1. inits = n.init /\ 1 \in DOMAIN n.init
      BY <2>1, <2>2
    <3>2. inits[1] \in Stmt
      BY <2>1, <3>1
    <3>3. Ast[Ast[s].init[1]].op \in {"assign", "decl"}
      BY <1>2, <3>1, WellFormed
    <3> QED
      BY <1>2, <3>1, <3>2, <3>3, WellFormed
  <2>3. ContextOK(d) /\ Same(c, d)
    <3>1. CASE inits = <<>>
      BY <3>1 DEF Same
    <3>2. CASE inits # <<>>
      <4> DEFINE m == Ast[inits[1]]
      <4>1. m \in StmtDesc /\ m.x \in Vars
        BY <3>2, <2>2, AstAssumption
      <4>2. ContextOK(AssignTo(c, m)) /\ Same(c, AssignTo(c, m))
        BY <4>1, AssignToOK
      <4>3. d = IF m.e.op = "none" THEN c ELSE AssignTo(c, m)
        BY <3>2 DEF Declared
      <4> QED
        BY <4>2, <4>3 DEF Same
    <3> QED
      BY <3>1, <3>2
  <2>4. /\ ContextOK(Iterate(d, n, s, n.step))
        /\ Iterate(d, n, s, n.step).pc \subseteq d.pc
    BY <1>1, <1>2, <2>1, <2>3, IterateOK DEF Same
  <2>5. Abort \/ Become(c, {Iterate(d, n, s, n.step)})
    BY <1>2, <1>4 DEF For
  <2> QED
    BY <2>3, <2>4, <2>5, OneOK DEF Same, StepOK
<1> QED
  BY <1>3, <1>4

LEMMA CallStep ==
    ASSUME NEW c, ContextOK(c), Call(c)
    PROVE  StepOK(c)
<1> DEFINE s  == Head(c.k).n
           n  == Node(c)
           f  == n.f
           ps == Fun[f].params
           vs == [j \in DOMAIN n.args |-> Translate(c, n.args[j])]
           xs == UNION {Reads(n.args[j]) : j \in DOMAIN n.args}
           d  == Touch(c, xs)
           e  == [d EXCEPT !.depth[f] = @ + 1]
           b  == Bind(e, ps, vs)
           g  == [b EXCEPT !.scope = f]
           todo == Stmts(Fun[f].body) \o Ret(s, c.scope)
<1>1. AtStmt(c) /\ c.k # <<>> /\ n.op = "call"
  BY DEF Call, At, AtStmt
<1>2. s \in Stmt /\ n \in StmtDesc /\ n = Ast[s]
  BY <1>1, NodeType DEF Node
<1>3. f \in Funcs /\ ps \in Seq(Vars) /\ Fun[f].body \in Seq(Stmt)
  BY <1>1, <1>2, WellFormed, AstAssumption
<1>4. ContextOK(d) /\ Same(c, d)
  <2>1. n.args \in Seq(Expr)
    BY <1>2 DEF StmtDesc
  <2>2. \A j \in DOMAIN n.args : n.args[j] \in Expr
    BY <2>1
  <2>3. xs \in SUBSET Vars
    BY <2>2, ReadsType
  <2> QED
    BY <2>3, TouchOK
<1>5. ContextOK(e) /\ Same(c, e)
  <2>1. e = [d EXCEPT !.depth = [d.depth EXCEPT ![f] = d.depth[f] + 1]]
    BY <1>3, <1>4 DEF ContextOK, Fields
  <2> HIDE DEF d, f
  <2> QED
    BY <1>3, <1>4, <2>1 DEF ContextOK, Fields, Same
<1>6. ContextOK(b) /\ Same(c, b)
  <2> DEFINE keys == {Key(e, ps[j]) : j \in DOMAIN ps}
             arg  == [key \in keys |-> vs[CHOOSE j \in DOMAIN ps : Key(e, ps[j]) = key]]
             loc  == Extend(arg, e.local)
  <2>1. \A j \in DOMAIN ps : ps[j] \in Vars
    BY <1>3
  <2>2. keys \subseteq Vars \X Int
    BY <1>5, <2>1, KeyType
  <2>3. DOMAIN loc \subseteq Vars \X Int
    BY <1>5, <2>2 DEF Extend, ContextOK
  <2>4. b = [e EXCEPT !.local = loc]
    BY DEF Bind
  <2> HIDE DEF loc, e, b
  <2> QED
    BY <1>5, <2>3, <2>4 DEF ContextOK, Fields, Same
<1>7. ContextOK(g) /\ Same(c, g)
  <2> HIDE DEF b, f
  <2> QED
    BY <1>3, <1>6 DEF ContextOK, Fields, Same
<1>8. todo \in Seq(Item)
  <2>1. Stmts(Fun[f].body) \in Seq(Item)
    BY <1>3, StmtsType
  <2>2. Ret(s, c.scope) \in Seq(Item)
    BY <1>2, MarkType DEF ContextOK
  <2> HIDE DEF f, s
  <2> QED
    BY <2>1, <2>2
<1>9. ContextOK(Push(g, todo)) /\ Push(g, todo).pc = c.pc
  BY <1>1, <1>7, <1>8, PushOK DEF Same
<1>10. Become(c, {Push(g, todo)})
  BY DEF Call
<1> QED
  BY <1>9, <1>10, OneOK

LEMMA DepthOK ==
    ASSUME NEW c, ContextOK(c), NEW f, NEW v, f \in Funcs => v \in Int
    PROVE  ContextOK([c EXCEPT !.depth[f] = v]) /\ Same(c, [c EXCEPT !.depth[f] = v])
<1> DEFINE dep == [c.depth EXCEPT ![f] = v]
<1>1. dep \in [Funcs -> Int]
  BY DEF ContextOK
<1>2. [c EXCEPT !.depth[f] = v] = [c EXCEPT !.depth = dep]
  OBVIOUS
<1> HIDE DEF dep
<1> QED
  BY <1>1, <1>2 DEF ContextOK, Fields, Same

LEMMA ScopeOK ==
    ASSUME NEW c, ContextOK(c), NEW g \in Funcs
    PROVE  ContextOK([c EXCEPT !.scope = g]) /\ Same(c, [c EXCEPT !.scope = g])
  BY DEF ContextOK, Fields, Same

LEMMA CallReturnStep ==
    ASSUME NEW c, ContextOK(c), CallReturn(c)
    PROVE  StepOK(c)
<1> DEFINE m == Head(c.k)
           n == Ast[m.n]
           a == [c EXCEPT !.scope = m.up]
           b == [a EXCEPT !.depth[n.f] = a.depth[n.f] - 1]
           d == ResetIf(b, "RETURN")
           r == Key([d EXCEPT !.depth[n.f] = @ + 1], Fun[n.f].ret)
           e == Update(Touch(d, {n.x}), n.x, c.local[r])
<1>1. c.k # <<>> /\ m \in Item /\ m.t = "ret"
  <2>1. c.k # <<>> /\ m.t = "ret"
    BY DEF CallReturn, AtMark
  <2>2. c.k \in Seq(Item)
    BY DEF ContextOK
  <2> QED
    BY <2>1, <2>2
<1>2. m.n \in Stmt /\ m.up \in Funcs
  <2>1. m \notin [t : {"stmt", "cont", "brk"}, n : Stmt, up : {NoFunc}]
    BY <1>1
  <2>2. m \in [t : {"ret"}, n : Stmt, up : Funcs]
    BY <1>1, <2>1 DEF Item
  <2> HIDE DEF m
  <2> QED
    BY <2>2
<1>3. n \in StmtDesc
  BY <1>2, AstAssumption
<1>4. ContextOK(a) /\ Same(c, a)
  BY <1>2, ScopeOK
<1>5. ContextOK(b) /\ Same(a, b)
  <2>1. n.f \in Funcs => a.depth[n.f] - 1 \in Int
    BY <1>4 DEF ContextOK
  <2> QED
    BY <1>4, <2>1, DepthOK
<1>6. ContextOK(d) /\ Same(c, d)
  BY <1>4, <1>5, SignalOK DEF Same, Codes
<1>7. ASSUME n.x # NoVar
      PROVE  ContextOK(e) /\ Same(c, e)
  <2>1. n.x \in Vars /\ {n.x} \in SUBSET Vars
    BY <1>3, <1>7 DEF StmtDesc
  <2>2. ContextOK(Touch(d, {n.x})) /\ Same(d, Touch(d, {n.x}))
    BY <1>6, <2>1, TouchOK
  <2>3. ContextOK(e) /\ Same(Touch(d, {n.x}), e)
    BY <2>1, <2>2, UpdateOK
  <2> QED
    BY <1>6, <2>2, <2>3 DEF Same
<1>8. b = [c EXCEPT !.scope = m.up, !.depth[n.f] = @ - 1]
  BY DEF ContextOK, Fields
<1>9. \/ n.x = NoVar /\ Become(c, {Pop(d)})
      \/ Abort
      \/ n.x # NoVar /\ Become(c, {Pop(e)})
  BY <1>8 DEF CallReturn
<1> QED
  BY <1>1, <1>6, <1>7, <1>9, PopTo DEF Same, StepOK

LEMMA FinishStep ==
    ASSUME NEW c, ContextOK(c), entry \in Funcs, Finish(c)
    PROVE  StepOK(c)
<1> DEFINE b == [c EXCEPT !.depth[entry] = c.depth[entry] - 1]
<1>1. ContextOK(b) /\ Same(c, b)
  <2>1. c.depth[entry] - 1 \in Int
    BY DEF ContextOK
  <2> QED
    BY <2>1, DepthOK
<1>2. ContextOK(ResetIf(b, "RETURN")) /\ Same(c, ResetIf(b, "RETURN"))
  BY <1>1, SignalOK DEF Same, Codes
<1> QED
  BY <1>2, OneOK DEF Finish, Same

LEMMA StepLemma ==
    ASSUME NEW c, ContextOK(c), entry \in Entries, Step(c)
    PROVE  StepOK(c)
  BY EntriesAssumption, SimpleSteps, IfStep, LoopSteps, CallStep, CallReturnStep,
     FinishStep DEF Step

-----------------------------------------------------------------------------
(* The invariants                                                          *)
LEMMA InitContextOK ==
    ASSUME NEW f \in Funcs
    PROVE  ContextOK(InitContext(f))
<1>1. Fun[f].body \in Seq(Stmt)
  BY AstAssumption
<1>2. Stmts(Fun[f].body) \in Seq(Item)
  BY <1>1, StmtsType
<1>3. (Vars \ StateVars) \X {1} \subseteq Vars \X Int
  OBVIOUS
<1>4. [g \in Funcs |-> IF g = f THEN 1 ELSE 0] \in [Funcs -> Int]
  OBVIOUS
<1> HIDE DEF InitContext
<1> QED
  BY <1>2, <1>3, <1>4 DEF InitContext, ContextOK, Fields, Codes

LEMMA NextCases ==
    ASSUME TypeOK, [Next]_vars
    PROVE  \/ UNCHANGED vars
           \/ \E c \in ctxs : StepOK(c)
  BY StepLemma DEF Next, Proceed, Overflow, TypeOK, StepOK

LEMMA TypeStep ==
    ASSUME TypeOK, [Next]_vars
    PROVE  TypeOK'
<1>1. CASE UNCHANGED vars
  BY <1>1 DEF TypeOK, vars
<1>2. ASSUME NEW c \in ctxs, Abort PROVE TypeOK'
  BY <1>2 DEF TypeOK, Abort
<1>3. ASSUME NEW c \in ctxs, NEW succ, Become(c, succ), SuccOK(c, succ)
      PROVE  TypeOK'
  BY <1>3 DEF TypeOK, Become, SuccOK
<1> QED
  BY <1>1, <1>2, <1>3, NextCases DEF StepOK

(* TypeOK: every context the handlers produce has the shape ContextInfo    *)
(* declares, whatever contract is executed; goHead is false exactly when   *)
(* abnormalTerminationCode says why (SymExecEngine::strongestPostcondition) *)
THEOREM TypeCorrect == Spec => []TypeOK
<1>1. Init => TypeOK
  BY InitContextOK, EntriesAssumption DEF Init, TypeOK
<1>2. TypeOK /\ [Next]_vars => TypeOK'
  BY TypeStep
<1> QED
  BY <1>1, <1>2, PTL DEF Spec

(* DisjointPaths: no input satisfies the path conditions of two contexts,  *)
(* for every contract and every set of inputs.  Inductive with TypeOK.     *)
THEOREM PathsDisjoint == Spec => []DisjointPaths
<1>1. Init => DisjointPaths
  BY DEF Init, DisjointPaths
<1>2. TypeOK /\ DisjointPaths /\ [Next]_vars => DisjointPaths'
  <2> SUFFICES ASSUME TypeOK, DisjointPaths, [Next]_vars
               PROVE  DisjointPaths'
    OBVIOUS
  <2>1. CASE UNCHANGED vars
    BY <2>1 DEF DisjointPaths, vars
  <2>2. ASSUME NEW c \in ctxs, Abort PROVE DisjointPaths'
    BY <2>2 DEF DisjointPaths, Abort
  <2>3. ASSUME NEW c \in ctxs, NEW succ, Become(c, succ), SuccOK(c, succ)
        PROVE  DisjointPaths'
    <3> SUFFICES ASSUME NEW x \in ctxs', NEW y \in ctxs', x # y
                 PROVE  x.pc \cap y.pc = {}
      BY DEF DisjointPaths
    <3>1. ctxs' = (ctxs \ {c}) \cup succ
      BY <2>3 DEF Become
    <3>2. CASE x \in succ /\ y \in succ
      BY <2>3, <3>2 DEF SuccOK
    <3>3. CASE x \in succ /\ y \in ctxs \ {c}
      BY <2>3, <3>3 DEF SuccOK, DisjointPaths
    <3>4. CASE x \in ctxs \ {c} /\ y \in succ
      BY <2>3, <3>4 DEF SuccOK, DisjointPaths
    <3>5. CASE x \in ctxs \ {c} /\ y \in ctxs \ {c}
      BY <3>5 DEF DisjointPaths
    <3> QED
      BY <3>1, <3>2, <3>3, <3>4, <3>5
  <2> QED
    BY <2>1, <2>2, <2>3, NextCases DEF StepOK
<1> QED
  BY <1>1, <1>2, TypeCorrect, PTL DEF Spec

-----------------------------------------------------------------------------
(***************************************************************************)
(* What the continuation of a context says about its calls and its loops.  *)
(*                                                                         *)
(* Framed is the inductive invariant.  It tells of the whole continuation  *)
(* what the two invariants of SymExec tell of the current handler: which   *)
(* function is executing at each of its items, and that a statement which  *)
(* may break or continue lies before the marks of a loop.                  *)
(***************************************************************************)

\* The calls of f in progress.
Of(k, f)    == {j \in DOMAIN k : k[j].t = "ret" /\ Callee(k[j]) = f}
Count(k, f) == Cardinality(Of(k, f))

\* g executes the items of k from i up to the next end of a call.
Free(k, i, j, tags) == \A m \in i..(j - 1) : k[m].t \notin tags
Owner(k, i, g) ==
    \/ /\ Free(k, i, Len(k) + 1, {"ret"})
       /\ g = entry
    \/ \E j \in i..Len(k) : /\ k[j].t = "ret" /\ Free(k, i, j, {"ret"})
                            /\ g = Callee(k[j])

\* The items from i on are in the body of a loop, or in its recursive call.
InBody(k, i) == \E j \in i..Len(k) : k[j].t = "cont" /\ Free(k, i, j, {"brk", "ret"})
InLoop(k, i) == \E j \in i..Len(k) : k[j].t = "brk" /\ Free(k, i, j, {"ret"})

\* Statements that may end in a break or continue of the loop around them.
Leaving(s) == Ast[s].op \in {"if", "break", "continue"} /\ s \notin Outside

Placed(k, j) ==
    /\ k[j].t = "ret"  => Owner(k, j + 1, k[j].up)
    /\ k[j].t = "cont" => InLoop(k, j + 1)
    /\ k[j].t = "stmt" /\ Leaving(k[j].n) => InBody(k, j + 1)
Nested(k) == \A j \in 1..Len(k) : Placed(k, j)

\* A signal is on its way to a mark that resets it.
Signalled(k, code) == /\ code = "CONTINUE" => InBody(k, 1)
                      /\ code = "BREAK" => InLoop(k, 1)

Ended(k, depth) == k = <<>> /\ depth[entry] = 0
Counted(k, depth) ==
    \A f \in Funcs :
        depth[f] = Count(k, f) + (IF f = entry /\ ~Ended(k, depth) THEN 1 ELSE 0)

Framed(c) == /\ Nested(c.k)
             /\ Owner(c.k, 1, c.scope)
             /\ Counted(c.k, c.depth)
             /\ Signalled(c.k, c.code)

AllFramed == \A c \in ctxs : Framed(c)

-----------------------------------------------------------------------------
(* Continuations                                                           *)

\* k is n items followed by t.
Suffix(k, n, t) ==
    /\ k \in Seq(Item) /\ t \in Seq(Item) /\ n \in Nat
    /\ Len(k) = n + Len(t)
    /\ \A j \in 1..Len(t) : k[j + n] = t[j]

LEMMA SuffixTail ==
    ASSUME NEW k \in Seq(Item), k # <<>>
    PROVE  Suffix(k, 1, Tail(k)) /\ k[1] = Head(k) /\ Len(k) >= 1
<1>1. /\ Tail(k) \in Seq(Item) /\ Len(Tail(k)) = Len(k) - 1
      /\ \A j \in 1..Len(Tail(k)) : Tail(k)[j] = k[j + 1]
  BY HeadTailProperties
<1>2. Len(k) \in Nat /\ Len(k) >= 1
  OBVIOUS
<1> QED
  BY <1>1, <1>2 DEF Suffix

LEMMA SuffixConcat ==
    ASSUME NEW s \in Seq(Item), NEW t \in Seq(Item)
    PROVE  /\ Suffix(s \o t, Len(s), t)
           /\ \A j \in 1..Len(s) : (s \o t)[j] = s[j]
<1>1. /\ s \o t \in Seq(Item) /\ Len(s \o t) = Len(s) + Len(t)
      /\ \A j \in 1..(Len(s) + Len(t)) :
             (s \o t)[j] = IF j <= Len(s) THEN s[j] ELSE t[j - Len(s)]
  BY ConcatProperties
<1>2. Len(s) \in Nat /\ Len(t) \in Nat
  OBVIOUS
<1>3. ASSUME NEW j \in 1..Len(t) PROVE (s \o t)[j + Len(s)] = t[j]
  <2>1. j + Len(s) \in 1..(Len(s) + Len(t)) /\ ~(j + Len(s) <= Len(s))
        /\ (j + Len(s)) - Len(s) = j
    BY <1>2
  <2> QED
    BY <1>1, <2>1
<1>4. \A j \in 1..Len(s) : j \in 1..(Len(s) + Len(t)) /\ j <= Len(s)
  BY <1>2
<1> QED
  BY <1>1, <1>2, <1>3, <1>4 DEF Suffix

LEMMA FreeShift ==
    ASSUME NEW k, NEW n, NEW t, Suffix(k, n, t), NEW i \in Nat \ {0},
           NEW j \in i..(Len(t) + 1), NEW tags
    PROVE  Free(k, i + n, j + n, tags) <=> Free(t, i, j, tags)
<1>1. n \in Nat /\ Len(t) \in Nat /\ Len(k) = n + Len(t)
      /\ \A m \in 1..Len(t) : k[m + n] = t[m]
  BY DEF Suffix
<1>2. ASSUME Free(k, i + n, j + n, tags), NEW m \in i..(j - 1)
      PROVE  t[m].t \notin tags
  <2>1. m + n \in (i + n)..((j + n) - 1) /\ m \in 1..Len(t)
    BY <1>1
  <2> QED
    BY <1>1, <1>2, <2>1 DEF Free
<1>3. ASSUME Free(t, i, j, tags), NEW m \in (i + n)..((j + n) - 1)
      PROVE  k[m].t \notin tags
  <2>1. m - n \in i..(j - 1) /\ m - n \in 1..Len(t) /\ (m - n) + n = m
    BY <1>1
  <2>2. k[m] = t[m - n]
    BY <1>1, <2>1
  <2> QED
    BY <1>3, <2>1, <2>2 DEF Free
<1> QED
  BY <1>2, <1>3 DEF Free

\* What lies before an item does not matter to it.
LEMMA Shift ==
    ASSUME NEW k, NEW n, NEW t, Suffix(k, n, t), NEW i \in 1..(Len(t) + 1)
    PROVE  /\ \A g : Owner(k, i + n, g) <=> Owner(t, i, g)
           /\ InBody(k, i + n) <=> InBody(t, i)
           /\ InLoop(k, i + n) <=> InLoop(t, i)
<1>1. n \in Nat /\ Len(t) \in Nat /\ Len(k) = n + Len(t)
      /\ \A m \in 1..Len(t) : k[m + n] = t[m]
  BY DEF Suffix
<1>2. i \in Nat \ {0}
  BY <1>1
<1>3. ASSUME NEW j \in i..Len(t)
      PROVE  /\ j + n \in (i + n)..Len(k) /\ k[j + n] = t[j]
             /\ \A tags : Free(k, i + n, j + n, tags) <=> Free(t, i, j, tags)
  <2>1. j \in 1..Len(t) /\ j \in i..(Len(t) + 1) /\ j + n \in (i + n)..Len(k)
    BY <1>1
  <2> QED
    BY <1>1, <1>2, <2>1, FreeShift
<1>4. ASSUME NEW j \in (i + n)..Len(k)
      PROVE  /\ j - n \in i..Len(t) /\ k[j] = t[j - n]
             /\ \A tags : Free(k, i + n, j, tags) <=> Free(t, i, j - n, tags)
  <2>1. j - n \in i..Len(t) /\ (j - n) + n = j
    BY <1>1
  <2> QED
    BY <1>3, <2>1
<1>5. InBody(k, i + n) <=> InBody(t, i)
  BY <1>3, <1>4 DEF InBody
<1>6. InLoop(k, i + n) <=> InLoop(t, i)
  BY <1>3, <1>4 DEF InLoop
<1>7. ASSUME NEW g PROVE Owner(k, i + n, g) <=> Owner(t, i, g)
  <2>1. Len(t) + 1 \in i..(Len(t) + 1) /\ Len(k) + 1 = (Len(t) + 1) + n
    BY <1>1
  <2>2. Free(k, i + n, Len(k) + 1, {"ret"}) <=> Free(t, i, Len(t) + 1, {"ret"})
    BY <1>2, <2>1, FreeShift
  <2>3. (\E j \in (i + n)..Len(k) : /\ k[j].t = "ret" /\ Free(k, i + n, j, {"ret"})
                                     /\ g = Callee(k[j]))
        <=> (\E j \in i..Len(t) : /\ t[j].t = "ret" /\ Free(t, i, j, {"ret"})
                                  /\ g = Callee(t[j]))
    <3> HIDE DEF Callee
    <3> QED
      BY <1>3, <1>4
  <2> QED
    BY <2>2, <2>3 DEF Owner
<1> QED
  BY <1>5, <1>6, <1>7

\* Items without marks may be put in front.
LEMMA PrefixFree ==
    ASSUME NEW k \in Seq(Item), NEW a \in 1..(Len(k) + 1), NEW b \in a..(Len(k) + 1)
    PROVE  /\ Free(k, a, b, {"ret"}) =>
                /\ \A g : Owner(k, a, g) <=> Owner(k, b, g)
                /\ InLoop(k, b) => InLoop(k, a)
           /\ Free(k, a, b, {"brk", "ret"}) => (InBody(k, b) => InBody(k, a))
           /\ Free(k, a, b, {"cont", "brk", "ret"}) =>
                (InBody(k, a) => InBody(k, b)) /\ (InLoop(k, a) => InLoop(k, b))
<1>1. Len(k) \in Nat /\ a \in Nat \ {0} /\ b \in Nat /\ a <= b
  OBVIOUS
<1>2. ASSUME NEW tags, NEW c \in b..(Len(k) + 1), Free(k, a, b, tags)
      PROVE  Free(k, a, c, tags) <=> Free(k, b, c, tags)
  <2>1. \A m \in a..(c - 1) : m \in a..(b - 1) \/ m \in b..(c - 1)
    BY <1>1
  <2>2. \A m \in b..(c - 1) : m \in a..(c - 1)
    BY <1>1
  <2> QED
    BY <1>2, <2>1, <2>2 DEF Free
<1>3. /\ b..Len(k) \subseteq a..Len(k)
      /\ \A c \in a..Len(k) : c \in b..Len(k) \/ c \in a..(b - 1)
      /\ \A c \in b..Len(k) : c \in b..(Len(k) + 1)
      /\ Len(k) + 1 \in b..(Len(k) + 1)
  BY <1>1
<1>4. ASSUME Free(k, a, b, {"ret"})
      PROVE  /\ \A g : Owner(k, a, g) <=> Owner(k, b, g)
             /\ InLoop(k, b) => InLoop(k, a)
  <2>1. \A c \in b..(Len(k) + 1) : Free(k, a, c, {"ret"}) <=> Free(k, b, c, {"ret"})
    BY <1>2, <1>4
  <2>2. \A c \in a..(b - 1) : k[c].t # "ret"
    BY <1>4 DEF Free
  <2>3. InLoop(k, b) => InLoop(k, a)
    BY <1>3, <2>1 DEF InLoop
  <2>4. \A g : Owner(k, a, g) <=> Owner(k, b, g)
    <3> HIDE DEF Callee
    <3> QED
      BY <1>3, <2>1, <2>2 DEF Owner
  <2> QED
    BY <2>3, <2>4
<1>5. ASSUME Free(k, a, b, {"brk", "ret"}) PROVE InBody(k, b) => InBody(k, a)
  <2>1. \A c \in b..(Len(k) + 1) :
            Free(k, a, c, {"brk", "ret"}) <=> Free(k, b, c, {"brk", "ret"})
    BY <1>2, <1>5
  <2> QED
    BY <1>3, <2>1 DEF InBody
<1>6. ASSUME Free(k, a, b, {"cont", "brk", "ret"})
      PROVE  (InBody(k, a) => InBody(k, b)) /\ (InLoop(k, a) => InLoop(k, b))
  <2>1. /\ Free(k, a, b, {"brk", "ret"}) /\ Free(k, a, b, {"ret"})
        /\ \A c \in a..(b - 1) : k[c].t \notin {"cont", "brk", "ret"}
    BY <1>6 DEF Free
  <2>2. \A c \in b..(Len(k) + 1) :
            /\ Free(k, a, c, {"brk", "ret"}) <=> Free(k, b, c, {"brk", "ret"})
            /\ Free(k, a, c, {"ret"}) <=> Free(k, b, c, {"ret"})
    BY <1>2, <2>1
  <2> QED
    BY <1>3, <2>1, <2>2 DEF InBody, InLoop
<1> QED
  BY <1>4, <1>5, <1>6

\* The calls in progress after the first n items.
LEMMA CountSuffix ==
    ASSUME NEW k, NEW n, NEW t, Suffix(k, n, t), NEW f
    PROVE  /\ IsFiniteSet(Of(k, f)) /\ Count(k, f) \in Nat
           /\ IsFiniteSet(Of(t, f)) /\ Count(t, f) \in Nat
           /\ Cardinality(Of(k, f) \ 1..n) = Count(t, f)
<1>1. /\ n \in Nat /\ Len(t) \in Nat /\ Len(k) = n + Len(t)
      /\ DOMAIN k = 1..Len(k) /\ DOMAIN t = 1..Len(t)
      /\ \A m \in 1..Len(t) : k[m + n] = t[m]
  BY DEF Suffix
<1>2. \A m \in Nat : IsFiniteSet(1..m)
  BY FS_Interval
<1>3. IsFiniteSet(Of(k, f)) /\ IsFiniteSet(Of(t, f))
  <2>1. Len(k) \in Nat /\ Of(k, f) \in SUBSET (1..Len(k)) /\ Of(t, f) \in SUBSET (1..Len(t))
    BY <1>1 DEF Of
  <2> QED
    BY <1>1, <1>2, <2>1, FS_Subset
<1>4. Count(k, f) \in Nat /\ Count(t, f) \in Nat
  BY <1>3, FS_CardinalityType DEF Count
<1> DEFINE S == Of(t, f)
           T == Of(k, f) \ 1..n
           b == [j \in S |-> j + n]
<1>5. ASSUME NEW j \in S PROVE j + n \in T
  <2>1. j \in 1..Len(t) /\ t[j].t = "ret" /\ Callee(t[j]) = f
    BY <1>1 DEF Of
  <2>2. j + n \in 1..Len(k) /\ j + n \notin 1..n /\ k[j + n] = t[j]
    BY <1>1, <2>1
  <2> QED
    BY <1>1, <2>1, <2>2 DEF Of
<1>6. ASSUME NEW j \in T PROVE j - n \in S /\ (j - n) + n = j
  <2>1. j \in 1..Len(k) /\ j \notin 1..n /\ k[j].t = "ret" /\ Callee(k[j]) = f
    BY <1>1 DEF Of
  <2>2. j - n \in 1..Len(t) /\ (j - n) + n = j
    BY <1>1, <2>1
  <2>3. t[j - n] = k[j]
    BY <1>1, <2>2
  <2> QED
    BY <1>1, <2>1, <2>2, <2>3 DEF Of
<1>7. S \subseteq Int
  BY <1>1 DEF Of
<1>8. b \in Bijection(S, T)
  <2>1. b \in [S -> T]
    BY <1>5
  <2>2. \A x, y \in S : b[x] = b[y] => x = y
    BY <1>1, <1>7
  <2>3. ASSUME NEW y \in T PROVE \E x \in S : b[x] = y
    <3>1. b[y - n] = y
      BY <1>6
    <3> QED
      BY <1>6, <3>1
  <2> QED
    BY <2>1, <2>2, <2>3 DEF Bijection, Injection, Surjection, IsInjective
<1>9. ExistsBijection(S, T)
  BY <1>8 DEF ExistsBijection
<1>10. Cardinality(T) = Cardinality(S)
  BY <1>3, <1>9, FS_Bijection
<1> QED
  BY <1>3, <1>4, <1>10 DEF Count

LEMMA CountFree ==
    ASSUME NEW k, NEW n, NEW t, Suffix(k, n, t), Free(k, 1, n + 1, {"ret"}), NEW f
    PROVE  Count(k, f) = Count(t, f)
<1>1. n \in Nat /\ DOMAIN k = 1..Len(k)
  BY DEF Suffix
<1>2. Of(k, f) \ 1..n = Of(k, f)
  BY <1>1 DEF Of, Free
<1> QED
  BY <1>2, CountSuffix DEF Count

LEMMA CountHead ==
    ASSUME NEW k \in Seq(Item), k # <<>>, NEW f
    PROVE  Count(k, f) = Count(Tail(k), f) +
               (IF k[1].t = "ret" /\ Callee(k[1]) = f THEN 1 ELSE 0)
<1>1. Suffix(k, 1, Tail(k)) /\ 1 \in DOMAIN k
  <2>1. Len(k) \in Nat /\ Len(k) >= 1 /\ DOMAIN k = 1..Len(k)
    BY SuffixTail
  <2> QED
    BY <2>1, SuffixTail
<1>2. /\ IsFiniteSet(Of(k, f)) /\ Count(k, f) \in Nat /\ Count(Tail(k), f) \in Nat
      /\ Cardinality(Of(k, f) \ 1..1) = Count(Tail(k), f)
  BY <1>1, CountSuffix
<1>3. Of(k, f) \ 1..1 = Of(k, f) \ {1}
  OBVIOUS
<1>4. Count(Tail(k), f) = IF 1 \in Of(k, f) THEN Count(k, f) - 1 ELSE Count(k, f)
  BY <1>2, <1>3, FS_RemoveElement DEF Count
<1>5. 1 \in Of(k, f) <=> k[1].t = "ret" /\ Callee(k[1]) = f
  BY <1>1 DEF Of
<1> QED
  BY <1>2, <1>4, <1>5

-----------------------------------------------------------------------------
(* Nested continuations: what is put in front of them, and their tails.    *)

LEMMA PlacedShift ==
    ASSUME NEW k, NEW n, NEW t, Suffix(k, n, t), NEW j \in 1..Len(t)
    PROVE  Placed(k, j + n) <=> Placed(t, j)
<1>1. n \in Nat /\ Len(t) \in Nat /\ k[j + n] = t[j]
  BY DEF Suffix
<1>2. j + 1 \in 1..(Len(t) + 1) /\ (j + n) + 1 = (j + 1) + n
  BY <1>1
<1>3. /\ \A g : Owner(k, (j + n) + 1, g) <=> Owner(t, j + 1, g)
      /\ InBody(k, (j + n) + 1) <=> InBody(t, j + 1)
      /\ InLoop(k, (j + n) + 1) <=> InLoop(t, j + 1)
  BY <1>2, Shift
<1> QED
  BY <1>1, <1>3 DEF Placed

LEMMA NestedFront ==
    ASSUME NEW k, NEW n, NEW t, Suffix(k, n, t)
    PROVE  Nested(k) <=> Nested(t) /\ \A j \in 1..n : Placed(k, j)
<1>1. n \in Nat /\ Len(t) \in Nat /\ Len(k) = n + Len(t)
  BY DEF Suffix
<1>2. /\ \A j \in 1..Len(t) : j + n \in 1..Len(k)
      /\ \A j \in 1..n : j \in 1..Len(k)
      /\ \A j \in 1..Len(k) : j \in 1..n \/ (j - n \in 1..Len(t) /\ (j - n) + n = j)
  BY <1>1
<1> QED
  BY <1>2, PlacedShift DEF Nested

\* One item in front.
LEMMA Front ==
    ASSUME NEW i \in Item, NEW t \in Seq(Item), NEW k, k = <<i>> \o t
    PROVE  /\ k \in Seq(Item) /\ k # <<>> /\ Tail(k) = t /\ k[1] = i
           /\ Suffix(k, 1, t) /\ Len(k) \in Nat /\ Len(k) >= 1
           /\ \A g : Owner(k, 2, g) <=> Owner(t, 1, g)
           /\ InBody(k, 2) <=> InBody(t, 1)
           /\ InLoop(k, 2) <=> InLoop(t, 1)
           /\ Nested(k) <=> Nested(t) /\ Placed(k, 1)
<1>1. <<i>> \in Seq(Item) /\ Len(<<i>>) = 1 /\ <<i>>[1] = i
  OBVIOUS
<1>2. Suffix(k, 1, t) /\ k[1] = i
  <2> DEFINE s == <<i>>
  <2>1. s \in Seq(Item) /\ Len(s) = 1 /\ s[1] = i /\ k = s \o t
    BY <1>1
  <2> HIDE DEF s
  <2>2. Suffix(k, Len(s), t) /\ \A j \in 1..Len(s) : k[j] = s[j]
    BY <2>1, SuffixConcat
  <2>3. 1 \in 1..Len(s)
    BY <2>1
  <2> QED
    BY <2>1, <2>2, <2>3
<1>3. k \in Seq(Item) /\ Len(k) = 1 + Len(t) /\ Len(t) \in Nat
      /\ \A j \in 1..Len(t) : k[j + 1] = t[j]
  BY <1>2 DEF Suffix
<1>4. k # <<>> /\ Len(k) \in Nat /\ Len(k) >= 1
  BY <1>3
<1>5. Tail(k) = t
  <2>1. /\ Tail(k) \in Seq(Item) /\ Len(Tail(k)) = Len(t)
        /\ \A j \in 1..Len(Tail(k)) : Tail(k)[j] = k[j + 1]
    BY <1>3, <1>4, HeadTailProperties
  <2> QED
    BY <2>1, <1>3, SeqEqual
<1>6. 1 \in 1..(Len(t) + 1)
  BY <1>3
<1>7. /\ \A g : Owner(k, 1 + 1, g) <=> Owner(t, 1, g)
      /\ InBody(k, 1 + 1) <=> InBody(t, 1)
      /\ InLoop(k, 1 + 1) <=> InLoop(t, 1)
  BY <1>2, <1>6, Shift
<1>8. Nested(k) <=> Nested(t) /\ \A j \in 1..1 : Placed(k, j)
  BY <1>2, NestedFront
<1> QED
  BY <1>2, <1>3, <1>4, <1>5, <1>7, <1>8

\* A continuation that is not empty is its head in front of its tail.
LEMMA FrontTail ==
    ASSUME NEW k \in Seq(Item), k # <<>>
    PROVE  /\ Head(k) \in Item /\ Tail(k) \in Seq(Item)
           /\ k = <<Head(k)>> \o Tail(k)
<1>1. Head(k) \in Item /\ Tail(k) \in Seq(Item)
  OBVIOUS
<1> DEFINE u == <<Head(k)>> \o Tail(k)
<1>2. u \in Seq(Item) /\ u[1] = Head(k) /\ Suffix(u, 1, Tail(k))
  BY <1>1, Front
<1>3. Suffix(k, 1, Tail(k)) /\ k[1] = Head(k)
  BY SuffixTail
<1>4. /\ Len(u) = 1 + Len(Tail(k)) /\ Len(k) = 1 + Len(Tail(k)) /\ Len(Tail(k)) \in Nat
      /\ \A j \in 1..Len(Tail(k)) : u[j + 1] = k[j + 1]
  BY <1>2, <1>3 DEF Suffix
<1>5. ASSUME NEW j \in 1..Len(k) PROVE k[j] = u[j]
  <2>1. CASE j = 1
    BY <2>1, <1>2, <1>3
  <2>2. CASE j # 1
    <3>1. j - 1 \in 1..Len(Tail(k)) /\ (j - 1) + 1 = j
      BY <1>4, <2>2
    <3> QED
      BY <1>4, <3>1
  <2> QED
    BY <2>1, <2>2
<1> HIDE DEF u
<1>6. k = u
  BY <1>2, <1>4, <1>5, SeqEqual
<1> QED
  BY <1>1, <1>6 DEF u

\* What an item in front that is not the end of a call leaves.
Keeping(k, t) ==
    /\ k \in Seq(Item)
    /\ \A g : Owner(k, 1, g) <=> Owner(t, 1, g)
    /\ \A f : Count(k, f) = Count(t, f)

LEMMA KeepingFree ==
    ASSUME NEW k, NEW n, NEW t, Suffix(k, n, t), Free(k, 1, n + 1, {"ret"})
    PROVE  Keeping(k, t) /\ (InLoop(t, 1) => InLoop(k, 1))
<1>1. n \in Nat /\ Len(t) \in Nat /\ Len(k) = n + Len(t) /\ k \in Seq(Item)
  BY DEF Suffix
<1>2. 1 \in 1..(Len(t) + 1) /\ n + 1 \in 1..(Len(k) + 1) /\ 1 \in 1..(Len(k) + 1)
      /\ 1 + n = n + 1
  BY <1>1
<1>3. /\ \A g : Owner(k, n + 1, g) <=> Owner(t, 1, g)
      /\ InLoop(k, n + 1) <=> InLoop(t, 1)
  BY <1>2, Shift
<1>4. /\ \A g : Owner(k, 1, g) <=> Owner(k, n + 1, g)
      /\ InLoop(k, n + 1) => InLoop(k, 1)
  BY <1>1, <1>2, PrefixFree
<1>5. \A f : Count(k, f) = Count(t, f)
  BY CountFree
<1> QED
  BY <1>1, <1>3, <1>4, <1>5 DEF Keeping

\* The statements of a block.
LEMMA StmtsFront ==
    ASSUME NEW seq \in Seq(Stmt), NEW t \in Seq(Item), NEW k, k = Stmts(seq) \o t,
           Nested(t),
           \A j \in DOMAIN seq : Leaving(seq[j]) => InBody(t, 1)
    PROVE  /\ Nested(k) /\ Keeping(k, t)
           /\ InBody(t, 1) => InBody(k, 1)
           /\ InLoop(t, 1) => InLoop(k, 1)
<1> DEFINE s == Stmts(seq)
           n == Len(s)
<1>1. /\ s \in Seq(Item) /\ n = Len(seq) /\ DOMAIN seq = 1..n /\ n \in Nat
      /\ \A j \in 1..n : s[j].t = "stmt" /\ s[j].n = seq[j]
  <2>1. DOMAIN seq = 1..Len(seq) /\ Len(seq) \in Nat
    OBVIOUS
  <2>2. s \in Seq(Item)
    BY StmtsType
  <2>3. DOMAIN s = 1..Len(seq)
    BY <2>1 DEF Stmts
  <2>4. n = Len(seq)
    <3>1. DOMAIN s = 1..n /\ n \in Nat
      BY <2>2
    <3> QED
      BY <2>1, <2>3, <3>1
  <2>5. \A j \in 1..n : s[j].t = "stmt" /\ s[j].n = seq[j]
    BY <2>1, <2>4 DEF Stmts
  <2> QED
    BY <2>1, <2>2, <2>4, <2>5
<1> HIDE DEF s
<1>2. Suffix(k, n, t) /\ \A j \in 1..n : k[j] = s[j]
  BY <1>1, SuffixConcat DEF s
<1>3. /\ k \in Seq(Item) /\ Len(k) = n + Len(t) /\ Len(t) \in Nat
  BY <1>2 DEF Suffix
<1>4. \A j \in 1..n : k[j].t = "stmt" /\ k[j].n = seq[j]
  BY <1>1, <1>2
<1>5. ASSUME NEW j \in 1..(n + 1), NEW tags \in SUBSET {"cont", "brk", "ret"}
      PROVE  Free(k, j, n + 1, tags)
  <2>1. ASSUME NEW m \in j..((n + 1) - 1) PROVE k[m].t \notin tags
    <3>1. m \in 1..n
      BY <1>1
    <3>2. k[m].t = "stmt"
      BY <1>4, <3>1
    <3> QED
      BY <3>2
  <2> QED
    BY <2>1 DEF Free
<1>6. Keeping(k, t) /\ (InLoop(t, 1) => InLoop(k, 1))
  <2>1. Free(k, 1, n + 1, {"ret"})
    <3>1. 1 \in 1..(n + 1) /\ {"ret"} \in SUBSET {"cont", "brk", "ret"}
      BY <1>1
    <3> QED
      BY <1>5, <3>1
  <2> QED
    BY <1>2, <2>1, KeepingFree
<1>7. ASSUME InBody(t, 1), NEW j \in 1..(n + 1) PROVE InBody(k, j)
  <2>1. 1 \in 1..(Len(t) + 1) /\ 1 + n = n + 1
    BY <1>1, <1>3
  <2>2. InBody(k, n + 1)
    BY <1>2, <1>7, <2>1, Shift
  <2>3. j \in 1..(Len(k) + 1) /\ n + 1 \in j..(Len(k) + 1)
    BY <1>1, <1>3
  <2>4. Free(k, j, n + 1, {"brk", "ret"})
    BY <1>5
  <2> QED
    BY <1>3, <2>2, <2>3, <2>4, PrefixFree
<1>8. ASSUME NEW j \in 1..n PROVE Placed(k, j)
  <2>1. Leaving(k[j].n) => InBody(t, 1)
    BY <1>1, <1>4
  <2>2. j + 1 \in 1..(n + 1)
    BY <1>1
  <2> QED
    BY <1>4, <1>7, <2>1, <2>2 DEF Placed
<1>9. Nested(k)
  BY <1>2, <1>8, NestedFront
<1>10. 1 \in 1..(n + 1)
  BY <1>1
<1> QED
  BY <1>6, <1>7, <1>9, <1>10

LEMMA BrkFront ==
    ASSUME NEW s \in Stmt, NEW t \in Seq(Item), NEW k, k = Brk(s) \o t, Nested(t)
    PROVE  Nested(k) /\ Keeping(k, t) /\ InLoop(k, 1)
<1> DEFINE i == [t |-> "brk", n |-> s, up |-> NoFunc]
<1>1. i \in Item /\ k = <<i>> \o t
  BY DEF Item, Brk
<1>2. /\ Suffix(k, 1, t) /\ k[1] = i /\ Len(k) \in Nat /\ Len(k) >= 1
      /\ Nested(k) <=> Nested(t) /\ Placed(k, 1)
  BY <1>1, Front
<1>3. Placed(k, 1)
  BY <1>2 DEF Placed
<1>4. Free(k, 1, 1 + 1, {"ret"})
  BY <1>2 DEF Free
<1>5. Keeping(k, t)
  BY <1>2, <1>4, KeepingFree
<1>6. InLoop(k, 1)
  <2>1. 1 \in 1..Len(k) /\ k[1].t = "brk"
    BY <1>2
  <2>2. Free(k, 1, 1, {"ret"})
    BY DEF Free
  <2> QED
    BY <2>1, <2>2 DEF InLoop
<1> QED
  BY <1>2, <1>3, <1>5, <1>6

LEMMA ContFront ==
    ASSUME NEW s \in Stmt, NEW t \in Seq(Item), NEW k, k = Cont(s) \o t, Nested(t),
           InLoop(t, 1)
    PROVE  Nested(k) /\ Keeping(k, t) /\ InBody(k, 1)
<1> DEFINE i == [t |-> "cont", n |-> s, up |-> NoFunc]
<1>1. i \in Item /\ k = <<i>> \o t
  BY DEF Item, Cont
<1>2. /\ Suffix(k, 1, t) /\ k[1] = i /\ Len(k) \in Nat /\ Len(k) >= 1
      /\ InLoop(k, 2) <=> InLoop(t, 1)
      /\ Nested(k) <=> Nested(t) /\ Placed(k, 1)
  BY <1>1, Front
<1>3. Placed(k, 1)
  BY <1>2 DEF Placed
<1>4. Free(k, 1, 1 + 1, {"ret"})
  BY <1>2 DEF Free
<1>5. Keeping(k, t)
  BY <1>2, <1>4, KeepingFree
<1>6. InBody(k, 1)
  <2>1. 1 \in 1..Len(k) /\ k[1].t = "cont"
    BY <1>2
  <2>2. Free(k, 1, 1, {"brk", "ret"})
    BY DEF Free
  <2> QED
    BY <2>1, <2>2 DEF InBody
<1> QED
  BY <1>2, <1>3, <1>5, <1>6

\* Continuations and their concatenation, by their algebra alone.
Conts     == Seq(Item)
Cat(a, b) == a \o b

LEMMA CatLaws ==
    \A a, b, t \in Conts : /\ Cat(a, b) \in Conts
                           /\ Cat(Cat(a, b), t) = Cat(a, Cat(b, t))
  BY ConcatAssociative DEF Cat, Conts

LEMMA RetFront ==
    ASSUME NEW s \in Stmt, NEW g \in Funcs, NEW t \in Seq(Item), NEW k,
           k = Cat(Ret(s, g), t), Nested(t), Owner(t, 1, g)
    PROVE  /\ k \in Seq(Item) /\ Nested(k) /\ Owner(k, 1, Ast[s].f)
           /\ \A f : Count(k, f) = Count(t, f) + (IF f = Ast[s].f THEN 1 ELSE 0)
<1> DEFINE i == [t |-> "ret", n |-> s, up |-> g]
<1>1. i \in Item /\ k = <<i>> \o t
  BY DEF Item, Ret, Cat
<1>2. /\ k \in Seq(Item) /\ k # <<>> /\ Tail(k) = t
      /\ k[1] = i /\ Len(k) \in Nat /\ Len(k) >= 1
      /\ Owner(k, 2, g) <=> Owner(t, 1, g)
      /\ Nested(k) <=> Nested(t) /\ Placed(k, 1)
  BY <1>1, Front
<1>3. Placed(k, 1)
  BY <1>2 DEF Placed
<1>4. Callee(k[1]) = Ast[s].f /\ k[1].t = "ret"
  BY <1>2 DEF Callee
<1>5. Owner(k, 1, Ast[s].f)
  <2>1. 1 \in 1..Len(k)
    BY <1>2
  <2>2. Free(k, 1, 1, {"ret"})
    BY DEF Free
  <2> QED
    BY <1>4, <2>1, <2>2 DEF Owner
<1>6. \A f : Count(k, f) = Count(t, f) + (IF f = Ast[s].f THEN 1 ELSE 0)
  BY <1>2, <1>4, CountHead
<1> QED
  BY <1>2, <1>3, <1>5, <1>6

\* An item that is not the end of a call is taken from the front.
LEMMA TailKeeps ==
    ASSUME NEW k \in Seq(Item), k # <<>>, Nested(k)
    PROVE  /\ Tail(k) \in Seq(Item) /\ Nested(Tail(k)) /\ Placed(k, 1)
           /\ Head(k) = k[1] /\ Suffix(k, 1, Tail(k))
           /\ \A g : Owner(k, 2, g) <=> Owner(Tail(k), 1, g)
           /\ InBody(k, 2) <=> InBody(Tail(k), 1)
           /\ InLoop(k, 2) <=> InLoop(Tail(k), 1)
           /\ Head(k).t # "ret" => Keeping(k, Tail(k))
<1>1. Head(k) \in Item /\ Tail(k) \in Seq(Item) /\ k = <<Head(k)>> \o Tail(k)
  BY FrontTail
<1>2. /\ k[1] = Head(k) /\ Suffix(k, 1, Tail(k))
      /\ \A g : Owner(k, 2, g) <=> Owner(Tail(k), 1, g)
      /\ InBody(k, 2) <=> InBody(Tail(k), 1)
      /\ InLoop(k, 2) <=> InLoop(Tail(k), 1)
      /\ Nested(k) <=> Nested(Tail(k)) /\ Placed(k, 1)
  BY <1>1, Front
<1>3. ASSUME Head(k).t # "ret" PROVE Keeping(k, Tail(k))
  <2>1. Free(k, 1, 1 + 1, {"ret"})
    BY <1>2, <1>3 DEF Free
  <2> QED
    BY <1>2, <2>1, KeepingFree
<1> QED
  BY <1>1, <1>2, <1>3

\* What leads to the body of a loop leads to the end of its call.
LEMMA BodyInLoop ==
    ASSUME NEW k \in Seq(Item), Nested(k), NEW i \in Nat \ {0}, InBody(k, i)
    PROVE  InLoop(k, i)
<1>1. PICK j \in i..Len(k) : k[j].t = "cont" /\ Free(k, i, j, {"brk", "ret"})
  BY DEF InBody
<1>2. j \in 1..Len(k)
  OBVIOUS
<1>3. InLoop(k, j + 1)
  BY <1>1, <1>2 DEF Nested, Placed
<1>4. PICK l \in (j + 1)..Len(k) : k[l].t = "brk" /\ Free(k, j + 1, l, {"ret"})
  BY <1>3 DEF InLoop
<1>5. ASSUME NEW m \in i..(l - 1) PROVE k[m].t # "ret"
  <2>1. m \in i..(j - 1) \/ m = j \/ m \in (j + 1)..(l - 1)
    BY <1>2
  <2> QED
    BY <1>1, <1>4, <2>1 DEF Free
<1>6. l \in i..Len(k)
  BY <1>2
<1> QED
  BY <1>4, <1>5, <1>6 DEF InLoop, Free

\* A signal passes what does not reset it.
LEMMA SignalPasses ==
    ASSUME NEW k \in Seq(Item), k # <<>>, Nested(k), NEW code, Signalled(k, code)
    PROVE  /\ Head(k).t = "ret" => code \notin {"CONTINUE", "BREAK"}
           /\ Head(k).t = "brk" => code # "CONTINUE"
           /\ Head(k).t = "stmt" => Signalled(Tail(k), code)
           /\ Head(k).t = "cont" => InLoop(Tail(k), 1)
           /\ Head(k).t = "stmt" /\ Leaving(Head(k).n) =>
                  InBody(Tail(k), 1) /\ InLoop(Tail(k), 1)
<1>1. /\ Tail(k) \in Seq(Item) /\ Nested(Tail(k)) /\ Placed(k, 1) /\ Head(k) = k[1]
      /\ InBody(k, 2) <=> InBody(Tail(k), 1)
      /\ InLoop(k, 2) <=> InLoop(Tail(k), 1)
  BY TailKeeps
<1>2. Len(k) \in Nat /\ 1 \in 1..(Len(k) + 1) /\ 2 \in 1..(Len(k) + 1)
      /\ Len(k) >= 1
  BY SuffixTail
<1>3. ASSUME Head(k).t = "stmt" PROVE Signalled(Tail(k), code)
  <2>1. Free(k, 1, 2, {"cont", "brk", "ret"})
    BY <1>1, <1>3 DEF Free
  <2>2. 2 \in 1..(Len(k) + 1)
    BY <1>2
  <2>3. (InBody(k, 1) => InBody(k, 2)) /\ (InLoop(k, 1) => InLoop(k, 2))
    BY <1>2, <2>1, <2>2, PrefixFree
  <2> QED
    BY <1>1, <2>3 DEF Signalled
<1>4. \A j \in 1..Len(k) : j = 1 \/ 1 \in 1..(j - 1)
  BY <1>2
<1>5. ASSUME Head(k).t = "ret" PROVE ~InBody(k, 1) /\ ~InLoop(k, 1)
  BY <1>1, <1>4, <1>5 DEF InBody, InLoop, Free
<1>6. ASSUME Head(k).t = "brk" PROVE ~InBody(k, 1)
  BY <1>1, <1>4, <1>6 DEF InBody, Free
<1>7. Head(k).t = "cont" => InLoop(Tail(k), 1)
  BY <1>1 DEF Placed
<1>8. Head(k).t = "stmt" /\ Leaving(Head(k).n) => InBody(Tail(k), 1)
  BY <1>1 DEF Placed
<1>9. InBody(Tail(k), 1) => InLoop(Tail(k), 1)
  BY <1>1, BodyInLoop
<1> QED
  BY <1>3, <1>5, <1>6, <1>7, <1>8, <1>9 DEF Signalled

-----------------------------------------------------------------------------
(* Contexts                                                                *)

\* What the helpers that only write values leave alone.
Kept(c, d) == /\ d.k = c.k /\ d.depth = c.depth
              /\ d.scope = c.scope /\ d.code = c.code

LEMMA TouchKeeps ==
    ASSUME NEW c, ContextOK(c), NEW xs \in SUBSET Vars
    PROVE  ContextOK(Touch(c, xs)) /\ Kept(c, Touch(c, xs))
<1> DEFINE loc == Extend(c.local, [key \in {Key(c, x) : x \in {y \in xs : ~InState(c, y)}}
                                        |-> Symbol(key)])
<1>1. Touch(c, xs) = [c EXCEPT !.local = loc]
  BY DEF Touch
<1> HIDE DEF loc
<1> QED
  BY <1>1, TouchOK DEF ContextOK, Fields, Kept

LEMMA UpdateKeeps ==
    ASSUME NEW c, ContextOK(c), NEW x \in Vars, NEW v
    PROVE  ContextOK(Update(c, x, v)) /\ Kept(c, Update(c, x, v))
<1>1. CASE InState(c, x)
  <2>1. Update(c, x, v) = [c EXCEPT !.state = [@ EXCEPT ![x] = v]]
    BY <1>1 DEF Update
  <2> QED
    BY <2>1, UpdateOK DEF ContextOK, Fields, Kept
<1>2. CASE ~InState(c, x)
  <2> DEFINE loc == Put(c.local, Key(c, x), v)
  <2>1. Update(c, x, v) = [c EXCEPT !.local = loc]
    BY <1>2 DEF Update
  <2> HIDE DEF loc
  <2> QED
    BY <2>1, UpdateOK DEF ContextOK, Fields, Kept
<1> QED
  BY <1>1, <1>2

LEMMA AssignToKeeps ==
    ASSUME NEW c, ContextOK(c), NEW n \in StmtDesc, n.x \in Vars
    PROVE  ContextOK(AssignTo(c, n)) /\ Kept(c, AssignTo(c, n))
<1> DEFINE d == Touch(c, Reads(n.e) \cup {n.x})
<1>1. Reads(n.e) \cup {n.x} \in SUBSET Vars
  BY ReadsType DEF StmtDesc
<1>2. ContextOK(d) /\ Kept(c, d)
  BY <1>1, TouchKeeps
<1>3. /\ ContextOK(Update(d, n.x, Translate(c, n.e)))
      /\ Kept(d, Update(d, n.x, Translate(c, n.e)))
  BY <1>2, UpdateKeeps
<1> QED
  BY <1>2, <1>3 DEF AssignTo, Kept

LEMMA NarrowKeeps ==
    ASSUME NEW c, ContextOK(c), NEW p \in SUBSET Inputs
    PROVE  ContextOK([c EXCEPT !.pc = p]) /\ Kept(c, [c EXCEPT !.pc = p])
  BY NarrowOK DEF ContextOK, Fields, Kept

LEMMA HaltKeeps ==
    ASSUME NEW c, ContextOK(c), NEW code \in Codes \ {"NONE"}
    PROVE  /\ ContextOK(Halt(c, code)) /\ Halt(c, code).code = code
           /\ Halt(c, code).k = c.k /\ Halt(c, code).depth = c.depth
           /\ Halt(c, code).scope = c.scope
  BY SignalOK DEF ContextOK, Fields, Same, Halt

LEMMA ResetKeeps ==
    ASSUME NEW c, ContextOK(c), NEW code \in Codes \ {"NONE"}
    PROVE  /\ ContextOK(ResetIf(c, code))
           /\ ResetIf(c, code).code = IF c.code = code THEN "NONE" ELSE c.code
           /\ ResetIf(c, code).k = c.k /\ ResetIf(c, code).depth = c.depth
           /\ ResetIf(c, code).scope = c.scope
  BY SignalOK DEF ContextOK, Fields, Same, ResetIf, Resume, Codes

\* A new continuation with the calls of the old one.
LEMMA FramedMove ==
    ASSUME NEW c, ContextOK(c), Framed(c), c.k # <<>>, entry \in Funcs,
           NEW e, e.depth = c.depth, e.scope = c.scope, e.k \in Seq(Item),
           Nested(e.k), Signalled(e.k, e.code),
           \A g : Owner(e.k, 1, g) <=> Owner(c.k, 1, g),
           \A f : Count(e.k, f) = Count(c.k, f)
    PROVE  Framed(e)
<1>1. c.k \in Seq(Item) /\ Suffix(c.k, 1, Tail(c.k))
  BY SuffixTail DEF ContextOK
<1>2. \A f : Count(c.k, f) \in Nat
  BY <1>1, CountSuffix
<1>3. c.depth[entry] = Count(c.k, entry) + 1
  BY DEF Framed, Counted, Ended
<1>4. c.depth[entry] # 0
  BY <1>2, <1>3
<1>5. ~Ended(e.k, e.depth) /\ ~Ended(c.k, c.depth)
  BY <1>4 DEF Ended
<1>6. Counted(e.k, e.depth)
  BY <1>5 DEF Framed, Counted
<1> QED
  BY <1>6 DEF Framed

LEMMA FramedPop ==
    ASSUME NEW c, ContextOK(c), Framed(c), c.k # <<>>, entry \in Funcs,
           Head(c.k).t # "ret", NEW d, ContextOK(d), d.k = c.k,
           d.depth = c.depth, d.scope = c.scope, Signalled(Tail(c.k), d.code)
    PROVE  Framed(Pop(d))
<1> DEFINE t == Tail(c.k)
           e == [d EXCEPT !.k = t]
<1>1. c.k \in Seq(Item) /\ Nested(c.k)
  BY DEF ContextOK, Framed
<1>2. t \in Seq(Item) /\ Nested(t) /\ Keeping(c.k, t)
  BY <1>1, TailKeeps
<1>3. e.k = t /\ e.depth = c.depth /\ e.scope = c.scope /\ e.code = d.code
  BY DEF ContextOK, Fields
<1>4. Pop(d) = e
  BY DEF Pop
<1> HIDE DEF t, e
<1>5. Signalled(t, d.code)
  BY DEF t
<1> QED
  BY <1>2, <1>3, <1>4, <1>5, FramedMove DEF Keeping

LEMMA FramedPush ==
    ASSUME NEW c, ContextOK(c), Framed(c), c.k # <<>>, entry \in Funcs,
           Head(c.k).t # "ret", NEW d, ContextOK(d), Kept(c, d), d.code = "NONE",
           NEW items, Nested(items \o Tail(c.k)), Keeping(items \o Tail(c.k), Tail(c.k))
    PROVE  Framed(Push(d, items))
<1> DEFINE t == Tail(c.k)
           u == items \o t
           e == [d EXCEPT !.k = u]
<1>1. c.k \in Seq(Item) /\ Nested(c.k)
  BY DEF ContextOK, Framed
<1>2. Keeping(c.k, t) /\ Keeping(u, t) /\ Nested(u)
  BY <1>1, TailKeeps
<1>3. e.k = u /\ e.depth = c.depth /\ e.scope = c.scope /\ e.code = "NONE"
  BY DEF ContextOK, Fields, Kept
<1>4. Push(d, items) = e
  BY DEF Push, Kept
<1> HIDE DEF t, u, e
<1>5. Signalled(u, e.code)
  BY <1>3 DEF Signalled
<1> QED
  BY <1>2, <1>3, <1>4, <1>5, FramedMove DEF Keeping

-----------------------------------------------------------------------------
(* Steps                                                                   *)
StepFramed(c) == Abort \/ \E succ : Become(c, succ) /\ \A s \in succ : Framed(s)

\* A statement is done, without break or continue.
LEMMA FramedDone ==
    ASSUME NEW c, ContextOK(c), Framed(c), entry \in Funcs, AtStmt(c),
           NEW d, ContextOK(d), d.k = c.k, d.depth = c.depth, d.scope = c.scope,
           d.code \notin {"CONTINUE", "BREAK"}
    PROVE  Framed(Pop(d))
<1>1. c.k # <<>> /\ Head(c.k).t = "stmt"
  BY DEF AtStmt
<1>2. Signalled(Tail(c.k), d.code)
  BY DEF Signalled
<1> QED
  BY <1>1, <1>2, FramedPop

\* A statement under execution: its node, and no signal is up.
LEMMA Running ==
    ASSUME NEW c, ContextOK(c), AtStmt(c), c.goHead
    PROVE  /\ c.k # <<>> /\ Head(c.k).t = "stmt" /\ c.code = "NONE"
           /\ Head(c.k).n \in Stmt /\ Node(c) \in StmtDesc
           /\ Node(c) = Ast[Head(c.k).n]
           /\ Reads(Node(c).e) \in SUBSET Vars
<1>1. Head(c.k).n \in Stmt /\ Node(c) \in StmtDesc
  BY NodeType
<1>2. Reads(Node(c).e) \in SUBSET Vars
  BY <1>1, ReadsType DEF StmtDesc
<1> QED
  BY <1>1, <1>2 DEF AtStmt, Node, ContextOK

LEMMA ValueFrames ==
    ASSUME NEW c, ContextOK(c), Framed(c), entry \in Funcs,
           Assign(c) \/ Decl(c) \/ SetEnv(c) \/ Declare(c) \/ Require(c)
    PROVE  StepFramed(c)
<1> DEFINE n == Node(c)
           d == Touch(c, Reads(n.e))
<1>1. /\ c.k # <<>> /\ AtStmt(c) /\ c.code = "NONE"
      /\ Head(c.k).n \in Stmt /\ n \in StmtDesc /\ n = Ast[Head(c.k).n]
      /\ ContextOK(d) /\ Kept(c, d)
  <2>1. AtStmt(c) /\ c.goHead
    BY DEF Assign, Decl, SetEnv, Declare, Require, At
  <2> QED
    BY <2>1, Running, TouchKeeps
<1>2. ASSUME NEW e, ContextOK(e), Kept(c, e) PROVE Framed(Pop(e))
  BY <1>1, <1>2, FramedDone DEF Kept
<1> HIDE DEF n, d
<1>3. CASE Assign(c)
  <2>1. n.op = "assign"
    BY <1>3 DEF Assign, At, n
  <2>2. n.x \in Vars
    BY <1>1, <2>1, WellFormed
  <2>3. ContextOK(AssignTo(c, n)) /\ Kept(c, AssignTo(c, n))
    BY <1>1, <2>2, AssignToKeeps
  <2> QED
    BY <1>2, <1>3, <2>3 DEF Assign, StepFramed, n
<1>4. CASE Decl(c)
  <2>1. n.op = "decl"
    BY <1>4 DEF Decl, At, n
  <2>2. n.x \in Vars
    BY <1>1, <2>1, WellFormed
  <2>3. ContextOK(Declared(c, n)) /\ Kept(c, Declared(c, n))
    BY <1>1, <2>2, AssignToKeeps DEF Declared, Kept
  <2> QED
    BY <1>2, <1>4, <2>3 DEF Decl, StepFramed, n
<1>5. CASE SetEnv(c)
  <2> DEFINE v == Translate(c, n.e)
             e == [d EXCEPT !.state[n.x] = v]
  <2>1. ContextOK(e) /\ Kept(c, e)
    <3>1. e = [d EXCEPT !.state = [d.state EXCEPT ![n.x] = v]]
      BY <1>1 DEF ContextOK, Fields
    <3> HIDE DEF v
    <3> QED
      BY <1>1, <3>1 DEF ContextOK, Fields, Kept
  <2> QED
    BY <1>2, <1>5, <2>1 DEF SetEnv, StepFramed, n, d
<1>6. CASE Declare(c)
  <2> DEFINE l == Append(d.decls, [tag |-> n.tag, v |-> Translate(c, n.e)])
             e == [d EXCEPT !.decls = l]
  <2>1. ContextOK(e) /\ Kept(c, e)
    <3> HIDE DEF l
    <3> QED
      BY <1>1 DEF ContextOK, Fields, Kept
  <2> QED
    BY <1>2, <1>6, <2>1 DEF Declare, StepFramed, n, d
<1>7. CASE Require(c)
  <2> DEFINE p == d.pc \cap Models(c, n.e)
  <2>1. p \in SUBSET Inputs
    BY <1>1 DEF ContextOK
  <2>2. ContextOK([d EXCEPT !.pc = p]) /\ Kept(d, [d EXCEPT !.pc = p])
    BY <1>1, <2>1, NarrowKeeps
  <2>3. Kept(c, [d EXCEPT !.pc = p])
    BY <1>1, <2>2 DEF Kept
  <2> QED
    BY <1>2, <1>7, <2>2, <2>3 DEF Require, StepFramed, n, d
<1> QED
  BY <1>3, <1>4, <1>5, <1>6, <1>7

LEMMA SignalFrames ==
    ASSUME NEW c, ContextOK(c), Framed(c), entry \in Funcs,
           \/ DropThrown(c) \/ Skip(c) \/ Assert(c) \/ Throw(c) \/ Break(c)
           \/ Continue(c) \/ Return(c) \/ LoopBodyDone(c) \/ LoopDone(c)
    PROVE  StepFramed(c)
<1> DEFINE n == Node(c)
           d == Touch(c, Reads(n.e))
           t == Tail(c.k)
<1>1. c.k \in Seq(Item) /\ Nested(c.k) /\ Signalled(c.k, c.code)
  BY DEF ContextOK, Framed
<1>2. CASE DropThrown(c)
  BY <1>2 DEF DropThrown, StepFramed
<1>3. CASE Skip(c)
  <2>1. c.k # <<>> /\ Head(c.k).t = "stmt"
    BY <1>3 DEF Skip, AtStmt
  <2>2. Signalled(t, c.code)
    BY <1>1, <2>1, SignalPasses
  <2>3. Framed(Pop(c))
    BY <2>1, <2>2, FramedPop
  <2> QED
    BY <1>3, <2>3 DEF Skip, StepFramed
<1>4. CASE LoopBodyDone(c)
  <2> DEFINE e == ResetIf(c, "CONTINUE")
  <2>1. c.k # <<>> /\ Head(c.k).t = "cont"
    BY <1>4 DEF LoopBodyDone, AtMark
  <2>2. /\ ContextOK(e) /\ e.code = IF c.code = "CONTINUE" THEN "NONE" ELSE c.code
        /\ e.k = c.k /\ e.depth = c.depth /\ e.scope = c.scope
    BY ResetKeeps DEF Codes
  <2>3. InLoop(t, 1)
    BY <1>1, <2>1, SignalPasses
  <2>4. Signalled(t, e.code)
    BY <2>2, <2>3 DEF Signalled
  <2> HIDE DEF e
  <2>5. Framed(Pop(e))
    BY <2>1, <2>2, <2>4, FramedPop
  <2> QED
    BY <1>4, <2>5 DEF LoopBodyDone, StepFramed, e
<1>5. CASE LoopDone(c)
  <2> DEFINE e == ResetIf(c, "BREAK")
  <2>1. c.k # <<>> /\ Head(c.k).t = "brk"
    BY <1>5 DEF LoopDone, AtMark
  <2>2. /\ ContextOK(e) /\ e.code = IF c.code = "BREAK" THEN "NONE" ELSE c.code
        /\ e.k = c.k /\ e.depth = c.depth /\ e.scope = c.scope
    BY ResetKeeps DEF Codes
  <2>3. c.code # "CONTINUE"
    BY <1>1, <2>1, SignalPasses
  <2>4. Signalled(t, e.code)
    BY <2>2, <2>3 DEF Signalled
  <2> HIDE DEF e
  <2>5. Framed(Pop(e))
    BY <2>1, <2>2, <2>4, FramedPop
  <2> QED
    BY <1>5, <2>5 DEF LoopDone, StepFramed, e
<1>6. ASSUME AtStmt(c), c.goHead
      PROVE  /\ c.k # <<>> /\ Head(c.k).t = "stmt" /\ Head(c.k).n \in Stmt
             /\ n \in StmtDesc /\ n = Ast[Head(c.k).n]
             /\ ContextOK(d) /\ Kept(c, d) /\ c.code = "NONE"
  BY <1>6, Running, TouchKeeps
<1>7. CASE Throw(c)
  <2>1. AtStmt(c)
    BY <1>7 DEF Throw, At
  <2>2. Framed(Pop(Halt(c, "THROW")))
    BY <2>1, HaltKeeps, FramedDone DEF Codes
  <2> QED
    BY <1>7, <2>2 DEF Throw, StepFramed
<1>8. CASE Break(c) \/ Continue(c)
  <2> DEFINE code == IF Break(c) THEN "BREAK" ELSE "CONTINUE"
             e == Halt(c, code)
  <2>1. AtStmt(c) /\ c.goHead /\ n.op \in {"break", "continue"}
    BY <1>8 DEF Break, Continue, At
  <2>2. Leaving(Head(c.k).n)
    BY <1>6, <2>1, BreaksInLoops DEF Leaving
  <2>3. InBody(t, 1) /\ InLoop(t, 1)
    BY <1>1, <1>6, <2>1, <2>2, SignalPasses
  <2>4. Signalled(t, code)
    BY <2>3 DEF Signalled
  <2>5. code \in Codes \ {"NONE"}
    BY DEF Codes
  <2>6. Become(c, {Pop(e)})
    BY <1>8 DEF Break, Continue, At
  <2> HIDE DEF code
  <2>7. /\ ContextOK(e) /\ e.code = code
        /\ e.k = c.k /\ e.depth = c.depth /\ e.scope = c.scope
    BY <2>5, HaltKeeps
  <2> HIDE DEF e
  <2>8. Framed(Pop(e))
    BY <1>6, <2>1, <2>4, <2>7, FramedPop
  <2> QED
    BY <2>6, <2>8 DEF StepFramed
<1>9. CASE Assert(c)
  <2>1. AtStmt(c) /\ c.goHead
    BY <1>9 DEF Assert, At
  <2>2. /\ ContextOK(Halt(d, "THROW")) /\ Halt(d, "THROW").code = "THROW"
        /\ Halt(d, "THROW").k = c.k /\ Halt(d, "THROW").depth = c.depth
        /\ Halt(d, "THROW").scope = c.scope
    BY <1>6, <2>1, HaltKeeps DEF Codes, Kept
  <2> HIDE DEF d
  <2>3. Framed(Pop(d)) /\ Framed(Pop(Halt(d, "THROW")))
    BY <1>6, <2>1, <2>2, FramedDone DEF Kept
  <2> QED
    BY <1>9, <2>3 DEF Assert, StepFramed, d
<1>10. CASE Return(c)
  <2>1. AtStmt(c) /\ c.goHead
    BY <1>10 DEF Return, At
  <2> DEFINE r == Fun[c.scope].ret
             h == Halt(d, "RETURN")
             loc == Put(h.local, Key(c, r), Translate(c, n.e))
             e == [h EXCEPT !.local = loc]
  <2>2. /\ ContextOK(h) /\ h.code = "RETURN"
        /\ h.k = c.k /\ h.depth = c.depth /\ h.scope = c.scope
    BY <1>6, <2>1, HaltKeeps DEF Codes, Kept
  <2>3. r \in Vars \cup {NoVar}
    BY AstAssumption DEF ContextOK
  <2>4. ASSUME r # NoVar PROVE DOMAIN loc \subseteq Vars \X Int
    BY <2>2, <2>3, <2>4, KeyType DEF Put, ContextOK
  <2> HIDE DEF loc, h, r, d
  <2>5. ASSUME r # NoVar PROVE Framed(Pop(e))
    <3>1. /\ ContextOK(e) /\ e.code = "RETURN"
          /\ e.k = c.k /\ e.depth = c.depth /\ e.scope = c.scope
      BY <2>2, <2>4, <2>5 DEF ContextOK, Fields
    <3> QED
      BY <2>1, <3>1, FramedDone
  <2>6. Framed(Pop(h))
    BY <2>1, <2>2, FramedDone
  <2> QED
    BY <1>10, <2>5, <2>6 DEF Return, StepFramed, r, h, d, loc
<1> QED
  BY <1>2, <1>3, <1>4, <1>5, <1>7, <1>8, <1>9, <1>10

LEMMA IfFrames ==
    ASSUME NEW c, ContextOK(c), Framed(c), entry \in Funcs, If(c)
    PROVE  StepFramed(c)
<1> DEFINE s == Head(c.k).n
           n == Node(c)
           d == Touch(c, Reads(n.e))
           t == Tail(c.k)
           kept == {br \in Branches(c, n) : Satisfiable(c, br.p)}
<1>1. /\ c.k # <<>> /\ Head(c.k).t = "stmt" /\ c.code = "NONE"
      /\ s \in Stmt /\ n \in StmtDesc /\ n = Ast[s] /\ n.op = "if"
      /\ ContextOK(d) /\ Kept(c, d)
  <2>1. AtStmt(c) /\ c.goHead /\ n.op = "if"
    BY DEF If, At
  <2> QED
    BY <2>1, Running, TouchKeeps
<1>2. c.k \in Seq(Item) /\ Nested(c.k) /\ Signalled(c.k, c.code)
  BY DEF ContextOK, Framed
<1>3. t \in Seq(Item) /\ Nested(t)
  BY <1>1, <1>2, TailKeeps
<1>4. ASSUME NEW b \in kept
      PROVE  Framed(Follow(d, b))
  <2> DEFINE p == d.pc \cap b.p
             e == [d EXCEPT !.pc = p]
             u == Stmts(b.block) \o t
  <2>1. p \in SUBSET Inputs
    BY <1>1 DEF ContextOK
  <2>2. ContextOK(e) /\ Kept(d, e)
    BY <1>1, <2>1, NarrowKeeps
  <2>3. b.block = n.body \/ b.block = n.alt
    BY DEF Branches, Branch
  <2>4. b.block \in Seq(Stmt)
    BY <1>1, <2>3 DEF StmtDesc
  <2>5. ASSUME NEW j \in DOMAIN b.block, Leaving(b.block[j]) PROVE InBody(t, 1)
    <3>1. b.block[j] \notin Outside
      BY <2>5 DEF Leaving
    <3>2. s \notin Outside
      BY <1>1, <2>3, <3>1, BreaksInLoops
    <3>3. Leaving(s)
      BY <1>1, <3>2 DEF Leaving
    <3> QED
      BY <1>1, <1>2, <3>3, SignalPasses
  <2>6. Nested(u) /\ Keeping(u, t)
    BY <1>3, <2>4, <2>5, StmtsFront
  <2> HIDE DEF e, d
  <2>7. e.code = "NONE" /\ Kept(c, e)
    BY <1>1, <2>2 DEF Kept
  <2>8. Framed(Push(e, Stmts(b.block)))
    BY <1>1, <2>2, <2>6, <2>7, FramedPush
  <2> QED
    BY <2>8 DEF Follow, e
<1>5. Become(c, {Follow(d, b) : b \in kept})
  BY DEF If
<1> QED
  BY <1>4, <1>5 DEF StepFramed

LEMMA Regroup ==
    ASSUME NEW a \in Conts, NEW b \in Conts, NEW c \in Conts,
           NEW d \in Conts, NEW e \in Conts, NEW t \in Conts
    PROVE  Cat(Cat(Cat(Cat(Cat(a, b), c), d), e), t)
               = Cat(a, Cat(b, Cat(c, Cat(d, Cat(e, t)))))
<1> DEFINE p == Cat(a, b)
           q == Cat(p, c)
           r == Cat(q, d)
           t1 == Cat(e, t)
           t2 == Cat(d, t1)
           t3 == Cat(c, t2)
<1>1. /\ p \in Conts /\ q \in Conts /\ r \in Conts
      /\ t1 \in Conts /\ t2 \in Conts /\ t3 \in Conts
  BY CatLaws
<1>2. Cat(p, t3) = Cat(a, Cat(b, t3))
  <2> HIDE DEF t3
  <2> QED
    BY <1>1, CatLaws
<1>3. Cat(q, t2) = Cat(p, t3)
  <2> HIDE DEF p, t2
  <2> QED
    BY <1>1, CatLaws
<1>4. Cat(r, t1) = Cat(q, t2)
  <2> HIDE DEF q, t1
  <2> QED
    BY <1>1, CatLaws
<1>5. Cat(Cat(r, e), t) = Cat(r, t1)
  <2> HIDE DEF r
  <2> QED
    BY <1>1, CatLaws
<1> QED
  BY <1>2, <1>3, <1>4, <1>5

\* The body of a loop, its steps and its next iteration.
LEMMA LoopFront ==
    ASSUME NEW s \in Stmt, Ast[s].op \in {"while", "for"}, NEW body \in Seq(Stmt),
           NEW after \in Seq(Stmt), \A j \in DOMAIN after : ~Leaving(after[j]),
           NEW t \in Seq(Item), Nested(t), NEW u,
           u = (Stmts(body) \o Cont(s) \o Stmts(after) \o Stmts(<<s>>) \o Brk(s)) \o t
    PROVE  Nested(u) /\ Keeping(u, t)
<1> DEFINE B  == Stmts(body)
           C  == Cont(s)
           A  == Stmts(after)
           S  == Stmts(<<s>>)
           K  == Brk(s)
           t1 == K \o t
           t2 == S \o t1
           t3 == A \o t2
           t4 == C \o t3
           t5 == B \o t4
<1>1. /\ B \in Seq(Item) /\ C \in Seq(Item) /\ A \in Seq(Item)
      /\ S \in Seq(Item) /\ K \in Seq(Item)
  BY StmtsType, MarkType
<1>2. Nested(t1) /\ Keeping(t1, t) /\ InLoop(t1, 1)
  BY BrkFront
<1>3. Nested(t2) /\ Keeping(t2, t1) /\ InLoop(t2, 1)
  <2> DEFINE one == <<s>>
  <2>1. one \in Seq(Stmt) /\ \A j \in DOMAIN one : one[j] = s
    OBVIOUS
  <2>2. \A j \in DOMAIN one : ~Leaving(one[j])
    BY <2>1 DEF Leaving
  <2>3. t1 \in Seq(Item)
    BY <1>2 DEF Keeping
  <2>4. t2 = Stmts(one) \o t1
    OBVIOUS
  <2> HIDE DEF one, t1, t2
  <2> QED
    BY <1>2, <2>1, <2>2, <2>3, <2>4, StmtsFront
<1>4. Nested(t3) /\ Keeping(t3, t2) /\ InLoop(t3, 1)
  <2>1. t2 \in Seq(Item)
    BY <1>3 DEF Keeping
  <2> QED
    BY <1>3, <2>1, StmtsFront
<1>5. Nested(t4) /\ Keeping(t4, t3) /\ InBody(t4, 1)
  <2>1. t3 \in Seq(Item)
    BY <1>4 DEF Keeping
  <2> QED
    BY <1>4, <2>1, ContFront
<1>6. Nested(t5) /\ Keeping(t5, t4)
  <2>1. t4 \in Seq(Item) /\ t5 = Stmts(body) \o t4
    BY <1>5 DEF Keeping
  <2> HIDE DEF t4, t5
  <2> QED
    BY <1>5, <2>1, StmtsFront
<1> HIDE DEF B, C, A, S, K
<1>7. Keeping(t5, t)
  <2> HIDE DEF t1, t2, t3, t4, t5
  <2> QED
    BY <1>2, <1>3, <1>4, <1>5, <1>6 DEF Keeping
<1>8. u = t5
  <2>1. u = Cat(Cat(Cat(Cat(Cat(B, C), A), S), K), t)
    BY DEF B, C, A, S, K, Cat
  <2>2. t5 = Cat(B, Cat(C, Cat(A, Cat(S, Cat(K, t)))))
    BY DEF Cat
  <2>3. /\ B \in Conts /\ C \in Conts /\ A \in Conts
        /\ S \in Conts /\ K \in Conts /\ t \in Conts
    BY <1>1 DEF Conts
  <2> HIDE DEF t5
  <2>4. Cat(Cat(Cat(Cat(Cat(B, C), A), S), K), t)
            = Cat(B, Cat(C, Cat(A, Cat(S, Cat(K, t)))))
    BY <2>3, Regroup
  <2> QED
    BY <2>1, <2>2, <2>4
<1> QED
  BY <1>6, <1>7, <1>8

LEMMA IterateFrames ==
    ASSUME NEW c, ContextOK(c), Framed(c), entry \in Funcs, c.k # <<>>,
           Head(c.k).t = "stmt", c.code = "NONE",
           NEW s \in Stmt, Ast[s].op \in {"while", "for"},
           NEW n \in StmtDesc, NEW after \in Seq(Stmt),
           \A j \in DOMAIN after : ~Leaving(after[j])
    PROVE  Framed(Iterate(c, n, s, after))
<1> DEFINE yes == Models(c, n.e)
           d   == Touch(c, Reads(n.e))
           todo == Stmts(n.body) \o Cont(s) \o Stmts(after) \o Stmts(<<s>>) \o Brk(s)
           in  == [d EXCEPT !.pc = d.pc \cap yes]
           out == [d EXCEPT !.pc = d.pc \ yes]
           t   == Tail(c.k)
<1>1. ContextOK(d) /\ Kept(c, d)
  BY ReadsType, TouchKeeps DEF StmtDesc
<1>2. d.pc \cap yes \in SUBSET Inputs /\ d.pc \ yes \in SUBSET Inputs
  BY <1>1 DEF ContextOK
<1>3. ContextOK(in) /\ Kept(d, in) /\ ContextOK(out) /\ Kept(d, out)
  BY <1>1, <1>2, NarrowKeeps
<1>4. c.k \in Seq(Item) /\ Nested(c.k)
  BY DEF ContextOK, Framed
<1>5. t \in Seq(Item) /\ Nested(t)
  BY <1>4, TailKeeps
<1>6. n.body \in Seq(Stmt)
  BY DEF StmtDesc
<1>7. Nested(todo \o t) /\ Keeping(todo \o t, t)
  BY <1>5, <1>6, LoopFront
<1>8. Iterate(c, n, s, after) = IF Satisfiable(c, yes) THEN Push(in, todo) ELSE Pop(out)
  BY DEF Iterate
<1> HIDE DEF todo, in, out, d
<1>9. Kept(c, in) /\ Kept(c, out) /\ in.code = "NONE"
  BY <1>1, <1>3 DEF Kept
<1>10. Framed(Push(in, todo))
  BY <1>3, <1>7, <1>9, FramedPush
<1>11. Framed(Pop(out))
  <2>1. Signalled(t, out.code)
    BY <1>9 DEF Kept, Signalled
  <2> QED
    BY <1>3, <1>9, <2>1, FramedPop DEF Kept
<1> QED
  BY <1>8, <1>10, <1>11

LEMMA LoopFrames ==
    ASSUME NEW c, ContextOK(c), Framed(c), entry \in Funcs, While(c) \/ For(c)
    PROVE  StepFramed(c)
<1> DEFINE s == Head(c.k).n
           n == Node(c)
<1>1. /\ c.k # <<>> /\ Head(c.k).t = "stmt" /\ c.code = "NONE"
      /\ s \in Stmt /\ n \in StmtDesc /\ n = Ast[s]
      /\ n.op \in {"while", "for"}
  <2>1. AtStmt(c) /\ c.goHead /\ n.op \in {"while", "for"}
    BY DEF While, For, At
  <2> QED
    BY <2>1, Running
<1>2. CASE While(c)
  <2>1. <<>> \in Seq(Stmt) /\ \A j \in DOMAIN <<>> : ~Leaving(<<>>[j])
    OBVIOUS
  <2>2. Framed(Iterate(c, n, s, <<>>))
    BY <1>1, <2>1, IterateFrames
  <2> QED
    BY <1>2, <2>2 DEF While, StepFramed
<1>3. CASE For(c)
  <2> DEFINE inits == IF Visits(c, s) = 0 THEN n.init ELSE <<>>
             d == IF inits = <<>> THEN c ELSE Declared(c, Ast[inits[1]])
  <2>1. n.init \in Seq(Stmt) /\ n.step \in Seq(Stmt)
    BY <1>1 DEF StmtDesc
  <2>2. ASSUME inits # <<>>
        PROVE  inits[1] \in Stmt /\ Ast[inits[1]].x \in Vars
    <3>1. inits = n.init /\ 1 \in DOMAIN n.init
      BY <2>1, <2>2
    <3>2. inits[1] \in Stmt
      BY <2>1, <3>1
    <3>3. Ast[Ast[s].init[1]].op \in {"assign", "decl"}
      BY <1>1, <3>1, WellFormed
    <3> QED
      BY <1>1, <3>1, <3>2, <3>3, WellFormed
  <2>3. ContextOK(d) /\ Kept(c, d)
    <3>1. CASE inits = <<>>
      BY <3>1 DEF Kept
    <3>2. CASE inits # <<>>
      <4> DEFINE m == Ast[inits[1]]
      <4>1. m \in StmtDesc /\ m.x \in Vars
        BY <3>2, <2>2, AstAssumption
      <4>2. ContextOK(AssignTo(c, m)) /\ Kept(c, AssignTo(c, m))
        BY <4>1, AssignToKeeps
      <4>3. d = IF m.e.op = "none" THEN c ELSE AssignTo(c, m)
        BY <3>2 DEF Declared
      <4> QED
        BY <4>2, <4>3 DEF Kept
    <3> QED
      BY <3>1, <3>2
  <2>4. \A j \in DOMAIN n.step : ~Leaving(n.step[j])
    BY <1>1, WellFormed DEF Leaving
  <2>5. Abort \/ Become(c, {Iterate(d, n, s, n.step)})
    BY <1>1, <1>3 DEF For
  <2> HIDE DEF d
  <2>6. Framed(d)
    BY <2>3 DEF Framed, Kept
  <2>7. Framed(Iterate(d, n, s, n.step))
    BY <1>1, <2>1, <2>3, <2>4, <2>6, IterateFrames DEF Kept
  <2> QED
    BY <2>5, <2>7 DEF StepFramed
<1> QED
  BY <1>2, <1>3

LEMMA CallFrames ==
    ASSUME NEW c, ContextOK(c), Framed(c), entry \in Funcs, Call(c)
    PROVE  StepFramed(c)
<1> DEFINE s  == Head(c.k).n
           n  == Node(c)
           f  == n.f
           ps == Fun[f].params
           vs == [j \in DOMAIN n.args |-> Translate(c, n.args[j])]
           xs == UNION {Reads(n.args[j]) : j \in DOMAIN n.args}
           d  == Touch(c, xs)
           e  == [d EXCEPT !.depth[f] = @ + 1]
           b  == Bind(e, ps, vs)
           g  == [b EXCEPT !.scope = f]
           todo == Stmts(Fun[f].body) \o Ret(s, c.scope)
           t  == Tail(c.k)
           u  == todo \o t
           dep == [c.depth EXCEPT ![f] = @ + 1]
           new == [g EXCEPT !.k = u]
<1>1. /\ c.k # <<>> /\ Head(c.k).t = "stmt" /\ c.code = "NONE"
      /\ s \in Stmt /\ n \in StmtDesc /\ n = Ast[s] /\ n.op = "call"
  <2>1. AtStmt(c) /\ c.goHead /\ n.op = "call"
    BY DEF Call, At
  <2> QED
    BY <2>1, Running
<1>2. f \in Funcs /\ Fun[f].body \in Seq(Stmt)
  BY <1>1, WellFormed, AstAssumption
<1>3. ContextOK(d) /\ Kept(c, d)
  <2>1. n.args \in Seq(Expr)
    BY <1>1 DEF StmtDesc
  <2>2. \A j \in DOMAIN n.args : n.args[j] \in Expr
    BY <2>1
  <2>3. xs \in SUBSET Vars
    BY <2>2, ReadsType
  <2> QED
    BY <2>3, TouchKeeps
<1> HIDE DEF d, f
<1>4. DOMAIN e = Fields /\ e.k = c.k /\ e.code = "NONE" /\ e.depth = dep
  <2>1. e = [d EXCEPT !.depth = dep]
    BY <1>2, <1>3 DEF ContextOK, Fields, Kept
  <2> HIDE DEF dep
  <2> QED
    BY <1>1, <1>3, <2>1 DEF ContextOK, Fields, Kept
<1> HIDE DEF e
<1>5. DOMAIN b = Fields /\ b.k = c.k /\ b.code = "NONE" /\ b.depth = dep
  <2> DEFINE arg == [key \in {Key(e, ps[j]) : j \in DOMAIN ps} |->
                        vs[CHOOSE j \in DOMAIN ps : Key(e, ps[j]) = key]]
             loc == Extend(arg, e.local)
  <2>1. b = [e EXCEPT !.local = loc]
    BY DEF Bind
  <2> HIDE DEF loc, dep, b
  <2> QED
    BY <1>4, <2>1 DEF Fields
<1> HIDE DEF b
<1>6. /\ new.k = u /\ new.code = "NONE" /\ new.depth = dep /\ new.scope = f
      /\ Push(g, todo) = new
  <2>1. DOMAIN g = Fields /\ g.k = c.k /\ g.code = "NONE" /\ g.depth = dep
        /\ g.scope = f
    <3> HIDE DEF dep
    <3> QED
      BY <1>5 DEF Fields
  <2>2. Push(g, todo) = new
    <3> HIDE DEF g, todo
    <3> QED
      BY <2>1 DEF Push
  <2> HIDE DEF dep, g, u
  <2> QED
    BY <2>1, <2>2 DEF Fields
<1> HIDE DEF g, new
<1>7. /\ c.k \in Seq(Item) /\ Nested(c.k) /\ Owner(c.k, 1, c.scope)
      /\ c.scope \in Funcs /\ c.depth \in [Funcs -> Int] /\ Counted(c.k, c.depth)
  BY DEF ContextOK, Framed
<1>8. t \in Seq(Item) /\ Nested(t) /\ Owner(t, 1, c.scope)
      /\ \A h : Count(t, h) = Count(c.k, h)
  BY <1>1, <1>7, TailKeeps DEF Keeping
<1> HIDE DEF s, n
<1> DEFINE t1 == Ret(s, c.scope) \o t
<1>9. /\ t1 \in Seq(Item) /\ Nested(t1) /\ Owner(t1, 1, f)
      /\ \A h : Count(t1, h) = Count(c.k, h) + (IF h = f THEN 1 ELSE 0)
  <2>1. Ast[s].f = f
    BY <1>1 DEF f
  <2> DEFINE up == c.scope
  <2>2. t1 = Cat(Ret(s, up), t) /\ up \in Funcs /\ Owner(t, 1, up)
    BY <1>7, <1>8 DEF Cat
  <2> HIDE DEF t1, t, up
  <2>3. /\ t1 \in Seq(Item) /\ Nested(t1) /\ Owner(t1, 1, Ast[s].f)
        /\ \A h : Count(t1, h) = Count(t, h) + (IF h = Ast[s].f THEN 1 ELSE 0)
    BY <1>1, <1>8, <2>2, RetFront
  <2> QED
    BY <1>8, <2>1, <2>3
<1>10. u = Stmts(Fun[f].body) \o t1
  <2>1. Stmts(Fun[f].body) \in Seq(Item) /\ Ret(s, c.scope) \in Seq(Item)
    BY <1>1, <1>2, <1>7, StmtsType, MarkType
  <2> QED
    BY <1>8, <2>1, CatLaws DEF Cat, Conts
<1>11. Nested(u) /\ Keeping(u, t1)
  <2>1. \A j \in DOMAIN Fun[f].body : ~Leaving(Fun[f].body[j])
    BY <1>2, BreaksInLoops DEF Leaving
  <2> HIDE DEF t1, u
  <2> QED
    BY <1>2, <1>9, <1>10, <2>1, StmtsFront
<1>12. Owner(u, 1, f) /\ \A h : Count(u, h) = Count(c.k, h) + (IF h = f THEN 1 ELSE 0)
  BY <1>9, <1>11 DEF Keeping
<1> HIDE DEF u, t1
<1>13. Counted(u, dep)
  <2>1. Suffix(c.k, 1, Tail(c.k))
    BY <1>1, <1>7, SuffixTail
  <2>2. Count(c.k, entry) \in Nat
    BY <2>1, CountSuffix
  <2>3. ~Ended(c.k, c.depth)
    BY <1>1 DEF Ended
  <2>4. \A h \in Funcs : c.depth[h] = Count(c.k, h) + (IF h = entry THEN 1 ELSE 0)
    BY <1>7, <2>3 DEF Counted
  <2>5. \A h \in Funcs : dep[h] = IF h = f THEN c.depth[h] + 1 ELSE c.depth[h]
    BY <1>7
  <2>6. dep[entry] # 0
    BY <2>2, <2>4, <2>5
  <2>7. ~Ended(u, dep)
    BY <2>6 DEF Ended
  <2>8. \A h \in Funcs : Count(c.k, h) \in Nat
    BY <2>1, CountSuffix
  <2> HIDE DEF dep
  <2> QED
    BY <1>12, <2>4, <2>5, <2>7, <2>8 DEF Counted
<1>14. Framed(new)
  BY <1>6, <1>11, <1>12, <1>13 DEF Framed, Signalled
<1>15. Become(c, {Push(g, todo)})
  BY DEF Call, g, b, e, d, f, s, n
<1> QED
  BY <1>6, <1>14, <1>15 DEF StepFramed

LEMMA CallReturnFrames ==
    ASSUME NEW c, ContextOK(c), Framed(c), entry \in Funcs, CallReturn(c)
    PROVE  StepFramed(c)
<1> DEFINE m == Head(c.k)
           n == Ast[m.n]
           a == [c EXCEPT !.scope = m.up]
           b == [a EXCEPT !.depth[n.f] = a.depth[n.f] - 1]
           d == ResetIf(b, "RETURN")
           r == Key([d EXCEPT !.depth[n.f] = @ + 1], Fun[n.f].ret)
           e == Update(Touch(d, {n.x}), n.x, c.local[r])
           t == Tail(c.k)
           dep == [c.depth EXCEPT ![n.f] = c.depth[n.f] - 1]
<1>1. c.k # <<>> /\ m \in Item /\ m.t = "ret" /\ c.k \in Seq(Item)
  <2>1. c.k # <<>> /\ m.t = "ret"
    BY DEF CallReturn, AtMark
  <2>2. c.k \in Seq(Item)
    BY DEF ContextOK
  <2> QED
    BY <2>1, <2>2
<1>2. m.n \in Stmt /\ m.up \in Funcs
  <2>1. m \notin [t : {"stmt", "cont", "brk"}, n : Stmt, up : {NoFunc}]
    BY <1>1
  <2>2. m \in [t : {"ret"}, n : Stmt, up : Funcs]
    BY <1>1, <2>1 DEF Item
  <2> HIDE DEF m
  <2> QED
    BY <2>2
<1>3. n \in StmtDesc
  BY <1>2, AstAssumption
<1>4. ContextOK(a) /\ a.k = c.k /\ a.code = c.code /\ a.depth = c.depth /\ a.scope = m.up
  BY <1>2, ScopeOK DEF ContextOK, Fields
<1> HIDE DEF a
<1>5. ContextOK(b) /\ b.k = c.k /\ b.code = c.code /\ b.depth = dep /\ b.scope = m.up
  <2>1. n.f \in Funcs => a.depth[n.f] - 1 \in Int
    BY <1>4 DEF ContextOK
  <2>2. ContextOK(b)
    BY <1>4, <2>1, DepthOK
  <2>3. b = [a EXCEPT !.depth = dep]
    BY <1>4 DEF ContextOK, Fields
  <2> HIDE DEF dep, b
  <2> QED
    BY <1>4, <2>2, <2>3 DEF ContextOK, Fields
<1> HIDE DEF b
<1>6. /\ ContextOK(d) /\ d.k = c.k /\ d.depth = dep /\ d.scope = m.up
      /\ d.code = IF c.code = "RETURN" THEN "NONE" ELSE c.code
  BY <1>5, ResetKeeps DEF Codes
<1> HIDE DEF d
<1>7. ASSUME n.x # NoVar PROVE ContextOK(e) /\ Kept(d, e)
  <2>1. n.x \in Vars /\ {n.x} \in SUBSET Vars
    BY <1>3, <1>7 DEF StmtDesc
  <2>2. ContextOK(Touch(d, {n.x})) /\ Kept(d, Touch(d, {n.x}))
    BY <1>6, <2>1, TouchKeeps
  <2>3. ContextOK(e) /\ Kept(Touch(d, {n.x}), e)
    BY <2>1, <2>2, UpdateKeeps
  <2> QED
    BY <2>2, <2>3 DEF Kept
<1>8. /\ Nested(c.k) /\ Signalled(c.k, c.code) /\ Counted(c.k, c.depth)
      /\ c.depth \in [Funcs -> Int]
  BY DEF ContextOK, Framed
<1>9. t \in Seq(Item) /\ Nested(t) /\ Owner(t, 1, m.up) /\ m = c.k[1]
  <2>1. /\ t \in Seq(Item) /\ Nested(t) /\ Placed(c.k, 1) /\ m = c.k[1]
        /\ Owner(c.k, 2, m.up) <=> Owner(t, 1, m.up)
    BY <1>1, <1>8, TailKeeps
  <2>2. Owner(c.k, 1 + 1, m.up)
    BY <1>1, <2>1 DEF Placed
  <2> QED
    BY <2>1, <2>2
<1>10. c.code \notin {"CONTINUE", "BREAK"}
  BY <1>1, <1>8, SignalPasses
<1>11. Counted(t, dep)
  <2>1. Suffix(c.k, 1, t)
    BY <1>1, SuffixTail
  <2>2. \A h : Count(t, h) \in Nat
    BY <2>1, CountSuffix
  <2>3. \A h : Count(c.k, h) = Count(t, h) + (IF n.f = h THEN 1 ELSE 0)
    BY <1>1, <1>9, CountHead DEF Callee
  <2>4. ~Ended(c.k, c.depth)
    BY <1>1 DEF Ended
  <2>5. \A h \in Funcs : c.depth[h] = Count(c.k, h) + (IF h = entry THEN 1 ELSE 0)
    BY <1>8, <2>4 DEF Counted
  <2>6. \A h \in Funcs : dep[h] = IF h = n.f THEN c.depth[h] - 1 ELSE c.depth[h]
    BY <1>8
  <2> HIDE DEF dep, n, t
  <2>7. \A h \in Funcs : dep[h] = Count(t, h) + (IF h = entry THEN 1 ELSE 0)
    BY <2>2, <2>3, <2>5, <2>6
  <2>8. dep[entry] # 0
    BY <2>2, <2>7
  <2>9. ~Ended(t, dep)
    BY <2>8 DEF Ended
  <2> QED
    BY <2>7, <2>9 DEF Counted
<1> HIDE DEF dep, n, t, m
<1>12. ASSUME NEW x, ContextOK(x), Kept(d, x) PROVE Framed(Pop(x))
  <2> DEFINE new == [x EXCEPT !.k = t]
  <2>1. new.k = t /\ new.depth = dep /\ new.scope = m.up /\ new.code = d.code
    BY <1>6, <1>12 DEF ContextOK, Fields, Kept
  <2>2. Pop(x) = new
    BY <1>6, <1>12 DEF Pop, Kept, t
  <2>3. Signalled(t, d.code)
    BY <1>6, <1>10 DEF Signalled
  <2> QED
    BY <1>9, <1>11, <2>1, <2>2, <2>3 DEF Framed
<1>13. b = [c EXCEPT !.scope = m.up, !.depth[n.f] = @ - 1]
  BY DEF ContextOK, Fields, a, b
<1>14. \/ n.x = NoVar /\ Become(c, {Pop(d)})
       \/ Abort
       \/ n.x # NoVar /\ Become(c, {Pop(e)})
  BY <1>13 DEF CallReturn, m, n, d
<1>15. Framed(Pop(d))
  BY <1>6, <1>12 DEF Kept
<1>16. n.x # NoVar => Framed(Pop(e))
  BY <1>7, <1>12
<1> QED
  BY <1>14, <1>15, <1>16 DEF StepFramed

\* Nothing is left.
LEMMA EmptyFrames ==
    /\ <<>> \in Seq(Item) /\ Nested(<<>>) /\ Owner(<<>>, 1, entry)
    /\ \A f : Count(<<>>, f) = 0
<1>1. Len(<<>>) = 0 /\ DOMAIN <<>> = {} /\ <<>> \in Seq(Item)
  OBVIOUS
<1>2. Nested(<<>>)
  BY <1>1 DEF Nested
<1>3. Owner(<<>>, 1, entry)
  BY <1>1 DEF Owner, Free
<1>4. ASSUME NEW f PROVE Count(<<>>, f) = 0
  <2>1. Of(<<>>, f) = {}
    BY <1>1 DEF Of
  <2> QED
    BY <2>1, FS_EmptySet DEF Count
<1> QED
  BY <1>1, <1>2, <1>3, <1>4

LEMMA FinishFrames ==
    ASSUME NEW c, ContextOK(c), Framed(c), entry \in Funcs, Finish(c)
    PROVE  StepFramed(c)
<1> DEFINE dep == [c.depth EXCEPT ![entry] = c.depth[entry] - 1]
           b == [c EXCEPT !.depth[entry] = c.depth[entry] - 1]
           d == ResetIf(b, "RETURN")
<1>1. ContextOK(b) /\ b.k = c.k /\ b.code = c.code /\ b.depth = dep /\ b.scope = c.scope
  <2>1. c.depth[entry] - 1 \in Int
    BY DEF ContextOK
  <2>2. ContextOK(b)
    BY <2>1, DepthOK
  <2>3. b = [c EXCEPT !.depth = dep]
    BY DEF ContextOK, Fields
  <2> HIDE DEF dep, b
  <2> QED
    BY <2>2, <2>3 DEF ContextOK, Fields
<1> HIDE DEF b
<1>2. /\ d.k = c.k /\ d.depth = dep /\ d.scope = c.scope
      /\ d.code = IF c.code = "RETURN" THEN "NONE" ELSE c.code
  BY <1>1, ResetKeeps DEF Codes
<1> HIDE DEF d
<1>3. c.k = <<>> /\ c.depth[entry] > 0 /\ Become(c, {d})
  BY DEF Finish, b, d
<1>4. c.depth \in [Funcs -> Int] /\ Counted(c.k, c.depth)
  BY DEF ContextOK, Framed
<1>5. \A f \in Funcs : c.depth[f] = IF f = entry THEN 1 ELSE 0
  BY <1>3, <1>4, EmptyFrames DEF Counted, Ended
<1>6. \A f \in Funcs : dep[f] = 0
  BY <1>4, <1>5
<1>7. Counted(d.k, d.depth)
  BY <1>2, <1>3, <1>6, EmptyFrames DEF Counted, Ended
<1>8. Signalled(d.k, d.code)
  BY <1>2 DEF Framed, Signalled
<1>9. Framed(d)
  BY <1>2, <1>7, <1>8 DEF Framed
<1> QED
  BY <1>3, <1>9 DEF StepFramed

LEMMA StepFrames ==
    ASSUME NEW c, ContextOK(c), Framed(c), entry \in Entries, Step(c)
    PROVE  StepFramed(c)
  BY EntriesAssumption, ValueFrames, SignalFrames, IfFrames, LoopFrames, CallFrames,
     CallReturnFrames, FinishFrames DEF Step

-----------------------------------------------------------------------------
(* The invariants                                                          *)
LEMMA InitFrames ==
    ASSUME Init
    PROVE  AllFramed
<1> DEFINE c == InitContext(entry)
           s == Stmts(Fun[entry].body)
           dep == [g \in Funcs |-> IF g = entry THEN 1 ELSE 0]
<1>1. entry \in Funcs /\ Fun[entry].body \in Seq(Stmt)
  BY EntriesAssumption, AstAssumption DEF Init
<1>2. c.k = s /\ c.code = "NONE" /\ c.scope = entry /\ c.depth = dep
  BY DEF InitContext
<1>3. s \in Seq(Item) /\ s = s \o <<>>
  BY <1>1, StmtsType, ConcatEmptySeq
<1>4. \A j \in DOMAIN Fun[entry].body : ~Leaving(Fun[entry].body[j])
  BY <1>1, BreaksInLoops DEF Leaving
<1>5. Nested(s) /\ Keeping(s, <<>>)
  <2> HIDE DEF s
  <2>1. s = Stmts(Fun[entry].body) \o <<>>
    BY <1>3 DEF s
  <2> QED
    BY <1>1, <1>4, <2>1, EmptyFrames, StmtsFront
<1> HIDE DEF s
<1>6. Owner(s, 1, entry) /\ \A f : Count(s, f) = 0
  BY <1>5, EmptyFrames DEF Keeping
<1>7. Counted(s, dep)
  BY <1>1, <1>6 DEF Counted, Ended
<1>8. Framed(c)
  <2> HIDE DEF c
  <2> QED
    BY <1>2, <1>5, <1>6, <1>7 DEF Framed, Signalled
<1> QED
  BY <1>8 DEF Init, AllFramed

LEMMA FramedSame ==
    ASSUME entry' = entry, NEW c
    PROVE  Framed(c) <=> Framed(c)'
  BY DEF Framed, Nested, Placed, Owner, Counted, Ended, Signalled, Count, Of,
         InBody, InLoop, Free

LEMMA FramesStep ==
    ASSUME TypeOK, AllFramed, [Next]_vars
    PROVE  AllFramed'
<1>1. CASE UNCHANGED vars
  BY <1>1, FramedSame DEF vars, AllFramed
<1>2. ASSUME NEW c \in ctxs, Abort PROVE AllFramed'
  BY <1>2, FramedSame DEF Abort, AllFramed
<1>3. ASSUME NEW c \in ctxs, NEW succ, Become(c, succ), \A s \in succ : Framed(s)
      PROVE  AllFramed'
  <2>1. entry' = entry /\ ctxs' = (ctxs \ {c}) \cup succ
    BY <1>3 DEF Become
  <2>2. ASSUME NEW x \in ctxs' PROVE Framed(x)
    BY <1>3, <2>1, <2>2 DEF AllFramed
  <2>3. ASSUME NEW x \in ctxs' PROVE Framed(x)'
    BY <2>1, <2>2, FramedSame
  <2> QED
    BY <2>3 DEF AllFramed
<1>4. ASSUME NEW c \in ctxs, Step(c) PROVE AllFramed'
  <2>1. ContextOK(c) /\ Framed(c) /\ entry \in Entries
    BY DEF TypeOK, AllFramed
  <2>2. StepFramed(c)
    BY <1>4, <2>1, StepFrames
  <2> QED
    BY <1>2, <1>3, <2>2 DEF StepFramed
<1> QED
  BY <1>1, <1>2, <1>4 DEF Next, Proceed, Overflow

LEMMA AlwaysFramed == Spec => [](TypeOK /\ AllFramed)
<1>1. Init => AllFramed
  BY InitFrames
<1>2. TypeOK /\ AllFramed /\ [Next]_vars => AllFramed'
  BY FramesStep
<1> QED
  BY <1>1, <1>2, TypeCorrect, PTL DEF Spec

(* FramesMatch: on every path of every contract, however the callees end,  *)
(* funcCallDepthMap counts the calls in progress and funcScope names the   *)
(* innermost one (SymExecEngine::strongestPostcondition, FunctionCall).    *)
THEOREM FramesCorrect == Spec => []FramesMatch
<1>1. TypeOK /\ AllFramed => FramesMatch
  <2> SUFFICES ASSUME TypeOK, AllFramed, NEW c \in ctxs
               PROVE  /\ \A f \in Funcs :
                            c.depth[f] = Cardinality({j \in Calls(c) : Callee(c.k[j]) = f})
                                + (IF f = entry /\ ~Finished(c) THEN 1 ELSE 0)
                      /\ IF Calls(c) = {} THEN c.scope = entry
                         ELSE \E j \in Calls(c) : /\ Before(c, j, {"ret"})
                                                  /\ c.scope = Callee(c.k[j])
    BY DEF FramesMatch
  <2>1. Framed(c) /\ c.k \in Seq(Item)
    BY DEF TypeOK, AllFramed, ContextOK
  <2>2. DOMAIN c.k = 1..Len(c.k) /\ Len(c.k) \in Nat
    BY <2>1
  <2>3. \A f : {j \in Calls(c) : Callee(c.k[j]) = f} = Of(c.k, f)
    BY DEF Calls, Of
  <2>4. Finished(c) <=> Ended(c.k, c.depth)
    BY DEF Finished, Ended
  <2>5. Owner(c.k, 1, c.scope) /\ Counted(c.k, c.depth)
    BY <2>1 DEF Framed
  <2>6. Len(c.k) + 1 - 1 = Len(c.k)
    BY <2>2
  <2>7. IF Calls(c) = {} THEN c.scope = entry
        ELSE \E j \in Calls(c) : Before(c, j, {"ret"}) /\ c.scope = Callee(c.k[j])
    <3> HIDE DEF Callee
    <3>1. CASE Calls(c) = {}
      BY <2>2, <2>5, <3>1 DEF Calls, Owner
    <3>2. CASE Calls(c) # {}
      <4>1. ~Free(c.k, 1, Len(c.k) + 1, {"ret"})
        BY <2>2, <2>6, <3>2 DEF Calls, Free
      <4>2. PICK j \in 1..Len(c.k) : /\ c.k[j].t = "ret" /\ Free(c.k, 1, j, {"ret"})
                                     /\ c.scope = Callee(c.k[j])
        BY <2>5, <4>1 DEF Owner
      <4> QED
        BY <2>2, <3>2, <4>2 DEF Calls, Before, Free
    <3> QED
      BY <3>1, <3>2
  <2>8. \A f \in Funcs :
            c.depth[f] = Cardinality({j \in Calls(c) : Callee(c.k[j]) = f})
                + (IF f = entry /\ ~Finished(c) THEN 1 ELSE 0)
    BY <2>3, <2>4, <2>5 DEF Counted, Count
  <2> QED
    BY <2>7, <2>8
<1> QED
  BY <1>1, AlwaysFramed, PTL

(* SignalsStayInLoop: on every path of every contract, a continue is met   *)
(* by the end of the body it is in and a break by the end of its loop,     *)
(* before any call returns (strongestPostcondition, WhileStatement and     *)
(* ForStatement).                                                          *)
THEOREM SignalsCorrect == Spec => []SignalsStayInLoop
<1>1. TypeOK /\ AllFramed => SignalsStayInLoop
  <2> SUFFICES ASSUME TypeOK, AllFramed, NEW c \in ctxs
               PROVE  /\ c.code = "CONTINUE" => \E j \in DOMAIN c.k :
                             c.k[j].t = "cont" /\ Before(c, j, {"brk", "ret"})
                      /\ c.code = "BREAK" => \E j \in DOMAIN c.k :
                             c.k[j].t = "brk" /\ Before(c, j, {"ret"})
    BY DEF SignalsStayInLoop
  <2>1. Framed(c) /\ c.k \in Seq(Item)
    BY DEF TypeOK, AllFramed, ContextOK
  <2>2. DOMAIN c.k = 1..Len(c.k)
    BY <2>1
  <2>3. Signalled(c.k, c.code)
    BY <2>1 DEF Framed
  <2> QED
    BY <2>2, <2>3 DEF Signalled, InBody, InLoop, Before, Free
<1> QED
  BY <1>1, AlwaysFramed, PTL
=============================================================================
