------------------------------ MODULE Lvalues ------------------------------
(***************************************************************************)
(* Assignments to mapping elements and struct fields: updateContextInfo    *)
(* of SymExecEngine rebuilds the Z3 term of the variable that an lvalue    *)
(* starts at, SolidityExprTranslator reads it, and both look at the shape  *)
(* that the term has at that moment.  Beside the terms runs the store that *)
(* Solidity would have.                                                    *)
(*                                                                         *)
(* An lvalue is a variable and a path of accessors: an index expression or *)
(* the number of a field.                                                  *)
(***************************************************************************)
EXTENDS Integers, Sequences, SequencesExt

CONSTANTS
    Vars,          \* variables: name -> [type, state, pointer]
    Initials,      \* stores to start from: name -> value
    Statements,    \* the assignments and declarations of the contract
    Limit          \* how many of them a path executes

VARIABLES
    terms,     \* stateVarValueZ3ExprMap and localVarValueZ3ExprMap
    status,    \* "ok", or "stopped" by an assert or a z3::exception
    stores,    \* for each initial store what Solidity makes of it
    refers,    \* for each initial store where its storage pointers point to
    steps,     \* statements executed
    clear      \* so far no field was mistaken and no tuple depended on its order

vars == <<terms, status, stores, refers, steps, clear>>

-----------------------------------------------------------------------------
(* Sorts and terms.  A struct is a tuple sort: a constructor and one       *)
(* projector for each field.                                               *)
Int_         == [sort |-> "Int"]
Array(range) == [sort |-> "Array", range |-> range]
Tuple(fields) == [sort |-> "Tuple", fields |-> fields]

IsA(sort, name) == sort.sort = name

Term(op, label, args) == [op |-> op, label |-> label, args |-> args]
Constant(name)  == Term("const", name, <<>>)
Literal(n)      == Term("literal", n, <<>>)
Wrong           == Term("wrong", 0, <<>>)
IllSorted       == [sort |-> "none"]

RECURSIVE Sort(_)
Sort(t) ==
    LET S(i) == Sort(t.args[i])
    IN  CASE t.op = "const"   -> Vars[t.label].type
          [] t.op = "literal" -> Int_
          [] t.op = "select"  -> IF IsA(S(1), "Array") /\ S(2) = Int_ THEN S(1).range ELSE IllSorted
          [] t.op = "store"   -> IF IsA(S(1), "Array") /\ S(2) = Int_ /\ S(3) = S(1).range
                                 THEN S(1) ELSE IllSorted
          [] t.op = "proj"    -> IF IsA(S(1), "Tuple") /\ t.label \in DOMAIN S(1).fields
                                 THEN S(1).fields[t.label] ELSE IllSorted
          [] t.op = "cons"    -> IF [i \in DOMAIN t.args |-> S(i)] = t.label
                                 THEN Tuple(t.label) ELSE IllSorted
          [] t.op = "plus"    -> IF S(1) = Int_ /\ S(2) = Int_ THEN Int_ ELSE IllSorted
          [] OTHER            -> IllSorted

\* Z3 throws when a term cannot be sorted; what is built from it is not built.
Built(t) == IF Sort(t) = IllSorted THEN Wrong ELSE t

Select(a, i)     == Built(Term("select", 0, <<a, i>>))
Store(a, i, e)   == Built(Term("store", 0, <<a, i, e>>))
Plus(a, b)       == Built(Term("plus", 0, <<a, b>>))
Proj(f, t)       == Built(Term("proj", f, <<t>>))
Construct(fields, es) == Built(Term("cons", fields, es))

\* The value of a term when the constants are those of a store.
RECURSIVE Value(_, _)
Value(t, init) ==
    LET V(i) == Value(t.args[i], init)
    IN  CASE t.op = "const"   -> init[t.label]
          [] t.op = "literal" -> t.label
          [] t.op = "select"  -> V(1)[V(2)]
          [] t.op = "store"   -> [V(1) EXCEPT ![V(2)] = V(3)]
          [] t.op = "proj"    -> V(1)[t.label]
          [] t.op = "cons"    -> [i \in DOMAIN t.args |-> V(i)]
          [] t.op = "plus"    -> V(1) + V(2)

-----------------------------------------------------------------------------
(* Expressions of the contract.                                            *)
Lvalue(var, path) == [var |-> var, path |-> path]
Whole(lv)   == lv.path = <<>>
Base(lv)    == Lvalue(lv.var, Front(lv.path))
Index(e)    == [kind |-> "index", e |-> e]
Field(f)    == [kind |-> "field", f |-> f]
EndsIn(lv, kind) == ~Whole(lv) /\ Last(lv.path).kind = kind

Num(n)       == [op |-> "num", n |-> n]
Read(lv)     == [op |-> "read", lv |-> lv]
PlusOne(lv)  == [op |-> "plus", lv |-> lv]

\* The declared type of an lvalue.
TypeOf(lv) ==
    FoldLeft(LAMBDA type, a : IF a.kind = "index" THEN type.range ELSE type.fields[a.f],
             Vars[lv.var].type, lv.path)

\* Fault: the argument at its position, also of a selected struct.
FieldByPosition(base, mother, f) ==
    IF mother = Wrong THEN Wrong
    ELSE IF f > Len(mother.args) THEN Proj(f, mother)
    ELSE IF Len(mother.args) # Len(TypeOf(base).fields) THEN Wrong
    ELSE mother.args[f]

\* A field of mother, the term of base: by projector after an index access, and
\* else the argument at its position, whatever is applied; a constant has none,
\* so that arg() throws and the projector is taken after all.
FieldOf(base, mother, f) ==
    IF mother = Wrong THEN Wrong
    ELSE IF EndsIn(base, "index") THEN Proj(f, mother)
    ELSE IF f > Len(mother.args) THEN Proj(f, mother)
    ELSE IF Len(mother.args) # Len(TypeOf(base).fields) THEN Wrong
    ELSE mother.args[f]

RECURSIVE Translate(_, _), TranslateLvalue(_, _)
Translate(m, e) ==
    IF e.op = "num" THEN Literal(e.n)
    ELSE IF e.op = "read" THEN TranslateLvalue(m, e.lv)
    ELSE Plus(TranslateLvalue(m, e.lv), Literal(1))

TranslateLvalue(m, lv) ==
    IF Whole(lv) THEN m[lv.var]
    ELSE IF EndsIn(lv, "index")
    THEN Select(TranslateLvalue(m, Base(lv)), Translate(m, Last(lv.path).e))
    ELSE FieldOf(Base(lv), TranslateLvalue(m, Base(lv)), Last(lv.path).f)

-----------------------------------------------------------------------------
(* updateContextInfo: the terms after lv := e, or Failed.                  *)
Failed == [failed |-> TRUE]

\* The struct at base with one field replaced.
Rebuilt(m, base, field, e) ==
    LET fields == TypeOf(base).fields
        mother == TranslateLvalue(m, base)
    IN  Construct(fields, [f \in DOMAIN fields |-> IF f = field THEN e ELSE FieldOf(base, mother, f)])

\* getArrayName follows index accesses only.  The name it returns for a local
\* variable is complete already and is then extended once more.
Named(lv) == /\ \A k \in DOMAIN lv.path : lv.path[k].kind = "index"
             /\ Vars[lv.var].state

RECURSIVE Update(_, _, _)
Update(m, lv, e) ==
    IF e = Wrong THEN Failed
    ELSE IF Whole(lv) THEN [m EXCEPT ![lv.var] = e]
    ELSE IF EndsIn(lv, "field")
    THEN Update(m, Base(lv), Rebuilt(m, Base(lv), Last(lv.path).f, e))
    ELSE LET base  == Base(lv)
             array == Store(TranslateLvalue(m, base), Translate(m, Last(lv.path).e), e)
         IN  IF array = Wrong THEN Failed
             ELSE IF EndsIn(base, "field")
             THEN Update(m, Base(base), Rebuilt(m, Base(base), Last(base.path).f, array))
             ELSE IF Named(base) THEN [m EXCEPT ![lv.var] = array]
             ELSE Failed

-----------------------------------------------------------------------------
(* What the properties do not ask for.  Only a constructor has the fields  *)
(* as its arguments: a struct held as a select or a projection has other   *)
(* terms at those positions, and the code takes one of them for the field  *)
(* wherever there is one.  After an index access it does not look.         *)
Mistaken(m, base, f) ==
    LET mother == TranslateLvalue(m, base)
    IN  ~EndsIn(base, "index") /\ mother.op # "cons" /\ f <= Len(mother.args)

Steps(lv)    == {Lvalue(lv.var, SubSeq(lv.path, 1, k)) : k \in DOMAIN lv.path}

Indices(lv)  == {lv.path[k].e : k \in {k \in DOMAIN lv.path : lv.path[k].kind = "index"}}

\* The lvalues that are translated with lv: its prefixes and those of its indices.
RECURSIVE Within(_)
Within(lv) ==
    Steps(lv) \cup
    UNION {Within(e.lv) : e \in {e \in Indices(lv) : e.op # "num"}}

ReadMistaken(m, lvs) ==
    \E lv \in lvs : EndsIn(lv, "field") /\ Mistaken(m, Base(lv), Last(lv.path).f)

\* A write takes the other fields of every struct that it is in.
WriteMistaken(m, lv) ==
    \/ ReadMistaken(m, Within(lv) \ {lv})
    \/ \E q \in {q \in Steps(lv) : EndsIn(q, "field")} :
          \E f \in DOMAIN TypeOf(Base(q)).fields \ {Last(q.path).f} : Mistaken(m, Base(q), f)

-----------------------------------------------------------------------------
(* The same in Solidity.  A location is a variable and the keys and fields *)
(* that lead to the value; a storage pointer stands for its target.        *)
RECURSIVE Located(_, _, _), Contents(_, _, _)
Located(store, refs, lv) ==
    IF Whole(lv)
    THEN IF lv.var \in DOMAIN refs THEN refs[lv.var] ELSE [var |-> lv.var, at |-> <<>>]
    ELSE LET base == Located(store, refs, Base(lv))
             a    == Last(lv.path)
         IN  [base EXCEPT !.at = Append(@, IF a.kind = "field" THEN a.f
                                            ELSE Contents(store, refs, a.e))]

Fetch(store, loc) == FoldLeft(LAMBDA v, k : v[k], store[loc.var], loc.at)

Contents(store, refs, e) ==
    IF e.op = "num" THEN e.n
    ELSE LET v == Fetch(store, Located(store, refs, e.lv))
         IN  IF e.op = "plus" THEN v + 1 ELSE v

RECURSIVE Put(_, _, _)
Put(v, at, x) == IF at = <<>> THEN x ELSE [v EXCEPT ![Head(at)] = Put(@, Tail(at), x)]

Written(store, loc, x) == [store EXCEPT ![loc.var] = Put(@, loc.at, x)]

-----------------------------------------------------------------------------
Init ==
    /\ terms = [v \in DOMAIN Vars |-> Constant(v)]
    /\ status = "ok"
    /\ stores = [i \in DOMAIN Initials |-> Initials[i]]
    /\ refers = [i \in DOMAIN Initials |-> <<>>]
    /\ steps = 0
    /\ clear = TRUE

Become(m) == IF m = Failed THEN status' = "stopped" /\ UNCHANGED terms
             ELSE terms' = m /\ UNCHANGED status

Bind(m, v, e) == [m EXCEPT ![v] = e]

Ready(s, kind) == status = "ok" /\ steps < Limit /\ s.kind = kind /\ steps' = steps + 1

\* Fault: the right hand side is read after the left hand side is written.
AssignOneByOne(m, s) ==
    FoldLeft(LAMBDA n, k : IF n = Failed THEN Failed
                           ELSE Update(n, s.lhs[k], Translate(n, s.rhs[k])),
             m, [k \in DOMAIN s.lhs |-> k])

\* The first n components written, each with the terms that those before it left.
WriteUpTo(m, lhs, es, n) ==
    FoldLeft(LAMBDA o, k : IF o = Failed THEN Failed ELSE Update(o, lhs[k], es[k]),
             m, [k \in 1..n |-> k])

\* strongestPostcondition(Assignment): the right hand side is translated first,
\* as one term tuple(...) when there are several; a single left hand side is
\* translated as well.
AssignAll(m, s) ==
    LET es == [k \in DOMAIN s.rhs |-> Translate(m, s.rhs[k])]
    IN  IF \E k \in DOMAIN es : es[k] = Wrong THEN Failed
        ELSE IF Len(es) = 1 /\ TranslateLvalue(m, s.lhs[1]) = Wrong THEN Failed
        ELSE WriteUpTo(m, s.lhs, es, Len(es))

\* Solidity evaluates both sides first and assigns from the right.
Assigned(store, refs, s) ==
    LET locs == [k \in DOMAIN s.lhs |-> Located(store, refs, s.lhs[k])]
        xs   == [k \in DOMAIN s.rhs |-> Contents(store, refs, s.rhs[k])]
    IN  FoldRight(LAMBDA k, st : Written(st, locs[k], xs[k]), [k \in DOMAIN xs |-> k], store)

\* Whether a tuple is the same written from the left, with each index read when its
\* component is written.
InAnyOrder(store, refs, s) ==
    LET locs == [k \in DOMAIN s.lhs |-> Located(store, refs, s.lhs[k])]
        upTo(n) == FoldLeft(LAMBDA st, k : Written(st, locs[k], Contents(store, refs, s.rhs[k])),
                            store, [k \in 1..n |-> k])
    IN  /\ \A k \in DOMAIN locs : Located(upTo(k - 1), refs, s.lhs[k]) = locs[k]
        /\ upTo(Len(locs)) = Assigned(store, refs, s)

\* No field is mistaken in s: all is read in m, the k-th of several components is
\* written when those before it have been.
NoneMistaken(m, s) ==
    /\ ~ReadMistaken(m, UNION {Within(e.lv) : e \in {e \in ToSet(s.rhs) : e.op # "num"}})
    /\ Len(s.lhs) = 1 => ~ReadMistaken(m, Within(s.lhs[1]))
    /\ \A k \in DOMAIN s.lhs :
         LET before == WriteUpTo(m, s.lhs, [j \in DOMAIN s.rhs |-> Translate(m, s.rhs[j])], k - 1)
         IN  before # Failed => ~WriteMistaken(before, s.lhs[k])

Assign(s) ==
    /\ Ready(s, "assign")
    /\ Become(AssignAll(terms, s))
    /\ clear' = (/\ clear
                 /\ \A i \in DOMAIN stores : InAnyOrder(stores[i], refers[i], s)
                 /\ NoneMistaken(terms, s))
    /\ stores' = [i \in DOMAIN stores |-> Assigned(stores[i], refers[i], s)]
    /\ UNCHANGED refers

\* strongestPostcondition(VariableDeclarationStatement) of a struct: the local
\* variable gets the term, wherever Solidity keeps the struct.
Declare(s) ==
    /\ Ready(s, "declare")
    /\ clear' = (clear /\ ~ReadMistaken(terms, Within(s.lv)))
    /\ LET e == TranslateLvalue(terms, s.lv)
       IN  Become(IF e = Wrong THEN Failed ELSE Bind(terms, s.var, e))
    /\ LET at(i) == Located(stores[i], refers[i], s.lv)
       IN  IF Vars[s.var].pointer
           THEN /\ refers' = [i \in DOMAIN stores |->
                                 [v \in DOMAIN refers[i] \cup {s.var} |->
                                     IF v = s.var THEN at(i) ELSE refers[i][v]]]
                /\ UNCHANGED stores
           ELSE /\ stores' = [i \in DOMAIN stores |->
                                 [stores[i] EXCEPT ![s.var] = Fetch(stores[i], at(i))]]
                /\ UNCHANGED refers

Done == (status = "stopped" \/ steps = Limit) /\ UNCHANGED vars

Next == (\E s \in Statements : Assign(s) \/ Declare(s)) \/ Done

Spec == Init /\ [][Next]_vars

-----------------------------------------------------------------------------
(* As long as no field was mistaken for another term and no tuple depended *)
(* on the order of its writes: in every initial store the term of each     *)
(* variable has the sort that its declaration gave it and the value that   *)
(* Solidity has put there by then.                                         *)
Agrees ==
    clear /\ status = "ok" =>
        \A v \in DOMAIN terms : \A i \in DOMAIN stores :
            v \notin DOMAIN refers[i] =>
                /\ Sort(terms[v]) = Vars[v].type
                /\ Value(terms[v], Initials[i]) = stores[i][v]

(* As long as that is so, every statement of the kinds that are supported  *)
(* is executed: what earlier ones made of the terms does not trip an       *)
(* assert.                                                                 *)
Supported == clear => status = "ok"
=============================================================================
