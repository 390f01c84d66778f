----------------------------- MODULE SourceLang -----------------------------
(***************************************************************************)
(* What a program writes when it runs, as docs/syntax.md describes the     *)
(* language.  This is the reference the code generator is compared with.   *)
(***************************************************************************)
EXTENDS Trees

-----------------------------------------------------------------------------
(* A run: glob and loc bind the global and the local variables, out is     *)
(* what was written, draws counts the random numbers, val is the value of  *)
(* the expression evaluated last, mode is "run", "ret" (with val) or       *)
(* "spent" when more than the given number of calls and loop turns is made.*)

Unset == V("int", 0)

Lookup(v, s) ==
    IF v \in DOMAIN s.loc THEN s.loc[v]
    ELSE IF v \in DOMAIN s.glob THEN s.glob[v] ELSE Unset

Bind(v, x, s) ==
    IF v \in DOMAIN s.glob /\ v \notin DOMAIN s.loc
    THEN [s EXCEPT !.glob[v] = x]
    ELSE [s EXCEPT !.loc = (v :> x) @@ @]

RECURSIVE Eval(_, _, _), RunList(_, _, _), RunStmt(_, _, _)

Combined(op, x, t) == [t EXCEPT !.val = Binary(op, x, @)]
EvalRight(e, t, P) == Combined(e.op, t.val, Eval(e.r, t, P))

Pushed(vals, t) == [s |-> t, vals |-> Append(vals, t.val)]
EvalArgs(args, s, P) ==
    FoldLeft(LAMBDA a, e : Pushed(a.vals, Eval(e, a.s, P)),
             [s |-> s, vals |-> <<>>], args)

RoutineOf(f, P) == SelectInSeq(P.decls, LAMBDA d : d.k = "routine" /\ d.name = f)

(* The caller goes on with the value the body returned, 0 if it did not.   *)
Returned(t, s, ret) ==
    IF t.mode = "spent" THEN t
    ELSE [t EXCEPT !.loc = s.loc, !.mode = "run",
                   !.val = IF t.mode = "ret" THEN @ ELSE V(ret, 0)]

RunBody(r, s, vals, P) ==
    IF s.fuel = 0 THEN [s EXCEPT !.mode = "spent"]
    ELSE Returned(
           RunList(r.body, [s EXCEPT !.fuel = @ - 1,
                                     !.loc = [p \in {r.params[i].name : i \in DOMAIN r.params} |->
                                                vals[SelectInSeq(r.params, LAMBDA q : q.name = p)]]],
                   P), s, r.ret)

Invoke(r, a, P) ==
    IF a.s.mode # "run" \/ Len(a.vals) # Len(r.params) THEN a.s
    ELSE RunBody(r, a.s, a.vals, P)

Draw(f, s) == [s EXCEPT !.draws = @ + 1, !.val = Drawn(f, s.draws + 1)]

Eval(e, s, P) ==
    IF s.mode # "run" THEN s
    ELSE CASE e.k \in {"none", "set"} -> s
           [] e.k = "lit" -> [s EXCEPT !.val = e.x]
           [] e.k = "var" -> [s EXCEPT !.val = Lookup(e.v, s)]
           [] e.k = "un" -> LET t == Eval(e.e, s, P) IN [t EXCEPT !.val = Unary(e.op, @)]
           [] e.k = "bin" -> EvalRight(e, Eval(e.l, s, P), P)
           [] e.k = "std" -> Draw(e.f, EvalArgs(e.args, s, P).s)
           [] e.k = "call" ->
                IF RoutineOf(e.f, P) = 0 THEN s
                ELSE Invoke(P.decls[RoutineOf(e.f, P)], EvalArgs(e.args, s, P), P)

-----------------------------------------------------------------------------
(* Statements; t is the state after the evaluation of n's expression.      *)
Assigned(v, t) == IF t.mode = "run" THEN Bind(v, t.val, t) ELSE t
Written(t) == IF t.mode = "run" THEN [t EXCEPT !.out = Append(@, t.val)] ELSE t
Left(t) == IF t.mode = "run" THEN [t EXCEPT !.mode = "ret"] ELSE t

(* The first arm whose condition holds runs, else the ELSE branch.         *)
RECURSIVE RunArms(_, _, _, _)
TakeArm(arms, els, t, P) ==
    IF t.mode # "run" THEN t
    ELSE IF Holds(t.val) THEN RunList(Head(arms).b, t, P)
    ELSE RunArms(Tail(arms), els, t, P)
RunArms(arms, els, s, P) ==
    IF arms = <<>> THEN RunList(els, s, P)
    ELSE TakeArm(arms, els, Eval(Head(arms).c, s, P), P)

Turn(n, t, P) == RunList(n.b, [t EXCEPT !.fuel = @ - 1], P)

Again(n, t, P) == IF t.mode = "run" THEN RunStmt(n, t, P) ELSE t
RunWhile(n, t, P) ==
    IF t.mode = "run" /\ Holds(t.val) THEN Again(n, Turn(n, t, P), P) ELSE t

(* One test, turn and step of the counting loop, whose variable is set.    *)
RECURSIVE RunFor(_, _, _)
StepFor(n, t, P) ==
    RunFor(n, Assigned(n.v, Combined("+", Lookup(n.v, t), Eval(StepOf(n), t, P))), P)
RunFor(n, s, P) ==
    IF s.mode # "run" THEN s
    ELSE IF s.fuel = 0 THEN [s EXCEPT !.mode = "spent"]
    ELSE LET t == Eval(n.hi, s, P)
         IN  IF t.mode = "run" /\ Lookup(n.v, t).n <= t.val.n
             THEN StepFor(n, Turn(n, t, P), P)
             ELSE t

RunStmt(n, s, P) ==
    IF s.fuel = 0 THEN [s EXCEPT !.mode = "spent"]
    ELSE CASE n.k = "let" -> Assigned(n.v, Eval(n.e, s, P))
           [] n.k = "write" -> Written(Eval(n.e, s, P))
           [] n.k = "return" -> Left(Eval(n.e, s, P))
           [] n.k = "cond" -> RunArms(n.arms, n.els, s, P)
           [] n.k = "while" -> RunWhile(n, Eval(n.c, s, P), P)
           [] n.k = "for" -> RunFor(n, Assigned(n.v, Eval(n.lo, s, P)), P)
           [] n.k \in {"parallel", "region"} -> RunList(n.b, s, P)
           [] n.k = "sections" -> RunList(FlattenSeq(n.bs), s, P)
           [] n.k \in {"foreach", "new", "other"} -> s

RunList(b, s, P) ==
    IF b = <<>> \/ s.mode # "run" THEN s
    ELSE RunList(Tail(b), RunStmt(Head(b), s, P), P)

Globals(P) ==
    LET gs == {P.globals[i] : i \in DOMAIN P.globals}
    IN  [v \in {g.v : g \in gs} |-> (CHOOSE g \in gs : g.v = v).x]

(* What the program writes when it is given that much fuel.                *)
Meaning(P, fuel) ==
    RunList(P.main, [glob |-> Globals(P), loc |-> <<>>, out |-> <<>>, draws |-> 0,
                     mode |-> "run", val |-> Unset, fuel |-> fuel], P)
=============================================================================
