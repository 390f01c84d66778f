------------------------------ MODULE Compiler ------------------------------
(***************************************************************************)
(* The compiler and the program it has compiled (Machine), compared with   *)
(* the source of that program: which programs are accepted, and what they  *)
(* write.                                                                  *)
(***************************************************************************)
EXTENDS Machine, SourceLang, Parser

VARIABLE meaning    \* history: what the program should write

vars == <<machineVars, meaning>>

(* A call, and a turn of a loop, takes at least two instructions.          *)
Init == MachineInit /\ meaning = Meaning(program.source, MaxSteps \div 2)

Next ==
    \/ Compile /\ UNCHANGED meaning
    \/ Verify /\ UNCHANGED meaning
    \/ Execute /\ UNCHANGED meaning

Spec == Init /\ [][Next]_vars

-----------------------------------------------------------------------------
(* What the compiler should accept, said of the source: a walk over the    *)
(* AST without blocks.  w is a record:                                     *)
(*   things       the entities, events and classes declared so far;        *)
(*                routines: the routines                                   *)
(*   type, cell   what each name of this routine is taken for, and the     *)
(*                type of its memory; a routine begins with the things     *)
(*   vis          the names whose declaration is on every path to here     *)
(*   live         some path leads here; done: after a RETURN               *)
(*   ret          the result of the routine                                *)
(*   bad          the program is to be rejected                            *)

Needs(w, ok) == IF ok THEN w ELSE [w EXCEPT !.bad = TRUE]

(* What may be said of an expression: its type ("null" where no code is    *)
(* generated for it as a whole), whether the code that is generated is     *)
(* right, and whether there is any.                                        *)
Said(t, ok, code) == [t |-> t, ok |-> ok, code |-> code]

Reachable(v, w) == w.live => v \in w.vis

CheckVar(v, w) ==
    IF v \notin DOMAIN w.type THEN Said("null", TRUE, FALSE)
    ELSE Said(w.type[v], w.type[v] # "void" /\ Reachable(v, w), TRUE)

CheckBin(op, l, r) ==
    IF l.t = "null" \/ l.t # r.t \/ op = "**"
    THEN Said("null", l.ok /\ r.ok, l.code \/ r.code)
    ELSE Said(IF op \in Comparisons THEN "bool" ELSE l.t,
              l.ok /\ r.ok /\ l.t \in OperandTypes(op), l.code \/ r.code)

CheckUn(r) == [r EXCEPT !.ok = @ /\ r.t \in {"null"} \union Wholes]

(* rs: what may be said of the arguments, up to the first without value.   *)
Types(rs) == [i \in DOMAIN rs |-> rs[i].t]
CheckCall(sig, rs) ==
    LET all == \A i \in DOMAIN rs : rs[i].ok
    IN  IF rs # <<>> /\ Last(rs).t = "null"
        THEN Said("null", all, \E i \in DOMAIN rs : rs[i].code)
        ELSE Said(sig.ret, all /\ Types(rs) = sig.params /\ sig.ret # "void", TRUE)

CheckStd(f, rs) ==
    IF f = "random" THEN [CheckCall(Signature[f], rs) EXCEPT !.ok = \A i \in DOMAIN rs : rs[i].ok]
    ELSE IF Len(rs) = Len(Signature[f].params) THEN CheckCall(Signature[f], rs)
    ELSE Said("null", \A i \in DOMAIN rs : rs[i].ok, \E i \in DOMAIN rs : rs[i].code)

UpToNull(rs) ==
    LET null == SelectInSeq(rs, LAMBDA r : r.t = "null")
    IN  IF null = 0 THEN rs ELSE SubSeq(rs, 1, null)

RECURSIVE Check(_, _)
CheckAll(es, w) == UpToNull([i \in DOMAIN es |-> Check(es[i], w)])
Check(e, w) ==
    CASE e.k \in {"none", "set"} -> Said("null", TRUE, FALSE)
      [] e.k = "lit" -> Said(e.x.t, TRUE, FALSE)
      [] e.k = "var" -> CheckVar(e.v, w)
      [] e.k = "bin" -> CheckBin(e.op, Check(e.l, w), Check(e.r, w))
      [] e.k = "un" -> CheckUn(Check(e.e, w))
      [] e.k = "std" -> CheckStd(e.f, CheckAll(e.args, w))
      [] e.k = "call" -> IF e.f \notin DOMAIN w.routines THEN Said("null", TRUE, FALSE)
                         ELSE CheckCall(w.routines[e.f], CheckAll(e.args, w))

-----------------------------------------------------------------------------
(* Statements.  r is what may be said of the statement's expression.       *)

(* Nothing that is generated may follow a RETURN in its block.             *)
Follows(w) == Needs(w, ~ w.done)
After(r, w) == Needs(w, r.ok /\ ~ (r.code /\ w.done))

(* w goes on with a variable of that type if the name is new.              *)
Declare(w, v, t) ==
    IF v \in DOMAIN w.type THEN w
    ELSE [Follows(w) EXCEPT !.cell = (v :> t) @@ @, !.type = (v :> t) @@ @,
                            !.vis = @ \union {v}]

MayStore(w, v, t) ==
    Needs(Follows(w), v \in DOMAIN w.cell /\ w.cell[v] = t /\ Reachable(v, w))

WalkLet(v, r, w) ==
    IF r.t = "null" THEN After(r, w)
    ELSE MayStore(Declare(After(r, w), v, IF r.t = "bool" THEN "int" ELSE r.t), v, r.t)

WalkNew(n, w) ==
    IF n.c \notin DOMAIN w.type \/ n.v \in DOMAIN w.type THEN w
    ELSE [Declare(w, n.v, "text") EXCEPT !.type[n.v] = "void"]

WalkWrite(r, w) == IF r.t = "null" THEN After(r, w) ELSE Follows(After(r, w))

Leaves(t, w) == [Needs(Follows(w), t = w.ret) EXCEPT !.done = TRUE]
WalkReturn(n, r, w) ==
    IF n.e = None THEN Leaves("void", w)
    ELSE IF r.t = "null" THEN After(r, w)
    ELSE Leaves(r.t, After(r, w))

RECURSIVE Walk(_, _)

Branch(n, w) ==
    LET t == Walk(n, [w EXCEPT !.done = FALSE])
    IN  [t EXCEPT !.live = @ /\ ~ t.done, !.done = FALSE]

(* After an IF a name is visible if it is on every branch that goes on.    *)
WalkIf(n, r, w) ==
    LET u == Needs(Follows(After(r, w)), r.t = "bool")
        t == Branch(n.t, u)
        start == [t EXCEPT !.vis = u.vis, !.live = u.live]
        e == IF n.e = None THEN start ELSE Branch(n.e, start)
    IN  IF r.t = "null" THEN After(r, w)
        ELSE [e EXCEPT !.live = t.live \/ e.live,
                       !.vis = IF ~ t.live THEN e.vis
                               ELSE IF ~ e.live THEN t.vis
                               ELSE t.vis \intersect e.vis]

WalkLoopBody(n, w) ==
    LET b == Walk(n, [w EXCEPT !.done = FALSE])
    IN  Needs([b EXCEPT !.done = FALSE], ~ b.done)

Condition(e, t, w) == LET r == Check(e, w) IN Needs(After(r, w), r.t = t)

WalkWhile(n, w) ==
    LET u == Condition(n.c, "bool", [Follows(w) EXCEPT !.done = FALSE])
    IN  [WalkLoopBody(n.b, u) EXCEPT !.vis = u.vis, !.live = u.live]

(* A FOR counts in a variable of type INT of its own routine.              *)
WalkForStart(v, r, w) == IF r.t = "null" THEN After(r, w) ELSE MayStore(After(r, w), v, r.t)
WalkFor(n, w) ==
    LET d == MayStore(Declare(w, n.v, "int"), n.v, "int")
        u == Condition(n.hi, "int", [WalkForStart(n.v, Check(n.lo, d), d) EXCEPT !.done = FALSE])
        b == Condition(StepOf(n), "int", WalkLoopBody(n.b, u))
    IN  [b EXCEPT !.vis = u.vis, !.live = u.live]

Walk(n, w) ==
    CASE n.k = "list" -> FoldLeft(LAMBDA x, s : Walk(s, x), w, n.b)
      [] n.k = "let" -> WalkLet(n.v, Check(n.e, w), w)
      [] n.k = "new" -> WalkNew(n, w)
      [] n.k = "write" -> WalkWrite(Check(n.e, w), w)
      [] n.k = "return" -> WalkReturn(n, Check(n.e, w), w)
      [] n.k = "if" -> WalkIf(n, Check(n.c, w), w)
      [] n.k = "while" -> WalkWhile(n, w)
      [] n.k = "for" -> WalkFor(n, w)
      [] n.k = "foreach" -> Walk(n.b, Declare(w, n.v, "int"))
      [] n.k \in {"parallel", "region"} -> Walk(n.b, w)
      [] OTHER -> w

(* A parameter called like a thing is not taken for a variable.            *)
WalkParam(w, p) ==
    [w EXCEPT !.cell = (p.name :> p.t) @@ @, !.type = @ @@ (p.name :> p.t),
              !.vis = @ \union {p.name}]

(* Variables and parameters are local (docs/syntax.md:271, 273).           *)
Enters(w, ret) ==
    [w EXCEPT !.type = [v \in w.things |-> "void"], !.cell = <<>>,
              !.ret = ret, !.vis = {}, !.live = TRUE, !.done = FALSE]

WalkDecl(w, d) ==
    IF d.k = "thing" THEN [w EXCEPT !.things = @ \union {d.name}]
    ELSE LET sig == [params |-> [j \in DOMAIN d.params |-> d.params[j].t], ret |-> d.ret]
             in == Enters([w EXCEPT !.routines = @ @@ (d.name :> sig)], d.ret)
         IN  Walk(d.body, FoldLeft(WalkParam, in, d.params))

WellFormed(P) ==
    LET w0 == [things |-> {}, routines |-> "main" :> [params |-> <<>>, ret |-> "int"],
               type |-> <<>>, cell |-> <<>>, vis |-> {}, live |-> TRUE, done |-> FALSE,
               ret |-> "int", bad |-> FALSE]
        w1 == Walk(P.main, Enters(FoldLeft(WalkDecl, w0, P.decls), "int"))
    IN  ~ w1.bad /\ ~ w1.done

-----------------------------------------------------------------------------
(* The names in a piece of text, and the programs of which no two routines *)
(* (the body of the program is one) use the same.                          *)
OwnNames(n) ==
    CASE n.k \in {"var", "let", "for", "foreach"} -> {n.v}
      [] n.k = "new" -> {n.v, n.c}
      [] OTHER -> {}

(* The parts of a node that are nodes, and those that are lists of nodes.  *)
PartsOf(n) ==
    CASE n.k \in {"let", "write", "return", "un"} -> {"e"}
      [] n.k = "bin" -> {"l", "r"}
      [] n.k = "if" -> {"c", "t", "e"}
      [] n.k = "while" -> {"c", "b"}
      [] n.k = "for" -> {"lo", "hi", "step", "b"}
      [] n.k \in {"foreach", "parallel", "region"} -> {"b"}
      [] OTHER -> {}
ListsOf(n) ==
    CASE n.k = "list" -> {"b"} [] n.k \in {"call", "std"} -> {"args"} [] OTHER -> {}

RECURSIVE NamesIn(_)
NamesIn(n) ==
    OwnNames(n)
    \union (UNION {NamesIn(n[p]) : p \in PartsOf(n)})
    \union (UNION {UNION {NamesIn(n[p][i]) : i \in DOMAIN n[p]} : p \in ListsOf(n)})

NamesOf(d) ==
    IF d.k = "thing" THEN {}
    ELSE NamesIn(d.body) \union {d.params[i].name : i \in DOMAIN d.params}

NamesApart(P) ==
    /\ \A i \in DOMAIN P.decls : NamesOf(P.decls[i]) \intersect NamesIn(P.main) = {}
    /\ \A i, j \in DOMAIN P.decls :
          i # j => NamesOf(P.decls[i]) \intersect NamesOf(P.decls[j]) = {}

-----------------------------------------------------------------------------
(* The compiler gets past LLVMVerifyModule exactly for the programs whose  *)
(* every variable is first assigned, in the text, at a place that lies on  *)
(* every path to all its other uses, in which nothing follows a RETURN and *)
(* what is stored, computed with, compared, passed and returned has the    *)
(* type it meets: the branches codegen_statement builds have the dominance *)
(* the program text has, and codegen_expression emits no operation that    *)
(* its own type check should have refused.  Said of programs of which no   *)
(* two routines use the same name: the code keeps one table of symbols for *)
(* all routines (codegen.cpp:1307) where the language has a scope for each.*)
AcceptedIffWellFormed ==
    (phase # "generating" /\ "stale" \notin g.flaws /\ NamesApart(program))
        => (phase # "aborted" <=> WellFormed(program))

(* A module that was generated without a flaw writes what the program      *)
(* means, at every moment and when it halts: IF/ELSEIF chains, loops,      *)
(* RETURNs in branches, arguments, random numbers and recursion included.  *)
WritesWhatItMeans ==
    (phase \in {"running", "halted"} /\ g.flaws = {})
        => /\ IsPrefix(out, meaning.out)
           /\ phase = "halted" => out = meaning.out /\ meaning.mode # "spent"

-----------------------------------------------------------------------------
(* A program that halts has written what its source means, whatever the    *)
(* generator dropped on the way: FEATURES.md:27, conditional branches with *)
(* IF/ELSEIF/ELSE.                                                         *)
RunsAsDocumented == phase = "halted" => out = meaning.out
=============================================================================
