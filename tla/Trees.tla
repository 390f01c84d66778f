------------------------------- MODULE Trees -------------------------------
(***************************************************************************)
(* The trees a SimScript program is made of, restricted to INT, REAL and   *)
(* TEXT values and output to the screen: expressions, statements and       *)
(* declarations in surface form, the values they compute with and the      *)
(* operations on those.                                                    *)
(***************************************************************************)
EXTENDS Integers, SequencesExt, FiniteSetsExt, TLC

CONSTANT Width   \* bits of an INT, 32 in the language

ASSUME WidthAssumption == Width \in Nat \ {0}

(* A typed value.  REALs are whole numbers of a type of their own, a TEXT  *)
(* is a number that names it (0: no text), truth values are 0 and 1.       *)
V(t, n) == [t |-> t, n |-> n]
Truth(b) == V("bool", IF b THEN 1 ELSE 0)
Holds(x) == x.n = 1

(* A branch, condition or expression that is not there (NULL).             *)
None == [k |-> "none"]

Lit(x)   == [k |-> "lit", x |-> x]
IntLit(n) == Lit(V("int", n))
RealLit(n) == Lit(V("real", n))
TextLit(n) == Lit(V("text", n))
Var(v)   == [k |-> "var", v |-> v]
Bin(op, l, r) == [k |-> "bin", op |-> op, l |-> l, r |-> r]
Un(op, e)     == [k |-> "un", op |-> op, e |-> e]
Call(f, args) == [k |-> "call", f |-> f, args |-> args]
Std(f, args)  == [k |-> "std", f |-> f, args |-> args]   \* RANDOM, UNIFORM, ...
SetExpr == [k |-> "set"]                       \* {1, 2}, UNION, ...

Let(v, e)   == [k |-> "let", v |-> v, e |-> e]
New(v, c)   == [k |-> "new", v |-> v, c |-> c]
Write(e)    == [k |-> "write", e |-> e]
Return(e)   == [k |-> "return", e |-> e]       \* None where there is no value
While(c, b) == [k |-> "while", c |-> c, b |-> b]
For(v, lo, hi, step, b) ==
    [k |-> "for", v |-> v, lo |-> lo, hi |-> hi, step |-> step, b |-> b]
StepOf(n) == IF n.step = None THEN IntLit(1) ELSE n.step
ForEach(v, b) == [k |-> "foreach", v |-> v, b |-> b]
Parallel(b) == [k |-> "parallel", b |-> b]
Sections(bs) == [k |-> "sections", bs |-> bs]
Region(b)   == [k |-> "region", b |-> b]   \* CRITICAL, MASTER, SINGLE
(* BARRIER and THREADPRIVATE, which sequential code may ignore, and the    *)
(* statements that work outside the screen: files, events, methods.        *)
Other(what) == [k |-> "other", what |-> what]
(* IF arms[1].c THEN arms[1].b ELSEIF arms[2].c ... ELSE els ALWAYS;       *)
(* <<>> where there is no ELSE (a statement list is never empty).          *)
Arm(c, b)     == [c |-> c, b |-> b]
Cond(arms, els) == [k |-> "cond", arms |-> arms, els |-> els]

Program(globals, decls, main) ==
    [globals |-> globals, decls |-> decls, main |-> main]
Global(v, x)     == [v |-> v, x |-> x]            \* DEFINE v AS ... = x
Param(p, t)      == [name |-> p, t |-> t]
Routine(f, params, ret, b) ==
    [k |-> "routine", name |-> f, params |-> params, ret |-> ret, body |-> b]
Thing(name) == [k |-> "thing", name |-> name]     \* ENTITY, EVENT or CLASS

-----------------------------------------------------------------------------
(* Operations on values, for equal types.                                  *)
Comparisons == {"<", ">", "<=", ">=", "<>"}
Logical == {"AND", "OR"}

Wrap(n) == ((n + 2 ^ (Width - 1)) % (2 ^ Width)) - 2 ^ (Width - 1)
InType(t, n) == V(t, CASE t = "int" -> Wrap(n) [] t = "bool" -> n % 2 [] OTHER -> n)
(* The bits of a word in two's complement, as a set.                       *)
Bits(n) == {i \in 0 .. Width - 1 : (n \div 2 ^ i) % 2 = 1}
FromBits(B) == MapThenSumSet(LAMBDA i : 2 ^ i, B)
Signed(x) == IF x.t = "bool" THEN - x.n ELSE x.n
Magnitude(n) == IF n < 0 THEN - n ELSE n
Quotient(m, d) ==
    IF d = 0 THEN 0
    ELSE LET q == Magnitude(m) \div Magnitude(d) IN IF (m < 0) = (d < 0) THEN q ELSE - q

Binary(op, x, y) ==
    CASE op = "+" -> InType(x.t, x.n + y.n)
      [] op = "-" -> InType(x.t, x.n - y.n)
      [] op = "*" -> InType(x.t, x.n * y.n)
      [] op = "/" -> InType(x.t, Quotient(x.n, y.n))
      [] op = "**" -> InType(x.t, x.n ^ y.n)
      [] op = "<" -> Truth(Signed(x) < Signed(y))
      [] op = ">" -> Truth(Signed(x) > Signed(y))
      [] op = "<=" -> Truth(Signed(x) <= Signed(y))
      [] op = ">=" -> Truth(Signed(x) >= Signed(y))
      [] op = "<>" -> Truth(x.n # y.n)
      [] op = "AND" -> InType(x.t, FromBits(Bits(x.n) \intersect Bits(y.n)))
      [] op = "OR" -> InType(x.t, FromBits(Bits(x.n) \union Bits(y.n)))

Unary(op, x) ==
    IF op = "NOT" THEN InType(x.t, -1 - x.n) ELSE InType(x.t, - x.n)

(* The n-th random number of a run, whatever the distribution.             *)
Drawn(f, n) == V(IF f \in {"uniform", "poisson"} THEN "int" ELSE "real", n)
=============================================================================
