----------------------------- MODULE MCCompiler -----------------------------
(* Small sets of programs for Compiler.                                    *)
EXTENDS Compiler

x == Var("x")
y == Var("y")
I(n) == IntLit(n)
Plus(a, b) == Bin("+", a, b)
Inc(v) == Let(v, Plus(Var(v), I(1)))
Lt(v, n) == Bin("<", Var(v), I(n))
Main(b) == Program(<<>>, <<>>, b)

-----------------------------------------------------------------------------
(* Control flow and declarations: two statements, the first nested.        *)
Simple == {Let("x", I(2)), Let("y", x), Inc("x"), Write(y), Return(x)}
Body == {<<s>> : s \in Simple}
        \union {<<s, Inc("x")>> : s \in Simple \ {Inc("x")}}
Nested ==
    {Cond(<<Arm(Lt("x", 1), a)>>, e) : a \in Body, e \in Body \union {<<>>}}
    \union {Cond(<<Arm(Lt("x", 0), a), Arm(Lt("x", 1), b)>>, <<>>) :
               a \in Body, b \in {<<s>> : s \in Simple}}
    \union {While(Lt("x", 2), b) : b \in Body}
    \union {For(v, I(0), hi, step, b) :
               v \in {"x", "i"}, hi \in {I(1), x}, step \in {None, y}, b \in Body}

FlowPrograms ==
    {Main(pre \o <<n, s>>) :
        pre \in {<<>>, <<Let("x", I(0))>>, <<Let("x", I(0)), Let("y", I(1))>>,
                 <<Let("x", I(1)), Let("y", I(0))>>},
        n \in Nested, s \in Simple}

(* Each arm of a chain with three ELSEIFs is taken, and none.              *)
ArmPrograms ==
    {Main(<<Let("x", I(a)), Let("y", I(1)),
            Cond(<<Arm(Lt("x", 0), <<s>>), Arm(Lt("x", 1), <<Inc("y")>>),
                   Arm(Lt("x", 2), <<s>>), Arm(Lt("x", 3), <<t>>)>>, <<>>),
            Write(y), Write(x)>>) :
        a \in {-1, 0, 1, 2, 3}, s \in Simple, t \in Simple}

(* Nesting of depth two, and the regions that are generated in place.      *)
Inner ==
    {Cond(<<Arm(Lt("x", 1), <<s>>)>>, e) :
        s \in Simple, e \in {<<>>} \union {<<t>> : t \in Simple}}
    \union {While(Lt("x", 2), <<s, Inc("x")>>) : s \in Simple \ {Inc("x")}}
    \union {For("i", I(0), x, I(1), <<s>>) : s \in Simple \ {Inc("x")}}
    \union {Region(<<s>>) : s \in Simple}

DeepPrograms ==
    UNION {{Main(<<Let("x", I(0)), Let(v, I(1)), n, Write(y)>>) :
              n \in {Cond(<<Arm(Lt("x", 1), <<m, s>>)>>, <<Let("y", x)>>),
                     Cond(<<Arm(Lt("x", 0), <<s>>), Arm(Lt("x", 1), <<m>>)>>, <<>>),
                     While(Lt("x", 2), <<s, m, Inc("x")>>),
                     For("j", I(0), I(1), I(1), <<m, s>>),
                     Parallel(<<m, s>>)}} :
           m \in Inner, s \in Simple, v \in {"y", "i"}}

-----------------------------------------------------------------------------
(* Routines: a recursive one, and one that calls it, with several bodies.  *)
Fact(b) == Routine("f", <<Param("n", "int")>>, "int",
    <<Cond(<<Arm(Lt("n", 1), b)>>, <<>>),
      Let("m", Call("f", <<Bin("-", Var("n"), I(1))>>)),
      Return(Plus(Var("n"), Var("m")))>>)
Outer(p, b) == Routine("h", <<Param(p, "int")>>, "int",
    <<Let("k", Call("f", <<Var(p)>>))>> \o b)

CallPrograms ==
    {Program(<<>>, <<Fact(b), Outer(p, c)>>,
             <<Let(v, I(a)), Let("z", Call(f, <<Var(v)>>)), Write(Var("z")),
               Write(Var(v))>>) :
        b \in {<<Return(I(1))>>, <<Write(Var("n")), Return(I(1))>>,
               <<Let("n", I(1)), Return(Var("n"))>>},
        p \in {"n", "p"},
        c \in {<<Return(Var("k"))>>, <<Write(Var("k"))>>, <<Let("m", I(3))>>,
               <<Let("n", I(3)), Return(Var("n"))>>},
        v \in {"x", "k", "p"}, f \in {"f", "h"}, a \in 0 .. 2}

(* Two parameters, nested calls with random arguments, written on the way. *)
Sub(p, q, ret, b) == Routine("d", <<Param(p, "int"), Param(q, "int")>>, ret, b)
D(a, b) == Call("d", <<a, b>>)
NestedCallPrograms ==
    {Program(<<>>, <<Sub("p", q, "int", <<Write(Var("p")), Return(Bin(op, Var("p"), Var(q)))>>)>>,
             <<Let("x", D(a, b)), Write(Plus(D(x, a), x)), Write(D(x, D(I(1), b)))>>) :
        q \in {"q", "x"}, op \in {"-", "*"},
        a \in {I(3), Std("uniform", <<I(1), I(6)>>), y},
        b \in {I(4), Std("uniform", <<I(1), D(I(2), I(3))>>), Std("random", <<>>)}}

-----------------------------------------------------------------------------
(* Types: one statement of every kind over operands of every type, and in  *)
(* a routine with parameters and a result of every type.                   *)
Types3 == {"int", "real", "text"}
Atom(t) == Lit(V(t, 1))
Operand == {Atom(t) : t \in Types3}
           \union {Un(op, Atom(t)) : op \in {"-", "NOT"}, t \in Types3}
           \union {Un("NOT", Bin("<", I(1), I(2))), SetExpr}
           \union {Var("a"), Bin("<", Var("a"), I(2)), Un("NOT", Var("a")), Un("-", Var("a")),
                   Std("uniform", <<I(1), I(2)>>), Std("poisson", <<RealLit(1)>>),
                   Std("normal", <<RealLit(0), Var("a")>>), Std("exponential", <<Var("a")>>),
                   Std("random", <<I(7)>>), Std("uniform", <<I(1)>>)}
Mixed(op) == {Bin(op, Var("a"), r) : r \in Operand}

(* Literals only, of equal and unequal types, and their results as operands.*)
Literals(op) ==
    {Bin(op, Atom(s), Atom(t)) : s \in Types3, t \in Types3}
    \union {Bin(op, Un("-", Atom(t)), Atom(t)) : t \in Types3}
    \union {Bin(op, Bin("<", Atom(t), Atom(t)), Bin("<>", I(1), I(2))) : t \in Types3}
AllOperators == {"+", "-", "*", "/", "**"} \union Comparisons \union Logical

TypePrograms ==
    {Main(<<Let("a", Atom(t)), s>>) :
        t \in Types3,
        s \in UNION {{Let("a", e), Let("c", e), Return(e), Write(e),
                      Cond(<<Arm(e, <<Write(Var("a"))>>)>>, <<Write(I(0))>>),
                      For("a", e, I(2), I(1), <<Write(Var("a"))>>),
                      For("c", I(1), e, I(1), <<Write(Var("c"))>>),
                      For("c", I(1), I(2), e, <<Write(Var("c"))>>),
                      For("c", Plus(Var("c"), e), I(2), I(1), <<Write(Var("c"))>>)} : e \in Operand}
              \union {Let("c", Plus(Var("c"), Var("a")))}
              \union {Write(e) : e \in UNION {Mixed(op) : op \in {"+", "*", "/", "<>", "AND"}}}}
    \union {Main(<<Let("a", e), Write(Var("a"))>>) :
               e \in UNION {Literals(op) : op \in AllOperators}}

SignaturePrograms ==
    {Program(<<>>, <<Routine("r", <<Param(p, t)>>, ret, <<Return(v)>>)>>,
             <<Let("a", Call("r", <<arg>>)), Write(Var("a"))>>) :
        p \in {"p", "a"}, t \in Types3, ret \in Types3 \union {"void"},
        v \in {Var("p"), I(1), RealLit(1), None}, arg \in {Atom(s) : s \in Types3}}
    \union
    {Program(<<>>, <<Routine("r", params, ret, <<Write(I(1))>>)>> \o more,
             <<Let("a", Call("r", args)), Write(Var("a"))>>) :
        params \in {<<>>, <<Param("p", "int"), Param("p", "real")>>},
        ret \in Types3 \union {"void"},
        more \in {<<>>, <<Routine("r", <<>>, "real", <<Return(RealLit(2))>>)>>},
        args \in {<<>>, <<I(1), RealLit(2)>>, <<I(1), I(2)>>}}

(* Names: of a global, an entity, an object, a loop variable or a          *)
(* parameter of two routines, used before, in and after other places.      *)
NameDecls ==
    {<<>>, <<Thing("a")>>, <<Thing("k")>>, <<Thing("k"), Thing("k")>>,
     <<Routine("r", <<Param("a", "int")>>, "int", <<Return(Var("a"))>>)>>,
     <<Routine("r", <<Param("a", "real")>>, "int", <<Let("b", I(2)), Return(I(1))>>)>>,
     <<Routine("r", <<Param("a", "int")>>, "int", <<Return(Var("a"))>>),
       Routine("s", <<Param("a", "real")>>, "real", <<Return(Var("a"))>>)>>,
     <<Routine("r", <<Param("a", "int")>>, "int", <<Return(Call("s", <<Var("a")>>))>>),
       Routine("s", <<Param("b", "int")>>, "int", <<Return(Plus(Var("b"), I(1)))>>)>>}
NameUse ==
    {Let("a", I(1)), Let("b", Var("a")), Write(Var("a")), New("a", "k"), New("b", "a"),
     Write(Call("r", <<I(5)>>)), Write(Call("s", <<RealLit(5)>>)), Return(None),
     For("a", I(1), I(2), None, <<Write(Var("a"))>>), Other("barrier"), Other("schedule"),
     ForEach("a", <<Write(Var("b"))>>), ForEach("b", <<Let("a", RealLit(3))>>),
     Sections(<<<<Let("a", I(2)), Write(Var("a"))>>, <<Inc("a")>>>>)}
NamePrograms ==
    {Program(gl, ds, <<s, t, Write(I(9))>>) :
        gl \in {<<>>, <<Global("a", V("int", 4))>>}, ds \in NameDecls,
        s \in NameUse, t \in NameUse}

(* A table of symbols that grows inside the body of a FOR.                 *)
GrowPrograms ==
    {Main([i \in 1 .. n |-> Let(<<"a", "b", "c", "d", "e", "f", "h", "x">>[i], I(i))]
            \o <<For("i", I(1), I(2), None, <<Let("y", I(n)), Write(y)>>)>>) : n \in 5 .. 8}

MCSources ==
    FlowPrograms \union ArmPrograms \union DeepPrograms \union CallPrograms
    \union NestedCallPrograms \union TypePrograms \union SignaturePrograms
    \union NamePrograms \union GrowPrograms
MCPrograms == {ParseProgram(P) : P \in MCSources}

-----------------------------------------------------------------------------
(* Every variable is assigned first; ELSE may follow ELSEIF.               *)
ChainSources ==
    {Main(<<Let("x", I(a)), Let("y", I(0)),
            Cond(<<Arm(Lt("x", 0), <<s>>), Arm(Lt("x", 1), <<Inc("y")>>)>>, e),
            Write(y)>>) :
        a \in 0 .. 1, s \in Simple, e \in {<<Let("y", I(7))>>, <<>>}}
ChainPrograms == {ParseProgram(P) : P \in ChainSources}
=============================================================================
