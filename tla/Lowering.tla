------------------------------ MODULE Lowering ------------------------------
(***************************************************************************)
(* codegen/codegen.cpp with the symbol table: from the AST to basic        *)
(* blocks, and LLVMVerifyModule's verdict on them.  codegen_expression and *)
(* codegen_statement are recursive; here their activations are a stack,    *)
(* and an action is what one of them does between two calls.               *)
(*                                                                         *)
(* The module under construction, g, is a record:                          *)
(*   blocks  the instruction lists, fn the function each block belongs to  *)
(*   slots   the allocas: function f, block b and type t; an instruction   *)
(*           names a slot by its index                                     *)
(*   syms    symbol_table->symbols: name, type and llvm_value (0: NULL);   *)
(*           cap, its capacity; epoch counts the moves of the array        *)
(*   funs    the functions: name, parameter types, result, entry block;    *)
(*           cur the builder's block, f the function being generated       *)
(*   temps   counts the values that instructions compute                   *)
(*   fresh   the alloca that its variable may be read from although the    *)
(*           generator has not stored anything in it yet (0: none)         *)
(*   flaws   what the generator did not do as the program says:            *)
(*             dropped        a statement whose expression came back NULL  *)
(*             unimplemented  a placeholder instead of a statement         *)
(*             address        texts compared by their address              *)
(*             retyped        a cell read with a type that it has not      *)
(*             unset          the fresh alloca read                        *)
(*             stale          a Symbol* read after its array had moved     *)
(* An operand is a literal, the value of an instruction or a parameter.    *)
(***************************************************************************)
EXTENDS Trees

CONSTANTS
    SymbolCapacity,  \* first capacity of the symbol table
    ReallocMoves     \* whether realloc moves the table when it grows

ASSUME LoweringAssumption ==
    SymbolCapacity \in Nat \ {0} /\ ReallocMoves \in BOOLEAN

VARIABLES
    phase,   \* "generating", "aborted", "running" or "halted"
    g,       \* the module
    todo,    \* the activations of the generator, innermost first
    val      \* the operand codegen_expression returned last, None for NULL

-----------------------------------------------------------------------------
(* The symbol table.                                                       *)
SymbolIndex(m, name) == SelectInSeq(m.syms, LAMBDA s : s.name = name)
Declared(m, name) == SymbolIndex(m, name) # 0
TypeIn(m, name) == m.syms[SymbolIndex(m, name)].type

(* The memory of a name, 0 where it has none.                              *)
SlotOf(m, name) == IF Declared(m, name) THEN m.syms[SymbolIndex(m, name)].slot ELSE 0

ExpandTable(m) ==
    IF m.cap = 0 THEN [m EXCEPT !.cap = SymbolCapacity]
    ELSE [m EXCEPT !.cap = 2 * @,
                   !.epoch = IF ReallocMoves THEN @ + 1 ELSE @]

AppendSymbol(m, name, t) ==
    [m EXCEPT !.syms = Append(@, [name |-> name, slot |-> 0, type |-> t])]

(* Entities, events and classes are entries of type void with no value.    *)
SymbolAdd(m, name, t) ==
    IF Declared(m, name) THEN m
    ELSE AppendSymbol(IF Len(m.syms) >= m.cap THEN ExpandTable(m) ELSE m, name, t)

-----------------------------------------------------------------------------
(* The builder.                                                            *)
Terminators == {"br", "condbr", "ret"}

Emitted(m, instr) == [m EXCEPT !.blocks[m.cur] = Append(@, instr)]
Terminated(m) == m.blocks[m.cur] # <<>> /\ Last(m.blocks[m.cur]).op \in Terminators
At(m, block) == [m EXCEPT !.cur = block]
AddBlocks(m, n) ==
    [m EXCEPT !.blocks = @ \o [i \in 1 .. n |-> <<>>],
              !.fn = @ \o [i \in 1 .. n |-> m.f]]

Br(to) == [op |-> "br", to |-> to]
CondBr(c, yes, no) == [op |-> "condbr", c |-> c, yes |-> yes, no |-> no]
Ret(e) == [op |-> "ret", e |-> e]
Store(e, slot) == [op |-> "store", e |-> e, slot |-> slot]

Temp(i, t) == [k |-> "temp", i |-> i, t |-> t]
LLVMParam(i, t) == [k |-> "param", i |-> i, t |-> t]   \* LLVMGetParam
TypeOf(e) == IF e.k = "lit" THEN e.x.t ELSE e.t

Flaw(m, what) == [m EXCEPT !.flaws = @ \union {what}]

(* The instruction that computes the next temporary, and that temporary.   *)
Computed(m, instr) == [Emitted(m, instr) EXCEPT !.temps = @ + 1]
NextTemp(m) == m.temps + 1

ReadFlaws(m, slot, t) ==
    (IF m.slots[slot].t = t THEN {} ELSE {"retyped"})
    \union (IF slot = m.fresh THEN {"unset"} ELSE {})
LoadFrom(m, slot, t) ==
    [Computed(m, [op |-> "load", slot |-> slot, t |-> t, to |-> NextTemp(m)])
        EXCEPT !.flaws = @ \union ReadFlaws(m, slot, t)]

StoreTo(m, e, slot) ==
    [Emitted(m, Store(e, slot)) EXCEPT !.fresh = IF @ = slot THEN 0 ELSE @]

(* Mistake an author of this code could have made: the alloca is moved to  *)
(* the entry block, where it dominates every use, and the store is not.    *)
HoistedSlot(m, name, t) ==
    LET entry == m.funs[m.f].entry
    IN  [m EXCEPT !.blocks[entry] = <<[op |-> "alloca"]>> \o @,
                  !.slots = Append(@, [f |-> m.f, b |-> entry, t |-> t]),
                  !.syms[SymbolIndex(m, name)].slot = Len(m.slots) + 1]

(* A new alloca in the current block, as the value of symbol name.         *)
SetNewSlot(m, name, t) ==
    [Emitted(m, [op |-> "alloca"]) EXCEPT
        !.slots = Append(@, [f |-> m.f, b |-> m.cur, t |-> t]),
        !.syms[SymbolIndex(m, name)].slot = Len(m.slots) + 1,
        !.fresh = Len(m.slots) + 1]

NewVariable(m, name, t) == SetNewSlot(SymbolAdd(m, name, t), name, t)
Variable(m, name, t) == IF Declared(m, name) THEN m ELSE NewVariable(m, name, t)

-----------------------------------------------------------------------------
(* The stack of activations.  An item is a node that is to be generated,   *)
(* or the rest of the code of a case after a call.                         *)
Expr(e) == [k |-> "expr", e |-> e]
Stmt(s) == [k |-> "stmt", s |-> s]

Item == Head(todo)
Above == Tail(todo)
Evaluates(kinds) == Item.k = "expr" /\ Item.e.k \in kinds
Executes(kinds) == Item.k = "stmt" /\ Item.s.k \in kinds

(* codegen_expression returns v; a case goes on with the given items; NULL *)
(* is passed to the LLVM library, which does not check.                    *)
Returns(m, v) == g' = m /\ val' = v /\ todo' = Above /\ UNCHANGED phase
GoesOn(m, items) == g' = m /\ todo' = items \o Above /\ UNCHANGED <<phase, val>>
Crashes == phase' = "aborted" /\ UNCHANGED <<g, todo, val>>

-----------------------------------------------------------------------------
(* codegen_expression.                                                     *)
GenNothing == Evaluates({"none", "set"}) /\ Returns(g, None)
GenLiteral == Evaluates({"lit"}) /\ Returns(g, Item.e)

GenIdentifier ==
    /\ Evaluates({"var"})
    /\ LET slot == SlotOf(g, Item.e.v)
           t == TypeIn(g, Item.e.v)
       IN  \/ ~ Declared(g, Item.e.v) /\ Returns(g, None)
           \/ Declared(g, Item.e.v) /\ (slot = 0 \/ t = "void") /\ Crashes
           \/ /\ Declared(g, Item.e.v) /\ slot # 0 /\ t # "void"
              /\ Returns(LoadFrom(g, slot, t), Temp(NextTemp(g), t))

GenBinary ==
    /\ Evaluates({"bin"})
    /\ GoesOn(g, <<Expr(Item.e.l), [k |-> "right", op |-> Item.e.op, r |-> Item.e.r]>>)
GenRight ==
    /\ Item.k = "right"
    /\ GoesOn(g, <<Expr(Item.r), [k |-> "apply", op |-> Item.op, l |-> val]>>)

(* The types the library takes for an operation.  codegen_expression tells *)
(* REALs from the rest only, so that LLVM meets integer operations on      *)
(* TEXTs, and AND, OR, NOT and minus on REALs.                             *)
OperandTypes(op) ==
    CASE op \in Comparisons -> {"int", "real", "text", "bool"}
      [] op \in Logical -> {"int", "bool"}
      [] OTHER -> {"int", "real", "bool"}
Wholes == {"int", "bool"}

(* The power has no case.  The builder folds operations on literals it has *)
(* a rule for; any other one becomes an instruction.                       *)
Operable(op, l, r) ==
    l # None /\ r # None /\ op # "**" /\ TypeOf(l) = TypeOf(r)
ResultType(op, l) == IF op \in Comparisons THEN "bool" ELSE TypeOf(l)
Operation(m, op, l, r) ==
    Computed(IF TypeOf(l) = "text" THEN Flaw(m, "address") ELSE m,
             [op |-> "op", f |-> op, l |-> l, r |-> r, to |-> NextTemp(m)])
Foldable(op, l, r) == l.k = "lit" /\ r.k = "lit" /\ TypeOf(r) \in OperandTypes(op)

GenApply ==
    /\ Item.k = "apply"
    /\ \/ ~ Operable(Item.op, Item.l, val) /\ Returns(g, None)
       \/ /\ Operable(Item.op, Item.l, val) /\ Foldable(Item.op, Item.l, val)
          /\ Returns(IF TypeOf(val) = "text" THEN Flaw(g, "address") ELSE g,
                     Lit(Binary(Item.op, Item.l.x, val.x)))
       \/ /\ Operable(Item.op, Item.l, val) /\ ~ Foldable(Item.op, Item.l, val)
          /\ Returns(Operation(g, Item.op, Item.l, val),
                     Temp(NextTemp(g), ResultType(Item.op, val)))

GenUnary ==
    /\ Evaluates({"un"})
    /\ GoesOn(g, <<Expr(Item.e.e), [k |-> "unary", op |-> Item.e.op]>>)
GenNegated ==
    /\ Item.k = "unary"
    /\ \/ val = None /\ Returns(g, None)
       \/ /\ val # None /\ val.k = "lit" /\ TypeOf(val) \in Wholes
          /\ Returns(g, Lit(Unary(Item.op, val.x)))
       \/ /\ val # None /\ (val.k # "lit" \/ TypeOf(val) \notin Wholes)
          /\ Returns(Computed(g, [op |-> "unop", f |-> Item.op, e |-> val, to |-> NextTemp(g)]),
                     Temp(NextTemp(g), TypeOf(val)))

(* LLVMGetNamedFunction finds the first function of a name.                *)
FunctionNamed(m, f) == SelectInSeq(m.funs, LAMBDA x : x.name = f)

(* The library's random numbers; RANDOM takes no notice of its arguments.  *)
Signature ==
    [random      |-> [params |-> <<>>, ret |-> "real"],
     uniform     |-> [params |-> <<"int", "int">>, ret |-> "int"],
     normal      |-> [params |-> <<"real", "real">>, ret |-> "real"],
     exponential |-> [params |-> <<"real">>, ret |-> "real"],
     poisson     |-> [params |-> <<"real">>, ret |-> "int"]]

(* The arguments of call e from the i-th on, or what follows the i-th;     *)
(* args are those before it.                                               *)
Args(e, i, args) == [k |-> "args", e |-> e, i |-> i, args |-> args]
Pass(e, i, args) == [k |-> "pass", e |-> e, i |-> i, args |-> args]

GenUserCall ==
    /\ Evaluates({"call"})
    /\ \/ FunctionNamed(g, Item.e.f) = 0 /\ Returns(g, None)
       \/ FunctionNamed(g, Item.e.f) # 0 /\ GoesOn(g, <<Args(Item.e, 1, <<>>)>>)
GenStdCall == Evaluates({"std"}) /\ GoesOn(g, <<Args(Item.e, 1, <<>>)>>)

(* The first argument that comes back NULL ends the evaluation.            *)
GenArgument ==
    /\ Item.k = "args" /\ Item.i <= Len(Item.e.args)
    /\ GoesOn(g, <<Expr(Item.e.args[Item.i]), Pass(Item.e, Item.i, Item.args)>>)
PassArgument ==
    /\ Item.k = "pass"
    /\ \/ val = None /\ Returns(g, None)
       \/ val # None /\ GoesOn(g, <<Args(Item.e, Item.i + 1, Append(Item.args, val))>>)

Calling(op, f, args, t) ==
    Returns(Computed(g, [op |-> op, f |-> f, args |-> args, to |-> NextTemp(g)]),
            Temp(NextTemp(g), t))

GenCall ==
    /\ Item.k = "args" /\ Item.i > Len(Item.e.args)
    /\ LET e == Item.e
           fi == FunctionNamed(g, e.f)
           drawn == IF e.f = "random" THEN <<>> ELSE Item.args
       IN  \/ e.k = "call" /\ Calling("call", fi, Item.args, g.funs[fi].ret)
           \/ /\ e.k = "std" /\ Len(drawn) = Len(Signature[e.f].params)
              /\ Calling("draw", e.f, drawn, Signature[e.f].ret)
           \/ /\ e.k = "std" /\ Len(drawn) # Len(Signature[e.f].params)
              /\ Returns(g, None)

-----------------------------------------------------------------------------
(* codegen_statement: assignments, output, RETURN.                         *)

GenNone == Executes({"none"}) /\ GoesOn(g, <<>>)

GenLet ==
    /\ Executes({"let"})
    /\ GoesOn(g, <<Expr(Item.s.e), [k |-> "assign", v |-> Item.s.v]>>)

(* infer_type_from_llvm_value                                              *)
Inferred(t) == IF t \in {"real", "text"} THEN t ELSE "int"

(* The first LET of a name creates the variable, where it stands.  A store *)
(* to a symbol without an alloca passes NULL to LLVMBuildStore.            *)
Assign ==
    /\ Item.k = "assign"
    /\ LET m == Variable(g, Item.v, Inferred(TypeOf(val)))
       IN  \/ val = None /\ GoesOn(Flaw(g, "dropped"), <<>>)
           \/ val # None /\ SlotOf(m, Item.v) = 0 /\ Crashes
           \/ /\ val # None /\ SlotOf(m, Item.v) # 0
              /\ GoesOn(StoreTo(m, val, SlotOf(m, Item.v)), <<>>)

(* An object: the class is any symbol; the constructor is not called.  The *)
(* variable has type void, so that it cannot be read.                      *)
GenNew ==
    /\ Executes({"new"})
    /\ \/ /\ Declared(g, Item.s.c) /\ ~ Declared(g, Item.s.v)
          /\ GoesOn([SetNewSlot(SymbolAdd(g, Item.s.v, "void"), Item.s.v, "text")
                        EXCEPT !.fresh = 0], <<>>)
       \/ /\ ~ Declared(g, Item.s.c) \/ Declared(g, Item.s.v)
          /\ GoesOn(Flaw(g, "dropped"), <<>>)

GenWrite == Executes({"write"}) /\ GoesOn(g, <<Expr(Item.s.e), [k |-> "print"]>>)
WriteValue ==
    /\ Item.k = "print"
    /\ \/ val = None /\ GoesOn(Flaw(g, "dropped"), <<>>)
       \/ val # None /\ GoesOn(Emitted(g, [op |-> "write", e |-> val]), <<>>)

GenReturn ==
    /\ Executes({"return"})
    /\ \/ Item.s.e = None /\ GoesOn(Emitted(g, Ret(None)), <<>>)
       \/ Item.s.e # None /\ GoesOn(g, <<Expr(Item.s.e), [k |-> "result"]>>)
ReturnValue ==
    /\ Item.k = "result"
    /\ \/ val = None /\ GoesOn(Flaw(g, "dropped"), <<>>)
       \/ val # None /\ GoesOn(Emitted(g, Ret(val)), <<>>)

(* The statements of a list from the i-th on.                              *)
ListFrom(b, i) == [k |-> "list", b |-> b, i |-> i]
GenList == Executes({"list"}) /\ GoesOn(g, <<ListFrom(Item.s.b, 1)>>)
GenListItem ==
    /\ Item.k = "list"
    /\ \/ /\ Item.i <= Len(Item.b)
          /\ GoesOn(g, <<Stmt(Item.b[Item.i]), ListFrom(Item.b, Item.i + 1)>>)
       \/ Item.i > Len(Item.b) /\ GoesOn(g, <<>>)

GenRegion == Executes({"parallel", "region"}) /\ GoesOn(g, <<Stmt(Item.s.b)>>)

Ignorable == {"barrier", "threadprivate"}
GenOther ==
    /\ Executes({"other"})
    /\ \/ Item.s.what \in Ignorable /\ GoesOn(g, <<>>)
       \/ Item.s.what \notin Ignorable /\ GoesOn(Flaw(g, "unimplemented"), <<>>)

-----------------------------------------------------------------------------
(* codegen_statement: branches and loops.  An item with a field at leaves  *)
(* the builder at that block.                                              *)
LeaveItem(to, at) == [k |-> "leave", to |-> to, at |-> at]
CloseItem(to, at) == [k |-> "close", to |-> to, at |-> at]

(* Mistake: a branch is left by a jump although it has returned.           *)
LeaveAlways == Item.k = "leave" /\ GoesOn(At(Emitted(g, Br(Item.to)), Item.at), <<>>)

(* A branch of an IF is left for the merge block unless it has returned; a *)
(* loop body is always left for the next block of the loop.                *)
Leave ==
    /\ Item.k = "leave"
    /\ \/ Terminated(g) /\ GoesOn(At(g, Item.at), <<>>)
       \/ ~ Terminated(g) /\ GoesOn(At(Emitted(g, Br(Item.to)), Item.at), <<>>)
Close == Item.k = "close" /\ GoesOn(At(Emitted(g, Br(Item.to)), Item.at), <<>>)

GenIf ==
    /\ Executes({"if"})
    /\ GoesOn(g, <<Expr(Item.s.c), [k |-> "split", t |-> Item.s.t, e |-> Item.s.e]>>)

(* The blocks of an IF: then, merge and, if there is an ELSE, else.        *)
Split ==
    /\ Item.k = "split"
    /\ LET then == Len(g.blocks) + 1
           merge == then + 1
           else == then + 2
       IN  \/ val = None /\ GoesOn(Flaw(g, "dropped"), <<>>)
           \/ /\ val # None /\ Item.e = None
              /\ GoesOn(At(Emitted(AddBlocks(g, 2), CondBr(val, then, merge)), then),
                        <<Stmt(Item.t), LeaveItem(merge, merge)>>)
           \/ /\ val # None /\ Item.e # None
              /\ GoesOn(At(Emitted(AddBlocks(g, 3), CondBr(val, then, else)), then),
                        <<Stmt(Item.t), LeaveItem(merge, else),
                          Stmt(Item.e), LeaveItem(merge, merge)>>)

(* n new blocks, the first of which is entered.                            *)
Enter(m, n) ==
    At(Emitted(AddBlocks(m, n), Br(Len(m.blocks) + 1)), Len(m.blocks) + 1)

(* The blocks of a WHILE: cond, body and exit.                             *)
GenWhile ==
    /\ Executes({"while"})
    /\ LET cond == Len(g.blocks) + 1
       IN  GoesOn(Enter(g, 3),
                  <<Expr(Item.s.c), [k |-> "test", at |-> cond + 1, exit |-> cond + 2],
                    Stmt(Item.s.b), CloseItem(cond, cond + 2)>>)

(* Without a condition the block of the test is left open.                 *)
Test ==
    /\ Item.k = "test"
    /\ \/ val = None /\ GoesOn(At(Flaw(g, "dropped"), Item.at), <<>>)
       \/ /\ val # None
          /\ GoesOn(At(Emitted(g, CondBr(val, Item.at, Item.exit)), Item.at), <<>>)

(* A FOR.  The loop variable is created if it is new; its loads and stores *)
(* crash where it has no alloca.                                           *)
GenFor ==
    /\ Executes({"for"})
    /\ LET m == Variable(g, Item.s.v, "int")
       IN  \/ SlotOf(m, Item.s.v) = 0 /\ Crashes
           \/ /\ SlotOf(m, Item.s.v) # 0
              /\ GoesOn(m, <<Expr(Item.s.lo), [k |-> "start", v |-> Item.s.v, n |-> Item.s]>>)

(* The blocks are cond, body, incr and exit; the test loads the variable   *)
(* before it generates the upper bound.  The step keeps the epoch of the   *)
(* Symbol* of the loop variable, which dates from before the body.         *)
ForStarted ==
    /\ Item.k = "start"
    /\ LET slot == SlotOf(g, Item.v)
           m == IF val = None THEN Flaw(g, "dropped") ELSE StoreTo(g, val, slot)
           cond == Len(g.blocks) + 1
           i == Temp(NextTemp(g), "int")
       IN  GoesOn(LoadFrom(Enter(m, 4), slot, "int"),
                  <<Expr(Item.n.hi),
                    [k |-> "bound", i |-> i, at |-> cond + 1, exit |-> cond + 3],
                    Stmt(Item.n.b), CloseItem(cond + 2, cond + 2),
                    Expr(StepOf(Item.n)),
                    [k |-> "step", v |-> Item.v, epoch |-> g.epoch, cond |-> cond,
                     at |-> cond + 3]>>)

Compared(m, i, e) ==
    Computed(m, [op |-> "op", f |-> "<=", l |-> i, r |-> e, to |-> NextTemp(m)])
Bound ==
    /\ Item.k = "bound"
    /\ \/ val = None /\ GoesOn(At(Flaw(g, "dropped"), Item.at), <<>>)
       \/ /\ val # None
          /\ GoesOn(At(Emitted(Compared(g, Item.i, val),
                               CondBr(Temp(NextTemp(g), "bool"), Item.at, Item.exit)),
                       Item.at), <<>>)

Advanced(m, slot, e) ==
    LET loaded == LoadFrom(m, slot, "int")
        added == Computed(loaded, [op |-> "op", f |-> "+", l |-> Temp(NextTemp(m), "int"),
                                   r |-> e, to |-> NextTemp(loaded)])
    IN  StoreTo(added, Temp(NextTemp(loaded), "int"), slot)

Step ==
    /\ Item.k = "step"
    /\ LET m == IF g.epoch = Item.epoch THEN g ELSE Flaw(g, "stale")
       IN  \/ val = None /\ Crashes
           \/ /\ val # None
              /\ GoesOn(At(Emitted(Advanced(m, SlotOf(g, Item.v), val), Br(Item.cond)),
                           Item.at), <<>>)

(* FOR EACH is a placeholder: the body once, the variable never assigned.  *)
GenForEach ==
    /\ Executes({"foreach"})
    /\ GoesOn(Variable(Flaw(g, "unimplemented"), Item.s.v, "int"), <<Stmt(Item.s.b)>>)

-----------------------------------------------------------------------------
(* LLVMAddFunction and its entry block.                                    *)
OpenFunction(m, f, params, ret) ==
    LET h == AddBlocks([m EXCEPT !.f = Len(m.funs) + 1], 1)
    IN  [h EXCEPT !.funs = Append(@, [name |-> f, params |-> params, ret |-> ret,
                                      entry |-> Len(h.blocks)]),
                  !.cur = Len(h.blocks)]

(* codegen_generate: the declarations of the preamble from the i-th on.    *)
DeclsFrom(ds, i) == [k |-> "decls", ds |-> ds, i |-> i]
ParamsFrom(ps, i) == [k |-> "params", ps |-> ps, i |-> i]
GenDecl ==
    /\ Item.k = "decls" /\ Item.i <= Len(Item.ds)
    /\ LET d == Item.ds[Item.i]
           others == DeclsFrom(Item.ds, Item.i + 1)
       IN  \/ d.k = "thing" /\ GoesOn(SymbolAdd(g, d.name, "void"), <<others>>)
           \/ /\ d.k = "routine"
              /\ GoesOn(OpenFunction(g, d.name, [i \in DOMAIN d.params |-> d.params[i].t], d.ret),
                        <<ParamsFrom(d.params, 1), Stmt(d.body),
                          [k |-> "end", ret |-> d.ret, f |-> g.f, at |-> g.cur], others>>)
EndDecls == Item.k = "decls" /\ Item.i > Len(Item.ds) /\ GoesOn(g, <<>>)

(* codegen_function.  symbol_table_add refuses a parameter whose name is   *)
(* known; the symbol found instead is redirected to this function and      *)
(* keeps its type.                                                         *)
WithParam(m, p, i) ==
    LET h == NewVariable(m, p.name, p.t)
    IN  StoreTo(h, LLVMParam(i, p.t), SlotOf(h, p.name))
GenParam ==
    /\ Item.k = "params"
    /\ \/ /\ Item.i <= Len(Item.ps)
          /\ GoesOn(WithParam(g, Item.ps[Item.i], Item.i), <<ParamsFrom(Item.ps, Item.i + 1)>>)
       \/ Item.i > Len(Item.ps) /\ GoesOn(g, <<>>)

DefaultReturn(m, ret) ==
    IF Terminated(m) THEN m
    ELSE Emitted(m, Ret(IF ret = "void" THEN None ELSE Lit(V(ret, 0))))
EndRoutine ==
    /\ Item.k = "end"
    /\ GoesOn([At(DefaultReturn(g, Item.ret), Item.at) EXCEPT !.f = Item.f], <<>>)

EndMain == Item.k = "main" /\ GoesOn(Emitted(g, Ret(IntLit(0))), <<>>)

EmptyModule ==
    [blocks |-> <<>>, fn |-> <<>>, slots |-> <<>>, syms |-> <<>>, cap |-> 0, epoch |-> 0,
     cur |-> 0, f |-> 0, funs |-> <<>>, temps |-> 0, fresh |-> 0, flaws |-> {}]

GenerateExpression ==
    \/ GenNothing \/ GenLiteral \/ GenIdentifier \/ GenBinary \/ GenRight \/ GenApply
    \/ GenUnary \/ GenNegated \/ GenUserCall \/ GenStdCall \/ GenArgument
    \/ PassArgument \/ GenCall

GenerateStatement ==
    \/ GenNone \/ GenLet \/ Assign \/ GenNew \/ GenWrite \/ WriteValue \/ GenReturn
    \/ ReturnValue \/ GenList \/ GenListItem \/ GenRegion \/ GenOther
    \/ GenIf \/ Split \/ Leave \/ GenWhile \/ Test \/ Close
    \/ GenFor \/ ForStarted \/ Bound \/ Step \/ GenForEach

GenerateDeclaration == GenDecl \/ EndDecls \/ GenParam \/ EndRoutine \/ EndMain

(* codegen_generate, up to the verification of the module.                 *)
Generate ==
    /\ phase = "generating" /\ todo # <<>>
    /\ GenerateExpression \/ GenerateStatement \/ GenerateDeclaration

-----------------------------------------------------------------------------
(* LLVMVerifyModule (external), as far as this generator can offend it:    *)
(* terminators, types, blocks and allocas of other functions, and allocas  *)
(* whose block does not dominate the block that uses them.  It does not    *)
(* compare the type of a load with that of the alloca.                     *)
WellTerminated(block) ==
    /\ block # <<>>
    /\ \A i \in DOMAIN block : (block[i].op \in Terminators) <=> (i = Len(block))

Targets(i) ==
    CASE i.op = "br" -> {i.to}
      [] i.op = "condbr" -> {i.yes, i.no}
      [] OTHER -> {}
Successors(block) == Targets(Last(block))

(* The blocks that can be reached from the blocks of X in no step or one   *)
(* without entering d, and in any number of steps.                         *)
Onward(blocks, X, d) == X \union ((UNION {Successors(blocks[b]) : b \in X}) \ {d})
Avoiding(blocks, from, d) ==
    LET reach[i \in 0 .. Len(blocks)] ==
            IF i = 0 THEN {from} \ {d} ELSE Onward(blocks, reach[i - 1], d)
    IN  reach[Len(blocks)]

EntryOf(m, b) == m.funs[m.fn[b]].entry
Dominates(m, d, b) == d = b \/ b \notin Avoiding(m.blocks, EntryOf(m, b), d)

TypesOf(args) == [j \in DOMAIN args |-> TypeOf(args[j])]

Fits(m, i, f) ==
    CASE i.op = "store" -> TypeOf(i.e) = m.slots[i.slot].t
      [] i.op = "condbr" -> TypeOf(i.c) = "bool"
      [] i.op = "ret" -> (IF i.e = None THEN "void" ELSE TypeOf(i.e)) = m.funs[f].ret
      [] i.op = "op" -> TypeOf(i.l) = TypeOf(i.r) /\ TypeOf(i.l) \in OperandTypes(i.f)
      [] i.op = "unop" -> TypeOf(i.e) \in Wholes
      [] i.op = "call" -> /\ i.f \in DOMAIN m.funs
                          /\ TypesOf(i.args) = m.funs[i.f].params
                          /\ m.funs[i.f].ret # "void"
      [] i.op = "draw" -> TypesOf(i.args) = Signature[i.f].params
      [] OTHER -> TRUE

Slots(i) == IF i.op \in {"load", "store"} THEN {i.slot} ELSE {}

Verifies(m) ==
    /\ \A b \in DOMAIN m.blocks : WellTerminated(m.blocks[b])
    /\ \A b \in DOMAIN m.blocks : \A n \in DOMAIN m.blocks[b] :
          LET i == m.blocks[b][n]
          IN  /\ Fits(m, i, m.fn[b])
              /\ \A c \in Targets(i) : c \in DOMAIN m.blocks /\ m.fn[c] = m.fn[b]
              /\ \A s \in Slots(i) :
                    m.slots[s].f = m.fn[b] /\ Dominates(m, m.slots[s].b, b)
=============================================================================
