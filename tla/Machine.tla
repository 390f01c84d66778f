------------------------------ MODULE Machine ------------------------------
(***************************************************************************)
(* A program is compiled (Lowering) and, unless LLVMVerifyModule aborts    *)
(* the compiler, run one instruction at a time, as JIT-compiled code or as *)
(* an executable.  Calls push a frame, so that recursion is covered.       *)
(***************************************************************************)
EXTENDS Lowering

CONSTANTS
    Programs,   \* the programs that may be compiled, as the parser left them
    Junk,       \* what memory that was never written may hold
    MaxSteps    \* bound: instructions executed

ASSUME MachineAssumption == MaxSteps \in Nat /\ Junk \subseteq Int /\ Junk # {}

VARIABLES
    program,
    frames,     \* the call stack, innermost first
    out,        \* what the program has written
    draws,      \* the random numbers drawn
    steps

compilerVars == <<phase, g, todo, val>>
machineVars == <<program, compilerVars, frames, out, draws, steps>>

(* codegen_generate: the preamble and the body, within main.               *)
MachineInit ==
    /\ program \in Programs
    /\ phase = "generating"
    /\ g = OpenFunction(EmptyModule, "main", <<>>, "int")
    /\ todo = <<DeclsFrom(program.decls, 1), Stmt(program.main), [k |-> "main"]>>
    /\ val = None
    /\ frames = <<>> /\ out = <<>> /\ draws = 0 /\ steps = 0

Frame(f, args) ==
    [block |-> g.funs[f].entry, pc |-> 1, env |-> <<>>, temps |-> <<>>, args |-> args]

Compile == Generate /\ UNCHANGED <<program, frames, out, draws, steps>>

(* The end of codegen_generate: a bad module aborts the process.           *)
Verify ==
    /\ phase = "generating" /\ todo = <<>>
    /\ IF Verifies(g)
       THEN phase' = "running" /\ frames' = <<Frame(1, <<>>)>>
       ELSE phase' = "aborted" /\ UNCHANGED frames
    /\ UNCHANGED <<program, g, todo, val, out, draws, steps>>

-----------------------------------------------------------------------------
(* The machine (external).  junk is what it reads where nothing of that    *)
(* type was stored.                                                        *)
Read(fr, i, junk) ==
    IF i.slot \in DOMAIN fr.env /\ fr.env[i.slot].t = i.t
    THEN fr.env[i.slot] ELSE V(i.t, junk)

Value(e, fr) ==
    CASE e.k = "lit" -> e.x
      [] e.k = "temp" -> fr.temps[e.i]
      [] e.k = "param" -> fr.args[e.i]

Top == Head(frames)
Callers == Tail(frames)
Instr == g.blocks[Top.block][Top.pc]
Holding(e) == Value(e, Top)
On(fr) == [fr EXCEPT !.pc = @ + 1]
Put(f, k, x) == [j \in DOMAIN f \union {k} |-> IF j = k THEN x ELSE f[j]]
WithStored(fr, slot, x) == [On(fr) EXCEPT !.env = Put(@, slot, x)]
WithResult(fr, x) ==
    [On(fr) EXCEPT !.temps = Put(@, g.blocks[fr.block][fr.pc].to, x)]
Jump(fr, block) == [fr EXCEPT !.block = block, !.pc = 1]

GoesTo(fr) == frames' = <<fr>> \o Callers /\ UNCHANGED phase

ExecAlloca == Instr.op = "alloca" /\ GoesTo(On(Top)) /\ UNCHANGED <<out, draws>>

ExecLoad(junk) ==
    /\ Instr.op = "load"
    /\ GoesTo(WithResult(Top, Read(Top, Instr, junk)))
    /\ UNCHANGED <<out, draws>>

ExecStore ==
    /\ Instr.op = "store"
    /\ GoesTo(WithStored(Top, Instr.slot, Holding(Instr.e)))
    /\ UNCHANGED <<out, draws>>

ExecOperation ==
    /\ \/ Instr.op = "op" /\ GoesTo(WithResult(Top, Binary(Instr.f, Holding(Instr.l), Holding(Instr.r))))
       \/ Instr.op = "unop" /\ GoesTo(WithResult(Top, Unary(Instr.f, Holding(Instr.e))))
    /\ UNCHANGED <<out, draws>>

ExecCall ==
    /\ Instr.op = "call"
    /\ frames' = <<Frame(Instr.f, [j \in DOMAIN Instr.args |-> Holding(Instr.args[j])])>> \o frames
    /\ UNCHANGED <<out, draws, phase>>

ExecDraw ==
    /\ Instr.op = "draw"
    /\ GoesTo(WithResult(Top, Drawn(Instr.f, draws + 1)))
    /\ draws' = draws + 1
    /\ UNCHANGED out

ExecWrite ==
    /\ Instr.op = "write"
    /\ out' = Append(out, Holding(Instr.e))
    /\ GoesTo(On(Top))
    /\ UNCHANGED draws

ExecBranch ==
    /\ \/ Instr.op = "br" /\ GoesTo(Jump(Top, Instr.to))
       \/ /\ Instr.op = "condbr"
          /\ GoesTo(Jump(Top, IF Holds(Holding(Instr.c)) THEN Instr.yes ELSE Instr.no))
    /\ UNCHANGED <<out, draws>>

(* The value goes to the call the caller stands at; main's return halts.   *)
ExecRet ==
    /\ Instr.op = "ret"
    /\ \/ Callers = <<>> /\ phase' = "halted" /\ frames' = <<>>
       \/ /\ Callers # <<>>
          /\ frames' = <<WithResult(Head(Callers), Holding(Instr.e))>> \o Tail(Callers)
          /\ UNCHANGED phase
    /\ UNCHANGED <<out, draws>>

Execute ==
    /\ phase = "running" /\ steps < MaxSteps
    /\ \/ ExecAlloca \/ ExecStore \/ ExecOperation \/ ExecCall \/ ExecDraw
       \/ ExecWrite \/ ExecBranch \/ ExecRet
       \/ \E junk \in Junk : ExecLoad(junk)
    /\ steps' = steps + 1
    /\ UNCHANGED <<program, g, todo, val>>

MachineNext == Compile \/ Verify \/ Execute

MachineSpec == MachineInit /\ [][MachineNext]_machineVars

-----------------------------------------------------------------------------
(* Code that runs reads a variable only where it has been written: neither *)
(* LLVM's verifier nor the generator (its is_initialized flag is set with  *)
(* the alloca) looks at that.                                              *)
ReadsOnlyWhatWasWritten ==
    (phase = "running" /\ g.flaws = {})
        => (Instr.op = "load" => Instr.slot \in DOMAIN Top.env)
=============================================================================
