# TLA+ development for the SimScript compiler

SimScript is a small language for discrete-event simulation. The repository
holds its compiler (flex/bison front end, LLVM code generator, JIT execution
with an interactive debugger) and a C library for simulations (event loop,
queues, sets, resources, random numbers, statistics). This directory models the
parts whose correctness depends on sequences of calls, on re-entrance, on
shared state, on failures or on boundaries of numbers, checks them with TLC on
small instances and proves what matters most for all instances with TLAPS.

Paths such as `codegen.cpp:877` are relative to their directory under
`src/src/`.

## 1. The system

### Components, their state and operations

| Component | Code | State | Operations |
|---|---|---|---|
| time simulation | `stdlib/time_simulation/time_simulation.c` | linked event list, clock, statistics, `running`/`paused`; file-level `global_sim_time`, `next_event_id` | create, destroy, schedule, cancel, advance, delay, run, step, pause, resume |
| queue | `stdlib/data_structures/queue.c` | ring buffer `elements`, `front`, `rear`, `count`, `capacity` | enqueue (grows), dequeue, peek, get_at, clear, destroy |
| set | `stdlib/data_structures/set.c` | growing array of pointers, compare function, destructor | add, remove, contains, clear, destroy, union, intersection, difference, subset, equality |
| resource | `stdlib/data_structures/resource.c` | `available_units`, `busy_units` | request, release, reset |
| statistics | `stdlib/math/statistics.c` | moving window with running sums; else none | window: create, add, mean, variance, destroy; functions of arrays |
| random numbers | `stdlib/math/random.c` | generator state | one sampler per distribution |
| debugger | `debug/debug.c`, `debug/debug_runtime.c` | breakpoint list, debugger state, current position | set/remove/enable breakpoint, hook, commands |
| call trace | `debug/debug.c` used by `codegen/codegen.cpp` | indentation, one start time | log call/return, start/end timing |
| parser, AST | `frontend/parser.y`, `frontend/ast.c` | the tree | node constructors, ELSEIF chaining, list copying |
| symbol table | `frontend/symbol_table.c` | one growing array of symbols | add, lookup, set value |
| code generator | `codegen/codegen.cpp` | LLVM module, builder position, symbol table | one case per statement and expression, functions, module |
| driver, object emission | `main.cpp`, `codegen.cpp:1410-1509` | files in the working directory | parse, generate, JIT or emit, link, clean up |
| lexer | `frontend/lexer.l` | column counter | tokens |
| execution graph | `debug/graph.c` | node and edge list | Graphviz output |

### How they interact

`main` parses a file into one AST, creates an optional `DebugContext`, sets the
breakpoints of the command line, and hands both to the code generator, which
fills one LLVM module and one symbol table and writes the call trace into the
context. The module is verified (a failure aborts the process) and then either
run by the JIT, in which case the generated code calls back
`simscript_debug_hook` with the same context, or written to `temp_simscript.o`
and linked with `gcc`. The simulation library is linked by C programs:
`simulator_run` calls `simulator_step`, which calls an event's handler, which
may call any operation of the simulator again. Generated code calls the random
number library (UNIFORM, NORMAL and so on); it does not call the simulation,
queue, set or resource modules at this commit (the SCHEDULE family of statements
only prints a message), so those are modelled with an arbitrary legal caller.

### What is hard, and what makes each part correct

* Simulator: a handler schedules, cancels, steps or runs while `simulator_step`
  and `simulator_run` are on the stack; two copies of the time; `running` shared
  by nested loops; a loop that polls. Correct: events fire once, in order, not
  early; the clock accounts for itself; a run ends.
* Containers: pointer ownership with destructors, derived sets that share
  elements, arrays that move, `malloc` that fails half-way. Correct: they
  implement a FIFO queue and sets of keys, and nothing is freed twice.
* Statistics and random numbers: sums that are corrected and never recomputed, a
  window that wraps, the two end words of a generator, two formulas for one
  thing. Correct: the formulas agree; only the end words of the generator
  and extreme arguments lead out of a range.
* Code generation: where blocks end, which variable dominates which use, which
  types meet, statements that are silently dropped. Correct: what is accepted is
  well formed, and what was generated without a flaw does what its source says.
* Debugger: the state at the prompt decides about later hooks; one timer and one
  indentation for nested calls, some of which are given up half-way.
* Compilers in one directory: a temporary file with a fixed name; kills.

Nothing in the repository runs several threads. The interleavings are those of
callbacks, of separate compiler processes, and of clients of a resource.
`PROJECT.json` lists each hazard at its line.

## 2. The modules

| Module | Models | Abstract specification | Proofs |
|---|---|---|---|
| `Simulator` | time_simulation.c | `Agenda` | `SimulatorProofs` |
| `RingQueue` | queue.c | `Fifo` | `RingQueueProofs` |
| `DynSet` | set.c | `KeySets` | `DynSetProofs` |
| `ResourcePool` | resource.c | | `ResourceProofs` |
| `MovingStats` | the moving window of statistics.c | `SlidingWindow` | `SamplingProofs` |
| `Statistics` | the array functions of statistics.c | | `SamplingProofs` |
| `Random` | random.c | | `SamplingProofs` |
| `Sampling` | programs that use the three above | | `SamplingProofs` |
| `Doubles` | what of IEEE arithmetic the three need | | |
| `Debugger` | breakpoints, hook and prompt | | `SessionProofs` |
| `CallTrace` | call logging during code generation | | `SessionProofs` |
| `DebugSession` | one run of `main` with both halves of the context | | `SessionProofs` |
| `Trees` | the trees of the language, values and operations on them | | |
| `Parser` | the parser's actions: from the surface form to the AST | | |
| `SourceLang` | the documented meaning of programs | | |
| `Lowering` | symbol table, code generator, LLVM's verifier | | `CompilerProofs` |
| `Machine` | compile, verify and execute | | `CompilerProofs` |
| `Compiler` | the machine beside the source of its program | `SourceLang!Meaning` | |
| `Build` | compiler processes and the files they share | | `CompilerProofs` |

`MC...` modules hold the constants of the runs, `SeqLemmas` lemmas on sequences
and on loops. `CompilerProofs` has two parts: the code that is generated, and the
driver that delivers it.
A module that is mutated for the checks also holds a section "Mistakes an author
of this code could have made": copies of an operation with one thing wrong, used
to confirm that a property notices. They take no part in `Next`.

### Simulator

Control is a stack of activations: a `run` frame stands at the loop test of
`simulator_run`, a `step` frame for an activation of `simulator_step` whose
handler has been entered. The top of the stack moves; when it is a `step` frame
or the stack is empty, the handler or the driving program may call any
operation. `BeginStep` is `simulator_step` up to the call of the handler,
`FinishStep` the rest; `RunIterate`, `RunIdle` and `RunReturn` are the three
outcomes of a loop test. `finished`, `cancelled`, `base`, `advanced` are history
variables. Times are integers: the code only compares, adds and subtracts.
The caller's contract is that an event is scheduled once, right after
`event_create`, and that a destroyed simulator is not used. The model leaves
out `total_time`'s use in percentages and the microsecond conversions.

`Agenda` is what a simulator promises: a set of pending events from which the
earliest (first scheduled among equals) fires, at a time that never goes back.

### Queue, set, resource

`RingQueue` models the array with its junk cells, so that a copy from the wrong
place shows. `AllocMayFail` makes `resize_queue` return without growing.

`DynSet` has several sets whose elements are pointers `<<key, copy>>`: `compare`
looks at the key, ownership is about the pointer. A set is created with or
without a destructor (its field `frees`). The caller keeps the contract of
set.h: an element given to a set with a destructor is the caller's to give
(`held`), and such a set is not an operand of union, intersection or difference,
because the result would share its elements and its destructor (section 6).

`ResourcePool` adds the clients that hold units. `resource_reset` may be called
at any time; the history `lost` is what was held at the last reset, and the
release of a unit the counters no longer include is refused when nothing is busy.

### Statistics and random numbers

`MovingStats` is the circular window with its two running sums, on integers and
the three special doubles (`Doubles`); `dirty` remembers that a value was not
finite. `SlidingWindow` is its promise: the last observations, oldest first.
`Statistics` computes the array functions in exact fractions, kept as pairs that
`Same` compares (two functions that compute one number seldom reach it over the
same denominator). A sorted array is described by ranks: position `k` holds the
element that fewer than `k` are below and at least `k` are not above. A loop of
the code is a recursive function of the number of its turns.

`Random` takes the generator to be any sequence of words. Integer samples, and
triangular ones with integer bounds, are computed from the word as random.c does
(the second rounded to an integer towards a bound). Of any other real number only
the sign is kept, and whether it is 0, infinite or not a number: `Times`, `Power`,
`Shift`, `Exp` and `NegLog` say what the operations of random.c make of those, and
a sampler is the expression of its C function over sets of such numbers. With
`extreme` arguments (a tiny rate or shape, a large mean, deviation or scale, a
Poisson rate above 2^31) a result may besides overflow to infinity, underflow to 0
or be out of the range of `int`, whatever the word. `ends` of an outcome records
which end words it was made of.

`Sampling` is three kinds of program, one per behaviour of the run: `arrays`
draws pairs of integers into two arrays and asks for medians (which sort the
caller's array), `window` watches samples through a window of any size, closes
it and opens another, `number` draws one number from a sampler: of real arguments,
extreme or not, or of bounds in any order and of any sign.

### Compiler

A program is a tree of `Trees` in surface form, over values of types INT, REAL,
TEXT and truth values. It is translated in two stages as in the code: `Parser`
(`ParseIf`, `ElseifList`, `CombineElseifChain`, `ParseStmt`) builds the AST of
parser.y, `Lowering` builds basic blocks from that.

`codegen_expression` and `codegen_statement` call each other recursively.
`Lowering` keeps their activations as a stack, `todo`: an item is a node to be
generated (`Expr`, `Stmt`) or what is left of a case after one of its calls, with
the local variables that are still needed. An action is the code between two
calls: `GenWhile` makes the blocks of a loop, enters the first and pushes
condition, test, body and end; `Test` is what follows the call for the condition,
`Close` what follows the call for the body. `val` is what `codegen_expression`
returned last, `None` for NULL. The order of these steps is the order of the
instructions, which is what the properties are about.

The module under construction, `g`, is a record of blocks, allocas with their
types, the symbol array (with its capacity and the number of times it has moved),
the functions, the builder's position and the `flaws` of the translation:
statements dropped, placeholders, texts compared by address, a symbol read with
another type than its memory, the variable of a FOR read before its start value
is stored, a symbol read after the array moved. `fresh` is the alloca that may be
read by name and that nothing has been stored in yet; `flaws` and `fresh` are
history, the code has neither. `Verifies` is the part of `LLVMVerifyModule` this
generator can offend: terminators, operand and result types, allocas of other
functions, dominance. A NULL handed to the LLVM library crashes it.

`Machine` runs the generator to its end, has the module verified and executes the
blocks one instruction at a time with a call stack; memory that nothing was stored
in holds any value of `Junk`. LLVM and the machine are external to the repository
and modelled from how codegen.cpp uses them. `Compiler` takes the programs
through the parser and keeps beside each what it should write.

Both references are stated on the source. `Meaning` is an interpreter of the
trees after docs/syntax.md. `WellFormed` says which programs should be accepted,
in one walk over the tree that knows nothing of blocks: names and their types,
which declaration is on every path to a use, and where control can be.

### Debugger, CallTrace, DebugSession, Build

`Debugger!Hook` runs `debug_set_location` with both of its breakpoint checks and
opens the prompt when the state is BREAK or STEP; `Resume`, `Inspect` and
`InputEnds` are the ways a prompt goes on. `CallTrace` follows the log lines of
nested calls; `Fail(n)` is a failed argument, which gives up the `n` innermost
calls up to the next binary expression or statement. `DebugSession` composes
them as `main` does: options, then code generation (which may leave indentation
behind), then execution under the debugger.

`Build` has one compiler per source file, a working directory for each, edits of
the sources between compilations, linking and `-c`, failures of every stage and
kills. Each compiler is given an output of its own; `--execute` is
`Compiler!Execute`.

## 3. The runs

| Run | Properties | Result |
|---|---|---|
| `Simulator` | type invariant; list order; each event in one place; elapsed time; due events; global time; idle share; nothing overtaken; clock never back; implements `Agenda`; a run returns or starves | holds |
| `RingQueue` | type invariant; fields agree; one owner of each element; implements `Fifo` | holds |
| `ResourcePool` | type invariant; counters partition the total; busy units are the held ones, less what a reset forgot | holds |
| `DynSet` | type invariant; comparisons agree with sets; one owner of each element; implements `KeySets` | holds |
| `Sampling` | type invariant; moving mean and variance are those of the window; order statistics and regression agree; samples lie in the range their sampler can promise; implements `SlidingWindow` | holds |
| `DebugSession` | type invariant; ids identify; quit is final; a step stops at the next hook; a running program stops exactly where a breakpoint counts a hit; a RET line stands under its CALL line; a logged duration is its call's own | holds |
| `Compiler_flow` | acceptance is `WellFormed`, for programs whose routines share no names; what is written is `Meaning`; a variable is read only after it was written | holds |
| `Build` | type invariant; status 0 delivers, alone in a directory; temporary objects are cleaned up | holds |
| `RingQueue_alloc` | enqueue adds at the back, malloc failing | violated |
| `Debugger_location` | stops at the breakpoint's location | violated |
| `Compiler_chain` | an IF chain with an ELSE runs as documented | violated |
| `Build_race` | status 0 delivers, two compilers in one directory | violated |

Every violated run is a finding in `PROJECT.json` with the documentation line it
contradicts. Every property of a run that holds has a mutant there: a plausible
mistake in the code that makes the property fail.

`WellFormed` gives each routine a scope of its own, as docs/syntax.md:271 does.
The code has one table of names for all of them: it refuses most programs in
which two routines use one name, which the language allows (section 6).
`AcceptedIffWellFormed` therefore speaks of the other programs (`NamesApart`); of
those with shared names only what the accepted ones write and read is checked.
In three points `WellFormed` follows the code: a variable has to be assigned, in
the text, on every path to its uses; a routine is known to those after it; a
statement without code may stand anywhere. Programs whose translation reads a
moved symbol have undefined behaviour and are excluded. For a literal operand of
a type an operation has no rule for (minus or NOT of a REAL, AND of REALs,
arithmetic on TEXTs) the constant folder's precondition is violated; the model
takes it to leave an instruction, which the verifier refuses as it does for any
other operand (an LLVM built with assertions stops earlier).
`WritesWhatItMeans` and `ReadsOnlyWhatWasWritten` speak of modules that were
generated without a flaw; what happens to the others is told in section 6. That
the second one needs the exception for the start of a FOR (`unset`) came out of
its proof: without it the invariant below is false.

### Bounds, and why they are enough

* `Simulator`: from time 1 to 3, three events at 0, 2 or 4 (before the start,
  inside, after the end), two loops, five activations: a run, the step it calls,
  a run from that step's handler, its step, and one more step from the inner
  handler, so that the inner loop clears `running` and `paused` under the outer
  one while events of both are in flight. Two events are enough for order and
  overtaking; the third is what is scheduled or cancelled while two are in flight. The theorems remove these bounds from the safety
  properties.
* `RingQueue`: five interchangeable elements; capacity 0 is asked for, so that
  the default applies, taken as 2 here (16 in the code). Five elements force two
  growth steps, the first from every rotation of the ring.
* `DynSet`: three handles (two operands and a result), two keys with two pointers
  each, initial capacity 1 so that growth happens at once.
* `ResourcePool`: three clients and six units: a reset with units held by two,
  while the third requests and all release later.
* `Sampling`: words of three bits (the last of eight makes 1 .. 2 an interval of
  three numbers), windows of one to three slots, which wrap at different places,
  over every value a sampler can return; four pairs, so that odd and even
  numbers of elements, ties and constant arrays occur. Bounds from -2 to 2 in
  every order; one finite magnitude, since only signs are compared.
* `DebugSession`: three breakpoints of both types, two hits each: enough for a
  newer twin, a removed one in the middle and an older one, switched on or off. The hook is called
  with line 0 as generated code does. The breakpoints stand at other places
  ("7", "h"): no property here depends on where they are set;
  `Debugger_location` sets them at the positions of the hook too. Three nested
  calls, times up to 4, two given-up calls; the clock may stand still, as
  `clock()` does between close calls. `MaxTime` is no reason for a deadlock:
  generation may end as soon as no call is open.
* `Compiler_flow`: 11604 programs, of which 9628 share no names between routines
  (5774 of these are well formed). Control: one nested and one simple statement
  in every combination, nesting of depth two, ELSEIF chains of four arms with
  every arm taken. Calls: recursive routines, routines that call others, nested
  calls with random arguments. Types: every operator on
  pairs of literals of every type, minus and NOT of literals and variables, every
  kind of statement, parameter and result over operands of every type. Names: globals, entities, objects, loop
  variables (also in their own start value), parameters used in and out of place;
  symbol tables that grow in a loop body (the first capacity is the code's).
  `Width` 6 and `MaxSteps` 120 instructions, of which a call or a turn of a loop
  takes at least two, so that the reference is given 60 calls and turns; programs
  that do not finish are compared on what they have written so far.
* `Build`: two texts of each source; two compilers in one directory, a third in
  another.

### Fairness

Only `RunReturnsOrStarves` needs it (`FairSpec`; the other properties of the run
are safety properties, which fairness does not change). `RunIterate` and
`RunReturn` are weakly fair: a C loop that is on top of the stack goes on.
`FinishStep` is strongly fair: a handler returns although it may make calls in
between, which disable and enable the end of its activation. Nothing is assumed
about the driving program or about what handlers call. The bound on events
stands for the fact that handlers do not schedule for ever at times that are
already due; without it `simulator_run` need not return, and should not.

### Deadlock

`CHECK_DEADLOCK FALSE` is set where a system may stop: a compiler whose program
has halted or was rejected (`Compiler_*`), and a queue all of whose elements
have been freed (`RingQueue*`).

## 4. The proofs

Each theorem holds for every value of the constants that the named assumption of
its module allows.

**Simulator** (`SimAssumption`: any start, end and event times, any number of
events, nested loops and activations). `TypeCorrect`, `QueueStaysOrdered`,
`NoEventLost`, `TimeIsAccountedFor`, `HandlersAreDue`, `GlobalTimeLeads`,
`IdleShare` are the invariants of its run, `ClockMonotone` and
`StepOvertakesNothing` its action properties, `ImplementsAgenda` the refinement.
The invariants are not inductive one by one. `Inv` strengthens them in two
layers: `ListInv` (list order, ids below `next_event_id`, the four places of an
event are disjoint and cover `base .. next_event_id - 1`, no two step frames
share an id) and `ClockInv` (times of queued and in-flight events are integers,
in-flight events are due, the time accounts, the lead of the global time).
`ListInvInductive` needs what insertion and removal do to a sorted list:
`InsertKeepsOrder`, `DeletionKeepsOrder`, `RemoveKeepsOrder`, `TailKeepsOrder`,
which rest on `SeqLemmas`. `ClockInvInductive` uses the order of the list for
`NoEventOvertaken`: the head is the earliest event, so that a clock moved to it
passes none. `IdleShare` has an invariant of its own (`IdleInv`), because the
statistics are behind the clock while a step is in flight. The refinement maps
the list to its set of events; every step that fires is `Fire` of the head,
which is the minimum because the list is ordered.

**RingQueue** (assuming `~ AllocMayFail`, as in its run). `ImplementsFifo`,
`FieldsAgree`, `IndicesInside`, `EveryElementHasOneOwner`, and `EnqueueAppends`,
the claim of queue.h that the run `RingQueue_alloc` refutes when malloc fails. The invariant `Ring`
relates `rear` to `front` and `count` modulo the capacity; the abstract items
are the cells from `front` on. The hard step is growth, whose copy must yield
the same items from any rotation; ownership is carried on the items, not on
cells, so that each operation is an append, a tail or an emptying.

**ResourcePool**: `CountersInRange`, `CountersPartition`, `BusyUnitsAreInUse`.
The units in the clients' hands are counted as the cardinality of a set to which
a request adds, and from which a release removes, an interval of one client
(`Grows`), so that no sum over clients is needed.

**DynSet** (any handles, keys and copies, any initial capacity and growth factor
above 1). `KeySetsRefined`, `ComparisonsAgreeHolds`, `OneOwnerHolds`,
`TypeOKHolds`. None of the invariants of the run is inductive alone. `Inv` says
that no array holds two elements of one key or more than its capacity
(`SetsSound`) and where elements are (`Ownership`): owned by one set with a
destructor, or the caller's, or freed once, and the sets without a destructor
only borrow what is the caller's. `set_equals` compares counts, which decides
equality of keys only because no key is held twice (`CountOfKeys`). One lemma per
action (`AddKeeps`, `RemoveKeeps`, `CombineKeeps` ...) gives both the invariant
and the step of `KeySets`; the loops of union, intersection and difference are
`CollectCollects`, an induction over their turns.

**Sampling** (any word width, range, window size and number of draws).
`WindowRefinement` (the window implements `SlidingWindow`; the arithmetic of the
wrap-around is the point) and `WindowMemory` (no slot is read outside the window
or before it was written) rest on `Shape`.
`MovingAgreesHolds` needs `SumsKept` besides: the two running sums are those of
`Contents`, or, once a value that is not finite was added, they are special and
stay so. A replacement changes the sums by one element, and the sums of a tail
and of an append (`TotalOfTail`, `TotalOfAppend`, `SquaresOfTail`) show that this
is what became of the contents; that the variance computed from sums of squares
is the one computed from deviations is `DeviationTerm` summed up.
`BatchFormulasHold` needs `ArraysKept`: the arrays are what was drawn, up to the
order that sorting leaves. Its lemmas hold for arrays of any length: a sequence
sorted by ranks exists, ascends and has each value as often as the array;
quartiles and percentiles are compared as levels between two neighbours
(`Hundredths`); regression agrees with covariance by multiplying out, and the
square of the correlation is at most 1 by the Cauchy-Schwarz inequality, proved
as a sum of squares that is not negative. `SamplesInRange` goes through the
samplers one by one, from what the sign arithmetic of `Random` yields;
`UniformIntRange` is the integer one for itself (a sample lies in `min .. max` for
every word but the last, which gives `max + 1`), `TriangularRange` the triangular
one (the root is at most the distance to the bound it starts from), and
`SamplingTypes` the type invariant.

Loops over arrays are proved about without an induction scheme, which the
provers cannot be given. `SeqLemmas` has instead facts about sets of numbers:
`LeastNatural`, from the well-ordering of the naturals, and from it
`TurnInduction` (a set of turns that holds 0 and with each turn the next is
`0 .. n`) and `LoopExists` (a recursive function over `0 .. n` has a value after
every turn, without which TLA+ says nothing of it).

**DebugSession**: `IdsAreUnique`, `QuitEnds`, `StepStops`, `HitsAndStops`,
`ReturnsMatchCalls`, `DurationsAreTrue`, `SessionWellFormed`. The debugger's half
is inductive with "at the prompt the state is BREAK or STEP" and "ids in the
list are below the next one". The trace's half (`CInv`) needs that the lines of
the live calls lie one step of indentation apart, that the calls a failure gave
up are the innermost, and that a running timer is that of the innermost call if
any call is live.

**Machine** (any set of programs, any width, first capacity, bound and junk).
`ReadsOnlyWhatWasWrittenHolds`: code that was generated without a flaw and that
the verifier let pass loads from no alloca before it has stored to it. It is a
theorem of `MachineSpec`, whose steps are those of `Compiler`'s specification
without the history variable `meaning`, and speaks of any AST, also of one no
parser makes. The argument has two halves, and `CompilerInvHolds` is their
inductive invariant.

* `GeneratorInv`, about the text of the module. Every alloca a name can be read
  from, but `fresh`, has a store to it in its own block, and every load of a slot
  that stands in that block comes behind such a store (`Sound`). `fresh` lies in
  the block the builder stands in, so that the store that will settle it lands
  there. This holds between the calls of the two recursive functions only with
  what is pending: while a slot is fresh, the stack holds expressions and then
  the one item that stores to it or records the flaw (`Pending`); no item that
  would move the builder to another block comes in between. Modules only grow
  (`Grows`): each step appends instructions to blocks and adds blocks, slots and
  symbols, which is why items that name blocks stay valid (`Possible`,
  `PossibleKept`) and what was stored stays stored (`StoredKept`). There is one
  lemma per operation of the builder (`EmittedGood`, `AddBlocksGood`,
  `SetNewSlotGood`, `LoadFromGood`, `StoreToGood`, `AtGood` ...) and one per
  group of actions (`ExpressionKeepsOrder`, `StatementKeepsOrder`,
  `BranchKeepsOrder`, `ForKeepsOrder`, `ForStartedKeepsOrder`,
  `DeclarationKeepsOrder`).
* `MachineInv`, about frames. A frame has stored to a slot unless it stands where
  it can be reached from the entry without the slot's block (`Covered`): in that
  block itself it has executed the prefix up to its instruction. A jump keeps
  this because `Avoiding`, the set of blocks that can be reached without entering
  a given block, is closed under successors (`AvoidingIsClosed`). The verifier's
  set is a loop of as many turns as there are blocks; that it has then stopped
  growing is an argument on cardinality: a turn that adds nothing is the last
  one, and there are no more blocks than turns. Calls start a frame at an entry
  block, where nothing is claimed (`FrameStarts`), and returns advance the caller
  past its call (`LeavesFrame`).
* Together (`LoadIsCovered`): a load the verifier accepted is dominated by the
  block of its slot's alloca, so that the frame has been through that block,
  whose store stands before any load.

**Build**: `FilesHoldCode`, `AloneDelivers`, `TemporariesAreCleaned`. A compiler
alone in its directory owns the temporary file from its emission to its end, and
the file carries the text it has read (`CarriesOwn`).

Only model-checked: liveness (`RunReturnsOrStarves`), which the prover cannot
express; and two properties of `Compiler`, `AcceptedIffWellFormed` and
`WritesWhatItMeans`. These compare the generated code with `WellFormed` and
`Meaning`, which are recursive over trees: they are RECURSIVE operators, and a
proof would be an induction over programs, both out of the prover's reach. Every
other property of a run that holds is a theorem. The theorems share the limits of
the modules they are about: section 5.

## 5. What is not modelled

* Lexer, AST printing and freeing, the execution graph and LLVM itself; reasons
  are in `PROJECT.json`.
* Rounding: `Statistics` and the sums of `MovingStats` are exact on finite data.
  Skewness, kurtosis, densities, tests and confidence intervals are real
  functions TLC cannot evaluate. The distributions of samples and the generator
  itself (its period and its independence are not matters of state exploration).
* Files, methods and events of the language, which generate a message or
  nothing; members of classes and entities; SET values, which generate nothing.
* Precedence: a program starts as a tree, not as a sequence of tokens.
* An event that is scheduled twice or rescheduled by its own handler (the node
  is freed while it is in the list): outside the contract stated above.
* Failing allocations outside the queue and `simulator_create`; stack use.
* Derived sets with a destructor.
* The debugger's listings and `main`'s options and order of clean-up.
* A kill in the middle of a write: a file is written in one step.

## 6. Disagreements with the documentation that no run shows

They were met while reading the code for the models. Some are outside a module's
contract, some are in log output that no state depends on, some are true of
every call and need no exploration of states; the flaws of translation are in
the model (`flaws`), but no line of the documentation promises the
exact contrary.

Simulation, containers, debugger, driver:

* `time_simulation.c:199` counts an event as processed when it is scheduled;
  the statistics print the counter as "Processed Events" (line 215).
* `time_simulation.c:274`: the inner of two nested `simulator_run` calls clears
  `running` although the outer loop goes on, and `simulator_resume` sets it with
  no loop active.
* `time_simulation.c:144`: creating a second simulator resets the one global time.
* `set.c:150` gives a derived set the destructor of its first operand, and
  `set_destroy` frees "all elements" (`set.h:21`): destroying operand and result
  frees the shared elements twice.
* `set.c:23`: when `realloc` fails `resize_set` leaves the array as it is and
  `set_add` writes one past its end (line 81).
* `debug.c:406-408` logs the hit count of the newest breakpoint in the list, not
  that of the breakpoint named in the line.
* `debug.c:217` keeps one start time: the inner of two nested measurements ends
  the outer one, which logs no duration.
* `main.cpp:132`: the default output `a.out` is one file for all compilers of a
  directory.
* `codegen.cpp:1497` links the object file alone: an executable that draws
  random numbers lacks their library.

Random numbers and statistics:

* `random.c:38` divides by the last word, so that `random_uniform` can be 1
  against `[0, 1)` (`random.h:17`), and line 46 returns `max + 1` then, against
  `[min, max]` (`random.h:20`). `max - min + 1` overflows for intervals of 2^31
  numbers and more.
* `random.c:91` converts a normal number to `int`: infinite for the word 0, above
  the range of `int` for rates above 2^31, and negative now and then for rates
  little above 30.
* `random.c:68`, `162` and `171` overflow to infinity for ordinary words when the
  rate or the shape is tiny or the deviation large; random.h says nothing of it.
* `random.c:118` is not a number when two tiny shapes underflow.
* `statistics.c:354` and `372` take the quantile from the distribution function
  with its arguments mistaken: the lower end of a confidence interval
  (`statistics.h:57`) is above the upper one.
* `statistics.c:35` and `195` sort the caller's array, the second through a
  `const` pointer: what was paired with another array no longer is.
* `statistics.c:453`: an infinite observation leaves infinity minus infinity in
  the sums for the rest of the object's life. Line 477 cancels: rounding can make
  a variance negative and its root not a number.

Language and code generator:

* `lexer.l:108` makes every `=` an assignment, so that equality cannot be tested;
  several keywords of the language reference have no production.
* `codegen.cpp:456`: `**` (`syntax.md:101`) has no case; the expression is NULL
  and its statement is dropped with exit status 0. Lines 467-469 build integer
  operations for NOT and minus of a REAL, a literal such as `-1.5` included, which
  LLVM rejects by aborting.
* `codegen.cpp:1376-1383` generates no variables for the PREAMBLE, which
  `syntax.md:182` says holds the global ones.
* A routine that is called before its text, or by itself under another one, is
  not found, and the calling statement dropped; one without result cannot be
  called, because its call is a value without type.
* `codegen.cpp:1307`: there is one symbol table for all routines, where variables
  are local by default (`syntax.md:271`) and parameters visible locally (`273`). A
  routine that uses a variable of a name an earlier one has is refused by the
  verifier; a parameter of another type than its name has already is read as that
  type.
* The name of an entity or an object in an expression crashes the library, whose
  functions are given a NULL. Texts are compared by address.
* `codegen.cpp:990` reads a `Symbol*` that the loop body's declarations can have
  invalidated (`symbol_table.c:35` moves the array).
* `codegen.cpp:945-959` creates the variable of a FOR, which marks it initialized
  (`symbol_table.c:244`), before it generates the start value: `FOR x = x + 1 TO
  ...` with a new `x` compiles and reads an alloca without a value, and after a
  start value that cannot be generated so does the loop's own test. The "used
  before initialization" check of line 363 does not notice.
* `codegen.cpp:727` puts the alloca of a variable where it is first assigned,
  so that a loop body takes new stack on every turn.
* `codegen.cpp:118-139` looks for statements that cannot run in parallel, but
  not in the branches of an IF, and reads the body of a WHILE or FOR EACH
  through the union member of a FOR: the advice it prints can be wrong.

## 7. Plan

Done in this order: simulator and its proofs, containers, debugger, compiler,
build; then the debug session, the typed compiler, statistics and random
numbers, and the proofs of queue, resource, session, build, sets, windows and
statistics; then the generator as a stack of activations in place of recursive
operators, and the proof about the code it generates. Left:

1. Simulator events as heap nodes, to model rescheduling and double scheduling,
   and a failing `realloc` in `DynSet`.
2. More of the verifier's verdict from the generator's invariant: that each block
   is closed once unless a statement follows a RETURN.
3. Expressions as sequences of tokens, parsed by precedence.
4. `main`'s order of clean-up over its error paths and the JIT path.
