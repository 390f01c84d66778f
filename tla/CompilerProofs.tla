--------------------------- MODULE CompilerProofs ---------------------------
(***************************************************************************)
(* Theorems about the compiler.  Of the code it generates (Machine): it    *)
(* reads a variable only where that has been written, whatever the program *)
(* is.  Of the driver around it (Build): a compiler alone in its directory *)
(* delivers what it read, whatever earlier compilers left there, and       *)
(* temporary files do not pile up.                                         *)
(***************************************************************************)
EXTENDS Build, Machine, SeqLemmas, FiniteSetTheorems

-----------------------------------------------------------------------------
(***************************************************************************)
(* What the generator keeps true of the module it builds.                  *)
(***************************************************************************)

(* The fields of a module and of a symbol.                                 *)
IsModule(m) ==
    m = [blocks |-> m.blocks, fn |-> m.fn, slots |-> m.slots, syms |-> m.syms, cap |-> m.cap,
         epoch |-> m.epoch, cur |-> m.cur, f |-> m.f, funs |-> m.funs, temps |-> m.temps,
         fresh |-> m.fresh, flaws |-> m.flaws]
IsSymbol(x) == x = [name |-> x.name, slot |-> x.slot, type |-> x.type]

Block(m) == 1 .. Len(m.blocks)
Slot(m) == 1 .. Len(m.slots)

(* Type correctness: lists of the same length, and names of blocks, slots  *)
(* and functions that exist.  An entry block belongs to its function.      *)
Formed(m) ==
    /\ IsModule(m)
    /\ IsList(m.blocks) /\ \A b \in Block(m) : IsList(m.blocks[b])
    /\ IsList(m.fn) /\ Len(m.fn) = Len(m.blocks)
    /\ IsList(m.slots) /\ \A s \in Slot(m) : m.slots[s].b \in Block(m)
    /\ IsList(m.syms)
    /\ \A k \in 1 .. Len(m.syms) :
          IsSymbol(m.syms[k]) /\ m.syms[k].slot \in 0 .. Len(m.slots)
    /\ IsList(m.funs)
    /\ \A f \in 1 .. Len(m.funs) :
          m.funs[f].entry \in Block(m) /\ m.fn[m.funs[f].entry] = f
    /\ m.fresh \in 0 .. Len(m.slots)

(* The module also has main, and the builder stands in one of its blocks.  *)
Shaped(m) == Formed(m) /\ m.cur \in Block(m) /\ Len(m.funs) >= 1

(* Stores stand in the block of the slot's alloca.  A load of a slot that  *)
(* stands there as well comes after one of them.                           *)
IsStore(i, s) == i.op = "store" /\ i.slot = s
IsLoad(i) == i.op = "load"
Home(m, s) == m.blocks[m.slots[s].b]
Stored(m, s) ==
    s \in Slot(m) /\ \E n \in 1 .. Len(Home(m, s)) : IsStore(Home(m, s)[n], s)
StoredBefore(m, s, b, n) ==
    /\ s \in Slot(m)
    /\ \E k \in 1 .. Len(Home(m, s)) :
          IsStore(Home(m, s)[k], s) /\ (b = m.slots[s].b => k < n)
LoadsFollowStores(m) ==
    \A b \in Block(m) : \A n \in 1 .. Len(m.blocks[b]) :
        IsLoad(m.blocks[b][n]) => StoredBefore(m, m.blocks[b][n].slot, b, n)

(* What can be read by name has been stored to, but for the fresh alloca,  *)
(* for which the builder still stands in its block.  An object's variable  *)
(* is never read: its type is void, its memory's is not.                   *)
Opaque(m, x) == x.type = "void" /\ m.slots[x.slot].t = "text"
SymbolsAreStored(m) ==
    \A k \in 1 .. Len(m.syms) :
        LET x == m.syms[k]
        IN  x.slot \in {0, m.fresh} \/ Stored(m, x.slot) \/ Opaque(m, x)
FreshIsHere(m) == m.fresh # 0 => m.slots[m.fresh].b = m.cur

Sound(m) ==
    m.flaws = {} => LoadsFollowStores(m) /\ SymbolsAreStored(m) /\ FreshIsHere(m)
Good(m) == Shaped(m) /\ Sound(m)

(* No alloca waits for its first value.                                    *)
Steady(m) == Good(m) /\ (m.flaws = {} => m.fresh = 0)

(* The generator only adds: to the blocks and their instructions, to the   *)
(* slots, to the names that have memory, and to the flaws.                 *)
Grows(m, h) ==
    /\ Len(m.blocks) <= Len(h.blocks)
    /\ \A b \in Block(m) :
          /\ Len(m.blocks[b]) <= Len(h.blocks[b])
          /\ \A n \in 1 .. Len(m.blocks[b]) : h.blocks[b][n] = m.blocks[b][n]
    /\ Len(m.slots) <= Len(h.slots)
    /\ \A s \in Slot(m) : h.slots[s] = m.slots[s]
    /\ \A v : SlotOf(m, v) # 0 => SlotOf(h, v) # 0
    /\ h.flaws = {} => m.flaws = {}

(* The activations w fit the module: the blocks they return to exist, and  *)
(* the loop variables they hold have memory.  Only the start value of a    *)
(* FOR is computed while an alloca is fresh, so that nothing but parts of  *)
(* expressions stands before the activation that stores it.                *)
Expressions == {"expr", "right", "apply", "unary", "args", "pass"}
Leaving == {"leave", "close", "test", "bound", "step", "end"}
Possible(m, item) ==
    /\ item.k \in Leaving => item.at \in Block(m)
    /\ item.k \in {"start", "step"} => SlotOf(m, item.v) # 0
Work(m, w) == IsList(w) /\ \A j \in 1 .. Len(w) : Possible(m, w[j])
Pending(m, w) ==
    (m.flaws = {} /\ m.fresh # 0) =>
        \E j \in 1 .. Len(w) :
            /\ w[j].k = "start" /\ SlotOf(m, w[j].v) = m.fresh
            /\ \A i \in 1 .. j - 1 : w[i].k \in Expressions

Ordered(m, w) == Good(m) /\ Work(m, w) /\ Pending(m, w)
GeneratorInv == Ordered(g, todo)

(***************************************************************************)
(* What the machine keeps true of its frames.                              *)
(***************************************************************************)
IsFrame(fr) ==
    fr = [block |-> fr.block, pc |-> fr.pc, env |-> fr.env, temps |-> fr.temps, args |-> fr.args]

(* The frame has not passed a store of slot s: its block can be reached    *)
(* without entering the slot's, or it stands there before the first one.   *)
Unstored(m, fr, s) ==
    LET d == m.slots[s].b
    IN  \/ fr.block # d /\ fr.block \in Avoiding(m.blocks, EntryOf(m, fr.block), d)
        \/ fr.block = d /\ \A n \in 1 .. fr.pc - 1 : ~ IsStore(m.blocks[d][n], s)
Covered(m, fr) ==
    \A s \in Slot(m) : Stored(m, s) => s \in DOMAIN fr.env \/ Unstored(m, fr, s)

FrameFits(m, fr) ==
    /\ IsFrame(fr)
    /\ fr.block \in Block(m) /\ m.fn[fr.block] \in 1 .. Len(m.funs)
    /\ fr.pc \in 1 .. Len(m.blocks[fr.block])
    /\ Covered(m, fr)

(* Every frame but the innermost stands at the call it made.               *)
Calls(m, fr) == m.blocks[fr.block][fr.pc].op = "call"
FramesFit(m, fs) ==
    /\ IsList(fs) /\ fs # <<>>
    /\ \A j \in 1 .. Len(fs) : FrameFits(m, fs[j])
    /\ \A j \in 2 .. Len(fs) : Calls(m, fs[j])
MachineInv ==
    (phase = "running" /\ g.flaws = {}) => Verifies(g) /\ FramesFit(g, frames)

-----------------------------------------------------------------------------
(* Dominance and frames.                                                   *)

(* Avoiding is a fixed point: as many turns as there are blocks are enough *)
(* to collect every block that can be reached without entering d.          *)
LEMMA AvoidingIsClosed ==
    ASSUME NEW blocks, NEW from, NEW d,
           Len(blocks) \in Nat, from \in 1 .. Len(blocks),
           \A b \in 1 .. Len(blocks) : Successors(blocks[b]) \subseteq 1 .. Len(blocks)
    PROVE  /\ from # d => from \in Avoiding(blocks, from, d)
           /\ \A b \in Avoiding(blocks, from, d) : \A c \in Successors(blocks[b]) :
                 c # d => c \in Avoiding(blocks, from, d)
<1> DEFINE n == Len(blocks)
           B == 1 .. n
           M == SUBSET B
           first == {from} \ {d}
           next(X) == Onward(blocks, X, d)
           step == [i \in 1 .. n |-> [X \in M |-> next(X)]]
           IsLoop(f) == f = [i \in 0 .. n |-> IF i = 0 THEN first ELSE next(f[i - 1])]
           Closed(X) == next(X) = X
<1>1. n \in Nat /\ first \in M
  OBVIOUS
<1>2. ASSUME NEW X \in M PROVE next(X) \in M /\ X \subseteq next(X)
  BY DEF Onward
<1>3. \A i \in 1 .. n : i \in 0 .. n /\ i # 0 /\ i - 1 \in 0 .. n
  BY <1>1
<1>4. PICK f : IsRun(f, M, n, first, step)
  <2>1. step \in [1 .. n -> [M -> M]]
    <3> HIDE DEF M, next
    <3> QED BY <1>2
  <2> HIDE DEF step, M, first
  <2> QED BY <1>1, <2>1, LoopExists
<1> HIDE DEF first
<1>5. IsLoop(f)
  <2>1. \A i \in 1 .. n : f[i - 1] \in M
    <3> HIDE DEF M, n
    <3> QED BY <1>3, <1>4 DEF IsRun
  <2>2. \A i \in 1 .. n : step[i][f[i - 1]] = next(f[i - 1])
    <3> HIDE DEF next, M, n
    <3> QED BY <2>1
  <2>3. \A i \in 1 .. n : f[i] = next(f[i - 1])
    <3> HIDE DEF next, step, n
    <3> QED BY <1>4, <2>2 DEF IsRun
  <2>4. f[0] = first /\ f = [i \in 0 .. n |-> f[i]]
    BY <1>4 DEF IsRun
  <2>5. \A i \in 0 .. n : i # 0 => i \in 1 .. n
    BY <1>1
  <2> HIDE DEF next, n
  <2> QED BY <2>3, <2>4, <2>5
<1> DEFINE r == CHOOSE f1 : IsLoop(f1)
<1>6. Avoiding(blocks, from, d) = r[n]
  BY DEF Avoiding, first
<1>7. IsLoop(r)
  <2> HIDE DEF IsLoop
  <2> QED BY <1>5
<1> HIDE DEF r
<1>8. r[0] = first /\ \A i \in 1 .. n : r[i] = next(r[i - 1])
  <2>1. 0 \in 0 .. n
    BY <1>1
  <2> HIDE DEF next, n
  <2> QED BY <1>3, <1>7, <2>1
<1>9. from = d => first = {}
  BY DEF first
<1>10. from # d => first = {from}
  BY DEF first
<1> DEFINE T == {i \in 0 .. n : r[i] \in M /\ first \subseteq r[i]
                               /\ (Closed(r[i]) \/ Cardinality(r[i]) > i)}
<1>11. 0 \in T
  <2>1. Closed(first) \/ Cardinality(first) > 0
    <3>1. CASE first = {}
      BY <3>1 DEF Onward
    <3>2. CASE first = {from}
      <4>1. Cardinality({from}) = 1
        BY FS_Singleton
      <4> HIDE DEF Closed
      <4> QED BY <3>2, <4>1
    <3> QED BY <1>9, <1>10, <3>1, <3>2
  <2> HIDE DEF Closed, M
  <2> QED BY <1>1, <1>8, <2>1
<1>12. ASSUME NEW i \in 1 .. n, i - 1 \in T PROVE i \in T
  <2> DEFINE X == r[i - 1]
  <2>1. r[i] = next(X) /\ X \in M /\ first \subseteq X
    BY <1>8, <1>12
  <2>2. next(X) \in M /\ X \subseteq next(X)
    BY <1>2, <2>1
  <2>3. CASE Closed(X)
    BY <2>1, <2>2, <2>3
  <2>4. CASE ~ Closed(X) /\ Cardinality(X) > i - 1
    <3> HIDE DEF next, X
    <3>1. next(X) # X
      BY <2>4
    <3>2. IsFiniteSet(B)
      BY <1>1, FS_Interval
    <3>3. IsFiniteSet(next(X))
      BY <2>2, <3>2, FS_Subset
    <3>4. /\ IsFiniteSet(X) /\ Cardinality(X) <= Cardinality(next(X))
          /\ Cardinality(next(X)) # Cardinality(X)
      BY <2>2, <3>1, <3>3, FS_Subset
    <3>5. Cardinality(X) \in Nat /\ Cardinality(next(X)) \in Nat
      BY <3>3, <3>4, FS_CardinalityType
    <3>6. Cardinality(next(X)) > i
      BY <2>4, <3>4, <3>5
    <3> HIDE DEF Closed, M
    <3> QED BY <2>1, <2>2, <3>6, <1>3
  <2> QED BY <1>12, <2>3, <2>4
<1>13. n \in T
  <2> HIDE DEF T
  <2>1. T \in SUBSET (0 .. n)
    BY DEF T
  <2>2. T = 0 .. n
    BY <1>1, <1>11, <1>12, <2>1, TurnInduction
  <2> QED BY <1>1, <2>2
<1>14. Closed(r[n])
  <2>1. IsFiniteSet(B) /\ Cardinality(B) = n
    <3>1. n - 1 + 1 = n /\ (1 > n => n = 0)
      BY <1>1
    <3> QED BY <1>1, <3>1, FS_Interval
  <2>2. r[n] \in M /\ (Closed(r[n]) \/ Cardinality(r[n]) > n)
    BY <1>13
  <2> HIDE DEF Closed
  <2>3. IsFiniteSet(r[n]) /\ Cardinality(r[n]) <= n
    BY <2>1, <2>2, FS_Subset
  <2>4. Cardinality(r[n]) \in Nat
    BY <2>3, FS_CardinalityType
  <2> QED BY <1>1, <2>2, <2>3, <2>4
<1>15. first \subseteq r[n]
  BY <1>13
<1>16. \A b \in r[n] : \A c \in Successors(blocks[b]) : c # d => c \in r[n]
  <2> SUFFICES ASSUME NEW b \in r[n], NEW c \in Successors(blocks[b]), c # d
               PROVE  c \in next(r[n])
    BY <1>14
  <2> QED BY DEF Onward
<1> QED BY <1>6, <1>10, <1>15, <1>16

(* A block that the verifier accepts ends with its only terminator, which  *)
(* leads to blocks of the same function.                                   *)
LEMMA VerifiedBlock ==
    ASSUME NEW m, Shaped(m), Verifies(m), NEW b \in Block(m)
    PROVE  LET block == m.blocks[b]
           IN  /\ Len(block) \in Nat /\ Len(block) >= 1
               /\ \A n \in 1 .. Len(block) : block[n].op \in Terminators <=> n = Len(block)
               /\ \A c \in Successors(block) : c \in Block(m) /\ m.fn[c] = m.fn[b]
<1> DEFINE block == m.blocks[b]
<1>1. IsList(m.blocks) /\ IsList(block)
  BY DEF Shaped, Formed
<1>2. DOMAIN m.blocks = Block(m) /\ Len(block) \in Nat /\ DOMAIN block = 1 .. Len(block)
  BY <1>1, ListLength DEF Block
<1>3. WellTerminated(block)
  BY <1>2 DEF Verifies
<1>4. Len(block) >= 1
  <2>1. block \in Seq({block[i] : i \in DOMAIN block})
    BY <1>1 DEF IsList
  <2>2. block # <<>>
    BY <1>3 DEF WellTerminated
  <2> QED BY <2>1, <2>2
<1>5. ASSUME NEW c \in Successors(block) PROVE c \in Block(m) /\ m.fn[c] = m.fn[b]
  <2>1. Len(block) \in DOMAIN block /\ Last(block) = block[Len(block)]
    BY <1>2, <1>4 DEF Last
  <2>2. c \in Targets(block[Len(block)])
    BY <2>1 DEF Successors
  <2> QED BY <1>2, <2>1, <2>2 DEF Verifies
<1> QED BY <1>2, <1>3, <1>4, <1>5 DEF WellTerminated

(* A load that follows a store and whose block is dominated by that of     *)
(* the alloca finds the slot written.                                      *)
LEMMA LoadIsCovered ==
    ASSUME NEW m, Shaped(m), Verifies(m), LoadsFollowStores(m), NEW fr, FrameFits(m, fr),
           m.blocks[fr.block][fr.pc].op = "load"
    PROVE  m.blocks[fr.block][fr.pc].slot \in DOMAIN fr.env
<1> DEFINE b == fr.block
           i == m.blocks[b][fr.pc]
           s == i.slot
           d == m.slots[s].b
<1>1. b \in Block(m) /\ fr.pc \in 1 .. Len(m.blocks[b])
  BY DEF FrameFits
<1>2. StoredBefore(m, s, b, fr.pc)
  BY <1>1 DEF LoadsFollowStores, IsLoad
<1>3. Stored(m, s) /\ s \in Slot(m)
  BY <1>2 DEF Stored, StoredBefore
<1>4. s \in DOMAIN fr.env \/ Unstored(m, fr, s)
  BY <1>3 DEF FrameFits, Covered
<1>5. Dominates(m, d, b)
  <2>1. DOMAIN m.blocks = Block(m) /\ DOMAIN m.blocks[b] = 1 .. Len(m.blocks[b])
    BY <1>1, ListLength DEF Shaped, Formed, Block
  <2>2. s \in Slots(i)
    BY DEF Slots
  <2> QED BY <1>1, <2>1, <2>2 DEF Verifies
<1>6. ~ Unstored(m, fr, s)
  <2>1. CASE b # d
    BY <2>1, <1>5 DEF Unstored, Dominates
  <2>2. CASE b = d
    <3>1. PICK k \in 1 .. Len(Home(m, s)) : IsStore(Home(m, s)[k], s) /\ k < fr.pc
      BY <1>2, <2>2 DEF StoredBefore
    <3>2. k \in 1 .. fr.pc - 1
      BY <3>1, <1>1
    <3> QED BY <2>2, <3>1, <3>2 DEF Unstored, Home
  <2> QED BY <2>1, <2>2
<1> QED BY <1>4, <1>6

(* A frame goes on to the next instruction.                                *)
LEMMA FrameGoesOn ==
    ASSUME NEW m, Shaped(m), Verifies(m), NEW fr, FrameFits(m, fr), NEW next,
           m.blocks[fr.block][fr.pc].op \notin Terminators,
           IsFrame(next), next.block = fr.block, next.pc = fr.pc + 1,
           DOMAIN fr.env \subseteq DOMAIN next.env,
           \A s \in Slot(m) :
              IsStore(m.blocks[fr.block][fr.pc], s) => s \in DOMAIN next.env
    PROVE  FrameFits(m, next)
<1>1. /\ fr.block \in Block(m) /\ m.fn[fr.block] \in 1 .. Len(m.funs)
      /\ fr.pc \in 1 .. Len(m.blocks[fr.block])
  BY DEF FrameFits
<1>2. next.pc \in 1 .. Len(m.blocks[fr.block])
  BY <1>1, VerifiedBlock
<1>3. ASSUME NEW s \in Slot(m), Stored(m, s), s \notin DOMAIN next.env
      PROVE  Unstored(m, next, s)
  <2>1. Unstored(m, fr, s)
    BY <1>3 DEF FrameFits, Covered
  <2>2. ~ IsStore(m.blocks[fr.block][fr.pc], s)
    BY <1>3
  <2>3. \A n \in 1 .. next.pc - 1 : n \in 1 .. fr.pc - 1 \/ n = fr.pc
    BY <1>1
  <2> QED BY <2>1, <2>2, <2>3 DEF Unstored
<1> QED BY <1>1, <1>2, <1>3 DEF FrameFits, Covered

(* A frame jumps.  If it leaves the slot's own block it has passed every   *)
(* store there; if not, the block it enters is reached the same way.       *)
LEMMA FrameJumps ==
    ASSUME NEW m, Shaped(m), Verifies(m), NEW fr, FrameFits(m, fr), NEW next,
           m.blocks[fr.block][fr.pc].op \in {"br", "condbr"},
           IsFrame(next), next.block \in Targets(m.blocks[fr.block][fr.pc]), next.pc = 1,
           next.env = fr.env
    PROVE  FrameFits(m, next)
<1> DEFINE b == fr.block
           c == next.block
           entry == EntryOf(m, b)
<1>1. /\ b \in Block(m) /\ m.fn[b] \in 1 .. Len(m.funs)
      /\ fr.pc \in 1 .. Len(m.blocks[b])
  BY DEF FrameFits
<1>2. fr.pc = Len(m.blocks[b])
  BY <1>1, VerifiedBlock DEF Terminators
<1>3. c \in Successors(m.blocks[b])
  BY <1>2 DEF Successors, Last
<1>4. c \in Block(m) /\ m.fn[c] = m.fn[b]
  BY <1>1, <1>3, VerifiedBlock
<1>5. next.pc \in 1 .. Len(m.blocks[c])
  BY <1>4, VerifiedBlock
<1>6. EntryOf(m, c) = entry
  BY <1>4 DEF EntryOf
<1>7. ASSUME NEW s \in Slot(m), Stored(m, s), s \notin DOMAIN next.env
      PROVE  Unstored(m, next, s)
  <2> DEFINE d == m.slots[s].b
  <2>1. Unstored(m, fr, s)
    BY <1>7 DEF FrameFits, Covered
  <2>2. CASE c = d
    <3>1. \A n \in 1 .. next.pc - 1 : FALSE
      OBVIOUS
    <3> QED BY <2>2, <3>1 DEF Unstored
  <2>3. b # d
    <3> SUFFICES ASSUME b = d PROVE FALSE
      OBVIOUS
    <3>1. PICK n \in 1 .. Len(m.blocks[b]) : IsStore(m.blocks[b][n], s)
      BY <1>7 DEF Stored, Home
    <3>2. n = fr.pc \/ n \in 1 .. fr.pc - 1
      BY <1>1, <1>2
    <3>3. ~ IsStore(m.blocks[b][fr.pc], s)
      BY DEF IsStore
    <3> QED BY <2>1, <3>1, <3>2, <3>3 DEF Unstored
  <2>4. CASE c # d
    <3>1. b \in Avoiding(m.blocks, entry, d)
      BY <2>1, <2>3 DEF Unstored
    <3>2. c \in Avoiding(m.blocks, entry, d)
      <4>1. entry \in Block(m) /\ Len(m.blocks) \in Nat
        BY <1>1, ListLength DEF Shaped, Formed, EntryOf
      <4>2. \A e \in Block(m) : Successors(m.blocks[e]) \subseteq Block(m)
        BY VerifiedBlock
      <4> HIDE DEF b, c, d, entry
      <4> QED BY <1>3, <2>4, <3>1, <4>1, <4>2, AvoidingIsClosed DEF Block
    <3> QED BY <1>6, <2>4, <3>2 DEF Unstored
  <2> QED BY <2>2, <2>4
<1> QED BY <1>1, <1>4, <1>5, <1>7 DEF FrameFits, Covered

(* A frame starts at the entry of a function.                              *)
LEMMA FrameStarts ==
    ASSUME NEW m, Shaped(m), Verifies(m), NEW fr, NEW f \in 1 .. Len(m.funs),
           IsFrame(fr), fr.block = m.funs[f].entry, fr.pc = 1
    PROVE  FrameFits(m, fr)
<1>1. fr.block \in Block(m) /\ m.fn[fr.block] = f
  BY DEF Shaped, Formed
<1>2. fr.pc \in 1 .. Len(m.blocks[fr.block])
  BY <1>1, VerifiedBlock
<1>3. EntryOf(m, fr.block) = fr.block
  BY <1>1 DEF EntryOf
<1>4. ASSUME NEW s \in Slot(m) PROVE Unstored(m, fr, s)
  <2> DEFINE d == m.slots[s].b
  <2>1. CASE fr.block = d
    <3>1. \A n \in 1 .. fr.pc - 1 : FALSE
      OBVIOUS
    <3> QED BY <2>1, <3>1 DEF Unstored
  <2>2. CASE fr.block # d
    <3>1. Len(m.blocks) \in Nat
      BY ListLength DEF Shaped, Formed
    <3>2. \A e \in Block(m) : Successors(m.blocks[e]) \subseteq Block(m)
      BY VerifiedBlock
    <3>3. fr.block \in Avoiding(m.blocks, fr.block, d)
      <4> HIDE DEF d
      <4> QED BY <1>1, <2>2, <3>1, <3>2, AvoidingIsClosed DEF Block
    <3> QED BY <1>3, <2>2, <3>3 DEF Unstored
  <2> QED BY <2>1, <2>2
<1> QED BY <1>1, <1>2, <1>4 DEF FrameFits, Covered

(* An element in front of a list.                                          *)
LEMMA PutInFront ==
    ASSUME NEW e, NEW s, IsList(s)
    PROVE  /\ IsList(<<e>> \o s) /\ <<e>> \o s # <<>>
           /\ Len(<<e>> \o s) = Len(s) + 1
           /\ (<<e>> \o s)[1] = e
           /\ \A i \in 1 .. Len(s) : (<<e>> \o s)[i + 1] = s[i]
<1>1. <<e>> \in Seq({e}) /\ Len(<<e>>) = 1 /\ <<e>>[1] = e
  OBVIOUS
<1>2. IsList(<<e>>)
  BY <1>1, SeqIsList
<1> DEFINE a == <<e>>
           r == a \o s
<1>0. a[1] = e /\ Len(a) = 1 /\ IsList(a) /\ Len(s) \in Nat
  BY <1>1, <1>2, ListLength
<1> HIDE DEF a
<1>3. /\ IsList(r) /\ Len(r) = Len(a) + Len(s)
      /\ \A i \in 1 .. Len(a) : r[i] = a[i]
      /\ \A i \in 1 .. Len(s) : r[Len(a) + i] = s[i]
  <2>1. IsList(a)
    BY <1>0
  <2> QED BY <2>1, ConcatLists
<1> HIDE DEF r
<1>4. Len(r) = Len(s) + 1
  BY <1>0, <1>3
<1>5. r[1] = e
  BY <1>0, <1>3
<1>6. \A i \in 1 .. Len(s) : r[i + 1] = s[i]
  <2> SUFFICES ASSUME NEW i \in 1 .. Len(s) PROVE r[i + 1] = s[i]
    OBVIOUS
  <2>1. Len(a) + i = i + 1
    BY <1>0
  <2> QED BY <1>3, <2>1
<1>7. r # <<>>
  <2>1. Len(<<>>) = 0
    OBVIOUS
  <2> QED BY <1>0, <1>4, <2>1
<1> QED BY <1>3, <1>4, <1>5, <1>6, <1>7 DEF a, r

(* A call puts a frame on the stack.                                       *)
LEMMA EntersFrame ==
    ASSUME NEW m, NEW fs, FramesFit(m, fs), NEW fr, FrameFits(m, fr), Calls(m, Head(fs))
    PROVE  FramesFit(m, <<fr>> \o fs)
<1> DEFINE r == <<fr>> \o fs
<1>1. IsList(fs) /\ Len(fs) \in Nat /\ Head(fs) = fs[1]
  BY ListLength, TailOfList DEF FramesFit
<1>2. /\ IsList(r) /\ r # <<>> /\ Len(r) = Len(fs) + 1 /\ r[1] = fr
      /\ \A i \in 1 .. Len(fs) : r[i + 1] = fs[i]
  BY <1>1, PutInFront
<1> HIDE DEF r
<1>3. ASSUME NEW j \in 2 .. Len(r) PROVE FrameFits(m, r[j]) /\ Calls(m, r[j])
  <2>1. j - 1 \in 1 .. Len(fs) /\ r[j] = fs[j - 1]
    <3>1. j - 1 \in 1 .. Len(fs) /\ (j - 1) + 1 = j
      BY <1>1, <1>2
    <3> QED BY <1>2, <3>1
  <2>2. j - 1 = 1 \/ j - 1 \in 2 .. Len(fs)
    BY <2>1
  <2> QED BY <1>1, <2>1, <2>2 DEF FramesFit
<1>4. \A j \in 1 .. Len(r) : j = 1 \/ j \in 2 .. Len(r)
  BY <1>1, <1>2
<1>5. FramesFit(m, r)
  BY <1>2, <1>3, <1>4 DEF FramesFit
<1> QED BY <1>5 DEF r

(* The innermost frame of a stack is replaced.                             *)
LEMMA ReplacesTop ==
    ASSUME NEW m, NEW fs, FramesFit(m, fs), NEW fr, FrameFits(m, fr)
    PROVE  FramesFit(m, <<fr>> \o Tail(fs))
<1> DEFINE t == Tail(fs)
           r == <<fr>> \o t
<1>1. /\ IsList(t) /\ Len(fs) \in Nat /\ Len(t) = Len(fs) - 1 /\ Len(fs) >= 1
      /\ \A i \in 1 .. Len(fs) - 1 : t[i] = fs[i + 1]
  BY ListLength, TailOfList DEF FramesFit
<1> HIDE DEF t
<1>2. /\ IsList(r) /\ r # <<>> /\ Len(r) = Len(t) + 1 /\ r[1] = fr
      /\ \A i \in 1 .. Len(t) : r[i + 1] = t[i]
  BY <1>1, PutInFront
<1> HIDE DEF r
<1>3. ASSUME NEW j \in 2 .. Len(r) PROVE FrameFits(m, r[j]) /\ Calls(m, r[j])
  <2>1. j - 1 \in 1 .. Len(t) /\ (j - 1) + 1 = j /\ j - 1 \in 1 .. Len(fs) - 1
    BY <1>1, <1>2
  <2>2. r[j] = fs[j]
    BY <1>1, <1>2, <2>1
  <2>3. j \in 1 .. Len(fs) /\ j \in 2 .. Len(fs)
    BY <1>1, <1>2
  <2> QED BY <2>2, <2>3 DEF FramesFit
<1>4. \A j \in 1 .. Len(r) : j = 1 \/ j \in 2 .. Len(r)
  BY <1>1, <1>2
<1>5. FramesFit(m, r)
  BY <1>2, <1>3, <1>4 DEF FramesFit
<1> QED BY <1>5 DEF r, t

(* A stack without its innermost frame.                                    *)
LEMMA LeavesFrame ==
    ASSUME NEW m, NEW fs, FramesFit(m, fs), Tail(fs) # <<>>
    PROVE  FramesFit(m, Tail(fs)) /\ Calls(m, Head(Tail(fs)))
<1> DEFINE t == Tail(fs)
<1>1. /\ IsList(t) /\ Len(fs) \in Nat /\ Len(t) = Len(fs) - 1 /\ Len(fs) >= 1
      /\ \A i \in 1 .. Len(fs) - 1 : t[i] = fs[i + 1]
  BY ListLength, TailOfList DEF FramesFit
<1>2. Len(t) >= 1 /\ Head(t) = t[1]
  BY <1>1, TailOfList
<1> HIDE DEF t
<1>3. ASSUME NEW j \in 1 .. Len(t) PROVE FrameFits(m, t[j]) /\ Calls(m, t[j])
  <2>1. t[j] = fs[j + 1] /\ j + 1 \in 1 .. Len(fs) /\ j + 1 \in 2 .. Len(fs)
    BY <1>1
  <2> QED BY <2>1 DEF FramesFit
<1>4. 1 \in 1 .. Len(t) /\ \A j \in 2 .. Len(t) : j \in 1 .. Len(t)
  BY <1>1, <1>2
<1>5. FramesFit(m, t) /\ Calls(m, Head(t))
  BY <1>1, <1>2, <1>3, <1>4 DEF FramesFit, t
<1> QED BY <1>5 DEF t

(* The fields of a frame after a step.                                     *)
LEMMA FrameSteps ==
    ASSUME NEW fr, IsFrame(fr), NEW x, NEW slot, NEW to
    PROVE  /\ LET h == On(fr)
              IN  IsFrame(h) /\ h.block = fr.block /\ h.pc = fr.pc + 1 /\ h.env = fr.env
           /\ LET h == WithResult(fr, x)
              IN  IsFrame(h) /\ h.block = fr.block /\ h.pc = fr.pc + 1 /\ h.env = fr.env
           /\ LET h == WithStored(fr, slot, x)
              IN  /\ IsFrame(h) /\ h.block = fr.block /\ h.pc = fr.pc + 1
                  /\ DOMAIN h.env = DOMAIN fr.env \union {slot}
           /\ LET h == Jump(fr, to)
              IN  IsFrame(h) /\ h.block = to /\ h.pc = 1 /\ h.env = fr.env
<1> DEFINE n == On(fr)
           k == g.blocks[fr.block][fr.pc].to
           w == WithResult(fr, x)
           u == WithStored(fr, slot, x)
           j == Jump(fr, to)
<1>1. IsFrame(n) /\ n.block = fr.block /\ n.pc = fr.pc + 1 /\ n.env = fr.env
  BY DEF IsFrame, On
<1>2. w = [n EXCEPT !.temps = Put(n.temps, k, x)] /\ u = [n EXCEPT !.env = Put(n.env, slot, x)]
  BY DEF WithResult, WithStored
<1>3. IsFrame(j) /\ j.block = to /\ j.pc = 1 /\ j.env = fr.env
  <2> DEFINE a == [fr EXCEPT !.block = to]
  <2>1. IsFrame(a) /\ a.block = to /\ a.env = fr.env
    BY DEF IsFrame
  <2>2. j = [a EXCEPT !.pc = 1]
    BY DEF Jump
  <2> HIDE DEF a, j
  <2> QED BY <2>1, <2>2 DEF IsFrame
<1> HIDE DEF n, k, w, u, j
<1>4. IsFrame(w) /\ w.block = n.block /\ w.pc = n.pc /\ w.env = n.env
  BY <1>1, <1>2 DEF IsFrame
<1>5. IsFrame(u) /\ u.block = n.block /\ u.pc = n.pc /\ u.env = Put(n.env, slot, x)
  BY <1>1, <1>2 DEF IsFrame
<1>6. DOMAIN u.env = DOMAIN fr.env \union {slot}
  BY <1>1, <1>5 DEF Put
<1> QED BY <1>1, <1>3, <1>4, <1>5, <1>6 DEF n, w, u, j

(* Every instruction keeps the frames fitting.                             *)
LEMMA ExecuteKeepsFrames ==
    ASSUME phase = "running", Shaped(g), LoadsFollowStores(g), Verifies(g),
           FramesFit(g, frames), Execute, phase' = "running"
    PROVE  FramesFit(g, frames')
<1> DEFINE i == Instr
<1>1. FrameFits(g, Top)
  <2>1. Len(frames) \in Nat /\ Len(frames) >= 1 /\ Top = frames[1]
    BY ListLength, TailOfList DEF FramesFit, Top
  <2>2. 1 \in 1 .. Len(frames)
    BY <2>1
  <2> QED BY <2>1, <2>2 DEF FramesFit
<1>2. IsFrame(Top) /\ Instr = g.blocks[Top.block][Top.pc]
  BY <1>1 DEF FrameFits, Instr
<1>3. ASSUME NEW fr, FrameFits(g, fr), frames' = <<fr>> \o Callers
      PROVE  FramesFit(g, frames')
  BY <1>3, ReplacesTop DEF Callers
<1>4. FrameFits(g, On(Top)) \/ Instr.op \in Terminators \/ Instr.op = "store"
  <2> DEFINE fr == On(Top)
  <2>1. IsFrame(fr) /\ fr.block = Top.block /\ fr.pc = Top.pc + 1 /\ fr.env = Top.env
    BY <1>2, FrameSteps
  <2> HIDE DEF fr
  <2>2. Instr.op \notin Terminators /\ Instr.op # "store" => FrameFits(g, fr)
    BY <1>1, <1>2, <2>1, FrameGoesOn DEF IsStore
  <2> QED BY <2>2 DEF fr
<1>5. ASSUME NEW x, Instr.op \notin Terminators, Instr.op # "store"
      PROVE  FrameFits(g, WithResult(Top, x))
  <2> DEFINE fr == WithResult(Top, x)
  <2>1. IsFrame(fr) /\ fr.block = Top.block /\ fr.pc = Top.pc + 1 /\ fr.env = Top.env
    BY <1>2, FrameSteps
  <2> HIDE DEF fr
  <2>2. FrameFits(g, fr)
    BY <1>1, <1>2, <1>5, <2>1, FrameGoesOn DEF IsStore
  <2> QED BY <2>2 DEF fr
<1>6. CASE ExecAlloca
  BY <1>3, <1>4, <1>6 DEF ExecAlloca, GoesTo, Terminators
<1>7. ASSUME NEW junk \in Junk, ExecLoad(junk) PROVE FramesFit(g, frames')
  BY <1>3, <1>5, <1>7 DEF ExecLoad, GoesTo, Terminators
<1>8. CASE ExecStore
  <2> DEFINE x == Holding(Instr.e)
             fr == WithStored(Top, Instr.slot, x)
  <2>1. Instr.op = "store" /\ frames' = <<fr>> \o Callers
    BY <1>8 DEF ExecStore, GoesTo
  <2> HIDE DEF x
  <2>2. /\ IsFrame(fr) /\ fr.block = Top.block /\ fr.pc = Top.pc + 1
        /\ DOMAIN fr.env = DOMAIN Top.env \union {Instr.slot}
    BY <1>2, FrameSteps
  <2> HIDE DEF fr
  <2>4. FrameFits(g, fr)
    BY <1>1, <1>2, <2>1, <2>2, FrameGoesOn DEF IsStore, Terminators
  <2> QED BY <1>3, <2>1, <2>4
<1>9. CASE ExecOperation
  BY <1>3, <1>5, <1>9 DEF ExecOperation, GoesTo, Terminators
<1>10. CASE ExecCall
  <2> DEFINE args == [j \in DOMAIN Instr.args |-> Holding(Instr.args[j])]
             fr == Frame(Instr.f, args)
  <2>1. Instr.op = "call" /\ frames' = <<fr>> \o frames
    BY <1>10 DEF ExecCall
  <2>2. Instr.f \in 1 .. Len(g.funs)
    <3>1. DOMAIN g.blocks = Block(g) /\ DOMAIN g.funs = 1 .. Len(g.funs)
          /\ DOMAIN g.blocks[Top.block] = 1 .. Len(g.blocks[Top.block])
      BY <1>1, ListLength DEF Shaped, Formed, Block, FrameFits
    <3>2. Fits(g, Instr, g.fn[Top.block])
      BY <1>1, <1>2, <3>1 DEF Verifies, FrameFits
    <3> QED BY <2>1, <3>1, <3>2 DEF Fits
  <2> HIDE DEF args
  <2>3. IsFrame(fr) /\ fr.block = g.funs[Instr.f].entry /\ fr.pc = 1
    BY DEF IsFrame, Frame
  <2> HIDE DEF fr
  <2>4. FrameFits(g, fr)
    BY <2>2, <2>3, FrameStarts
  <2>5. Calls(g, Head(frames))
    BY <1>2, <2>1 DEF Calls, Top
  <2> QED BY <2>1, <2>4, <2>5, EntersFrame
<1>11. CASE ExecDraw
  BY <1>3, <1>5, <1>11 DEF ExecDraw, GoesTo, Terminators
<1>12. CASE ExecWrite
  BY <1>3, <1>4, <1>12 DEF ExecWrite, GoesTo, Terminators
<1>13. CASE ExecBranch
  <2>1. PICK to \in Targets(Instr) :
           Instr.op \in {"br", "condbr"} /\ frames' = <<Jump(Top, to)>> \o Callers
    BY <1>13 DEF ExecBranch, GoesTo, Targets
  <2> DEFINE fr == Jump(Top, to)
  <2>2. IsFrame(fr) /\ fr.block = to /\ fr.pc = 1 /\ fr.env = Top.env
    BY <1>2, FrameSteps
  <2> HIDE DEF fr
  <2>3. FrameFits(g, fr)
    BY <1>1, <1>2, <2>1, <2>2, FrameJumps
  <2> QED BY <1>3, <2>1, <2>3 DEF fr
<1>14. CASE ExecRet
  <2> DEFINE caller == Head(Callers)
             x == Holding(Instr.e)
             fr == WithResult(caller, x)
  <2>1. Callers # <<>> /\ frames' = <<fr>> \o Tail(Callers)
    BY <1>14 DEF ExecRet
  <2>2. FramesFit(g, Callers) /\ Calls(g, caller)
    BY <2>1, LeavesFrame DEF Callers
  <2>3. FrameFits(g, caller)
    <3>1. Len(Callers) \in Nat /\ Len(Callers) >= 1 /\ caller = Callers[1]
      BY <2>2, ListLength, TailOfList DEF FramesFit
    <3>2. 1 \in 1 .. Len(Callers)
      BY <3>1
    <3> QED BY <2>2, <3>1, <3>2 DEF FramesFit
  <2> HIDE DEF caller, x
  <2>4. IsFrame(fr) /\ fr.block = caller.block /\ fr.pc = caller.pc + 1
        /\ fr.env = caller.env
    BY <2>3, FrameSteps DEF FrameFits
  <2> HIDE DEF fr
  <2>5. FrameFits(g, fr)
    BY <2>2, <2>3, <2>4, FrameGoesOn DEF IsStore, Calls, Terminators
  <2> QED BY <2>1, <2>2, <2>5, ReplacesTop
<1> QED BY <1>6, <1>7, <1>8, <1>9, <1>10, <1>11, <1>12, <1>13, <1>14 DEF Execute

-----------------------------------------------------------------------------
(* Modules that grow, and their symbols.                                   *)

(* The lengths of the lists of a module are numbers.                       *)
LEMMA FormedLengths ==
    ASSUME NEW m, Formed(m)
    PROVE  /\ Len(m.blocks) \in Nat /\ Len(m.slots) \in Nat /\ Len(m.syms) \in Nat
           /\ Len(m.fn) \in Nat /\ Len(m.funs) \in Nat
           /\ DOMAIN m.blocks = Block(m)
           /\ \A b \in Block(m) : Len(m.blocks[b]) \in Nat
BY ListLength DEF Formed, Block

(* Growth in two steps.                                                    *)
LEMMA GrowsTransitive ==
    ASSUME NEW m, NEW h, NEW k, Formed(m), Formed(h), Formed(k), Grows(m, h), Grows(h, k)
    PROVE  Grows(m, k)
<1>1. /\ Len(m.blocks) \in Nat /\ Len(h.blocks) \in Nat /\ Len(k.blocks) \in Nat
      /\ Len(m.slots) \in Nat /\ Len(h.slots) \in Nat /\ Len(k.slots) \in Nat
  BY FormedLengths
<1>2. Block(m) \subseteq Block(h) /\ Slot(m) \subseteq Slot(h)
  BY <1>1 DEF Block, Slot, Grows
<1>3. ASSUME NEW b \in Block(m)
      PROVE  /\ Len(m.blocks[b]) <= Len(k.blocks[b])
             /\ \A n \in 1 .. Len(m.blocks[b]) : k.blocks[b][n] = m.blocks[b][n]
  <2>1. b \in Block(h) /\ b \in Block(k)
    BY <1>1, <1>2 DEF Grows, Block
  <2>2. Len(m.blocks[b]) \in Nat /\ Len(h.blocks[b]) \in Nat /\ Len(k.blocks[b]) \in Nat
    BY <2>1, FormedLengths
  <2>3. Len(m.blocks[b]) <= Len(h.blocks[b]) /\ Len(h.blocks[b]) <= Len(k.blocks[b])
    BY <2>1 DEF Grows
  <2>4. \A n \in 1 .. Len(m.blocks[b]) : n \in 1 .. Len(h.blocks[b])
    BY <2>2, <2>3
  <2>5. \A n \in 1 .. Len(m.blocks[b]) : h.blocks[b][n] = m.blocks[b][n]
    BY DEF Grows
  <2>6. \A n \in 1 .. Len(h.blocks[b]) : k.blocks[b][n] = h.blocks[b][n]
    BY <2>1 DEF Grows
  <2> QED BY <2>2, <2>3, <2>4, <2>5, <2>6
<1>4. \A s \in Slot(m) : k.slots[s] = m.slots[s]
  BY <1>2 DEF Grows
<1>5. Len(m.blocks) <= Len(k.blocks) /\ Len(m.slots) <= Len(k.slots)
  BY <1>1 DEF Grows
<1>6. \A v : SlotOf(m, v) # 0 => SlotOf(k, v) # 0
  BY DEF Grows
<1>7. k.flaws = {} => m.flaws = {}
  BY DEF Grows
<1> QED BY <1>3, <1>4, <1>5, <1>6, <1>7 DEF Grows

(* A slot stays stored to, and a store stays before a load.                *)
LEMMA StoredKept ==
    ASSUME NEW m, NEW h, Formed(m), Formed(h), Grows(m, h), NEW s, NEW b, NEW n
    PROVE  /\ Stored(m, s) => Stored(h, s)
           /\ StoredBefore(m, s, b, n) => StoredBefore(h, s, b, n)
<1> DEFINE d == m.slots[s].b
<1>1. ASSUME s \in Slot(m)
      PROVE  /\ s \in Slot(h) /\ h.slots[s] = m.slots[s] /\ d \in Block(m)
             /\ Home(h, s) = h.blocks[d] /\ Home(m, s) = m.blocks[d]
  BY <1>1, FormedLengths DEF Slot, Grows, Home, Formed
<1>2. ASSUME s \in Slot(m)
      PROVE  \A k \in 1 .. Len(Home(m, s)) :
                k \in 1 .. Len(Home(h, s)) /\ Home(h, s)[k] = Home(m, s)[k]
  <2>1. d \in Block(m) /\ d \in Block(h)
    BY <1>1, <1>2, FormedLengths DEF Grows, Block
  <2>2. Len(m.blocks[d]) \in Nat /\ Len(h.blocks[d]) \in Nat
    BY <2>1, FormedLengths
  <2> HIDE DEF d
  <2> QED BY <1>1, <1>2, <2>1, <2>2 DEF Grows
<1>3. ASSUME Stored(m, s) PROVE Stored(h, s)
  BY <1>1, <1>2, <1>3 DEF Stored
<1>4. ASSUME StoredBefore(m, s, b, n) PROVE StoredBefore(h, s, b, n)
  <2>1. s \in Slot(m)
    BY <1>4 DEF StoredBefore
  <2> QED BY <1>1, <1>2, <1>4, <2>1 DEF StoredBefore
<1> QED BY <1>3, <1>4

(* What an activation needs is not taken away.                             *)
LEMMA PossibleKept ==
    ASSUME NEW m, NEW h, Formed(m), Formed(h), Grows(m, h), NEW item, Possible(m, item)
    PROVE  Possible(h, item)
<1>1. Block(m) \subseteq Block(h)
  BY FormedLengths DEF Block, Grows
<1> QED BY <1>1 DEF Possible, Grows

(* The index of a name is that of its first entry.                         *)
LEMMA SymbolIndexFinds ==
    ASSUME NEW m, IsList(m.syms), NEW name
    PROVE  LET k == SymbolIndex(m, name)
           IN  /\ k \in 0 .. Len(m.syms)
               /\ k # 0 => m.syms[k].name = name
               /\ \A j \in 1 .. Len(m.syms) : m.syms[j].name = name => k # 0 /\ k <= j
<1> DEFINE Found == {i \in 1 .. Len(m.syms) : m.syms[i].name = name}
<1>1. SymbolIndex(m, name) = IF Found # {} THEN Min(Found) ELSE 0
  BY DEF SymbolIndex, SelectInSeq
<1>2. Found \in SUBSET Nat /\ 0 \notin Found
  OBVIOUS
<1>3. Found # {} => Min(Found) \in Found /\ \A k \in Found : Min(Found) <= k
  <2> HIDE DEF Found
  <2>1. Found # {} => \E x \in Found : \A k \in Found : x <= k
    BY <1>2, LeastNatural
  <2> QED BY <2>1 DEF Min
<1>4. /\ \A i \in Found : i \in 1 .. Len(m.syms) /\ m.syms[i].name = name
      /\ \A i \in 1 .. Len(m.syms) : m.syms[i].name = name => i \in Found
  OBVIOUS
<1>5. Len(m.syms) \in Nat
  BY ListLength
<1> HIDE DEF Found
<1>6. CASE Found = {}
  BY <1>1, <1>4, <1>5, <1>6
<1>7. CASE Found # {}
  <2>1. SymbolIndex(m, name) \in Found /\ \A k \in Found : SymbolIndex(m, name) <= k
    BY <1>1, <1>3, <1>7
  <2> QED BY <1>4, <1>5, <2>1
<1> QED BY <1>6, <1>7

(* The index of a name does not change when symbols are added behind.      *)
LEMMA SymbolIndexKept ==
    ASSUME NEW m, NEW h, IsList(m.syms), IsList(h.syms), Len(m.syms) <= Len(h.syms),
           \A j \in 1 .. Len(m.syms) : h.syms[j].name = m.syms[j].name,
           NEW name, SymbolIndex(m, name) # 0
    PROVE  SymbolIndex(h, name) = SymbolIndex(m, name)
<1> DEFINE k == SymbolIndex(m, name)
           j == SymbolIndex(h, name)
<1>1. Len(m.syms) \in Nat /\ Len(h.syms) \in Nat
  BY ListLength
<1>2. /\ k \in 1 .. Len(m.syms) /\ m.syms[k].name = name
      /\ \A i \in 1 .. Len(m.syms) : m.syms[i].name = name => k <= i
  BY SymbolIndexFinds
<1>3. /\ j \in 0 .. Len(h.syms) /\ (j # 0 => h.syms[j].name = name)
      /\ \A i \in 1 .. Len(h.syms) : h.syms[i].name = name => j # 0 /\ j <= i
  BY SymbolIndexFinds
<1> HIDE DEF k, j
<1>4. k \in 1 .. Len(h.syms) /\ h.syms[k].name = name
  BY <1>1, <1>2
<1>5. j # 0 /\ j <= k /\ j \in 1 .. Len(m.syms)
  BY <1>1, <1>2, <1>3, <1>4
<1>6. k <= j
  BY <1>2, <1>3, <1>5
<1>7. j = k
  BY <1>1, <1>2, <1>3, <1>5, <1>6
<1> QED BY <1>7 DEF j, k

(* Modules with the same symbols find the same memory.                     *)
LEMMA SameSymbols ==
    ASSUME NEW m, NEW h, h.syms = m.syms, NEW v
    PROVE  SymbolIndex(h, v) = SymbolIndex(m, v) /\ SlotOf(h, v) = SlotOf(m, v)
<1>1. SymbolIndex(h, v) = SymbolIndex(m, v)
  BY DEF SymbolIndex, SelectInSeq
<1> QED BY <1>1 DEF SlotOf, Declared

(* A module that differs from m in nothing the invariant speaks of.        *)
Alike(m, h) ==
    /\ IsModule(h) /\ h.blocks = m.blocks /\ h.fn = m.fn /\ h.slots = m.slots
    /\ h.syms = m.syms /\ h.cur = m.cur /\ h.funs = m.funs /\ h.fresh = m.fresh
    /\ h.flaws = m.flaws

(* Whether slots are stored to, and loads follow, is a matter of the       *)
(* blocks and slots alone.                                                 *)
LEMMA SameCode ==
    ASSUME NEW m, NEW h, h.blocks = m.blocks, h.slots = m.slots
    PROVE  /\ \A s : Stored(m, s) <=> Stored(h, s)
           /\ LoadsFollowStores(m) <=> LoadsFollowStores(h)
<1>1. \A s : Stored(m, s) <=> Stored(h, s)
  BY DEF Stored, Slot, Home
<1>2. \A s, b, n : StoredBefore(m, s, b, n) <=> StoredBefore(h, s, b, n)
  BY DEF StoredBefore, Slot, Home
<1> QED BY <1>1, <1>2 DEF LoadsFollowStores, Block

(* A module with the same code and symbols, and no flaw lost.              *)
LEMMA GrowsReflexive ==
    ASSUME NEW m, NEW h, Formed(m), h.blocks = m.blocks, h.slots = m.slots, h.syms = m.syms,
           h.flaws = {} => m.flaws = {}
    PROVE  Grows(m, h)
<1>1. \A v : SlotOf(h, v) = SlotOf(m, v)
  BY SameSymbols
<1> QED BY <1>1, FormedLengths DEF Grows

(* Alike modules are as good as each other.                                *)
LEMMA AlikeForm ==
    ASSUME NEW m, NEW h, Formed(m), Sound(m), Alike(m, h)
    PROVE  Formed(h) /\ Sound(h) /\ Grows(m, h)
<1>1. Formed(h)
  BY DEF Alike, Formed, Block, Slot
<1>2. Sound(h)
  <2>1. /\ \A s : Stored(m, s) <=> Stored(h, s)
        /\ LoadsFollowStores(m) <=> LoadsFollowStores(h)
    BY SameCode DEF Alike
  <2>2. SymbolsAreStored(m) => SymbolsAreStored(h)
    BY <2>1 DEF SymbolsAreStored, Alike, Opaque
  <2>3. FreshIsHere(m) => FreshIsHere(h)
    BY DEF FreshIsHere, Alike
  <2> QED BY <2>1, <2>2, <2>3 DEF Sound, Alike
<1>3. Grows(m, h)
  BY GrowsReflexive DEF Alike
<1> QED BY <1>1, <1>2, <1>3

(* The same where the builder stands in a block.                           *)
LEMMA AlikeGood ==
    ASSUME NEW m, NEW h, Good(m), Alike(m, h)
    PROVE  Good(h) /\ Grows(m, h)
BY AlikeForm DEF Good, Shaped, Alike, Block

(* What an emitted instruction changes.                                    *)
LEMMA EmittedParts ==
    ASSUME NEW m, IsModule(m), NEW i
    PROVE  LET h == Emitted(m, i)
           IN  /\ IsModule(h)
               /\ h.blocks = [m.blocks EXCEPT ![m.cur] = Append(m.blocks[m.cur], i)]
               /\ h.fn = m.fn /\ h.slots = m.slots /\ h.syms = m.syms /\ h.cur = m.cur
               /\ h.funs = m.funs /\ h.fresh = m.fresh /\ h.flaws = m.flaws
BY DEF IsModule, Emitted

(* The instruction i stands at the end of the builder's block.             *)
AddsInstruction(m, h, i) ==
    /\ Len(h.blocks) = Len(m.blocks)
    /\ Len(h.blocks[m.cur]) = Len(m.blocks[m.cur]) + 1
    /\ h.blocks[m.cur][Len(m.blocks[m.cur]) + 1] = i
    /\ \A n \in 1 .. Len(m.blocks[m.cur]) : h.blocks[m.cur][n] = m.blocks[m.cur][n]
    /\ \A b \in Block(m) : b # m.cur => h.blocks[b] = m.blocks[b]

(* The blocks after an instruction has been emitted.                       *)
LEMMA BlocksAfterEmitted ==
    ASSUME NEW m, Shaped(m), NEW h, NEW i,
           h.blocks = [m.blocks EXCEPT ![m.cur] = Append(m.blocks[m.cur], i)]
    PROVE  /\ IsList(h.blocks) /\ AddsInstruction(m, h, i)
           /\ \A b \in Block(h) : IsList(h.blocks[b])
<1> DEFINE q == m.blocks[m.cur]
           r == Append(q, i)
<1>0. m.cur \in Block(m) /\ IsList(m.blocks) /\ IsList(q) /\ \A b \in Block(m) : IsList(m.blocks[b])
  BY DEF Shaped, Formed
<1>1. IsList(r) /\ Len(r) = Len(q) + 1 /\ r[Len(q) + 1] = i /\ \A n \in 1 .. Len(q) : r[n] = q[n]
  BY <1>0, AppendToList
<1> HIDE DEF r
<1>2. h.blocks = [m.blocks EXCEPT ![m.cur] = r]
  BY DEF r
<1>3. /\ IsList(h.blocks) /\ Len(h.blocks) = Len(m.blocks)
      /\ \A b \in 1 .. Len(m.blocks) : h.blocks[b] = IF b = m.cur THEN r ELSE m.blocks[b]
  <2> DEFINE e == [m.blocks EXCEPT ![m.cur] = r]
  <2>1. IsList(m.blocks)
    BY <1>0
  <2>2. IsList(e) /\ Len(e) = Len(m.blocks)
    BY <2>1, ChangeList
  <2>3. \A b \in 1 .. Len(m.blocks) : e[b] = IF b = m.cur THEN r ELSE m.blocks[b]
    BY <2>1, ChangeList
  <2> QED BY <1>2, <2>2, <2>3
<1>4. Block(h) = Block(m) /\ h.blocks[m.cur] = r
  BY <1>0, <1>3 DEF Block
<1>5. \A b \in Block(h) : IsList(h.blocks[b])
  BY <1>0, <1>1, <1>3, <1>4 DEF Block
<1>6. \A b \in Block(m) : b # m.cur => h.blocks[b] = m.blocks[b]
  BY <1>3 DEF Block
<1> QED BY <1>1, <1>3, <1>4, <1>5, <1>6 DEF AddsInstruction

(* A block that has a new instruction has kept the others.                 *)
LEMMA InstructionAdded ==
    ASSUME NEW m, Shaped(m), NEW h, NEW i, AddsInstruction(m, h, i)
    PROVE  /\ Block(h) = Block(m)
           /\ \A b \in Block(m) :
                 /\ Len(m.blocks[b]) <= Len(h.blocks[b])
                 /\ \A n \in 1 .. Len(m.blocks[b]) : h.blocks[b][n] = m.blocks[b][n]
                 /\ \A n \in 1 .. Len(h.blocks[b]) :
                       \/ n \in 1 .. Len(m.blocks[b])
                       \/ b = m.cur /\ n = Len(m.blocks[b]) + 1 /\ h.blocks[b][n] = i
<1>1. Block(h) = Block(m)
  BY DEF AddsInstruction, Block
<1>2. ASSUME NEW b \in Block(m), NEW q, NEW r, q = m.blocks[b], r = h.blocks[b]
      PROVE  /\ Len(q) <= Len(r)
             /\ \A n \in 1 .. Len(q) : r[n] = q[n]
             /\ \A n \in 1 .. Len(r) :
                   n \in 1 .. Len(q) \/ (b = m.cur /\ n = Len(q) + 1 /\ r[n] = i)
  <2>1. Len(q) \in Nat
    BY <1>2, FormedLengths DEF Shaped
  <2>2. CASE b = m.cur
    <3>1. /\ Len(r) = Len(q) + 1 /\ r[Len(q) + 1] = i
          /\ \A n \in 1 .. Len(q) : r[n] = q[n]
      BY <1>2, <2>2 DEF AddsInstruction
    <3> QED BY <2>1, <2>2, <3>1
  <2>3. CASE b # m.cur
    <3>1. r = q
      BY <1>2, <2>3 DEF AddsInstruction
    <3> QED BY <2>1, <3>1
  <2> QED BY <2>2, <2>3
<1> QED BY <1>1, <1>2

(* Emitting an instruction keeps the shape, whatever it is.                *)
LEMMA EmittedShape ==
    ASSUME NEW m, Shaped(m), NEW i
    PROVE  LET h == Emitted(m, i)
           IN  Shaped(h) /\ Grows(m, h) /\ AddsInstruction(m, h, i)
<1> DEFINE h == Emitted(m, i)
<1>1. /\ IsModule(h)
      /\ h.blocks = [m.blocks EXCEPT ![m.cur] = Append(m.blocks[m.cur], i)]
      /\ h.fn = m.fn /\ h.slots = m.slots /\ h.syms = m.syms /\ h.cur = m.cur
      /\ h.funs = m.funs /\ h.fresh = m.fresh /\ h.flaws = m.flaws
  BY EmittedParts DEF Shaped, Formed
<1> HIDE DEF h
<1>2. /\ IsList(h.blocks) /\ AddsInstruction(m, h, i)
      /\ \A b \in Block(h) : IsList(h.blocks[b])
  BY <1>1, BlocksAfterEmitted
<1>3. Block(h) = Block(m) /\ Slot(h) = Slot(m) /\ Len(h.blocks) = Len(m.blocks)
  BY <1>1, <1>2 DEF Block, Slot, AddsInstruction
<1>4. Shaped(h)
  BY <1>1, <1>2, <1>3 DEF Shaped, Formed
<1>5. \A v : SlotOf(h, v) = SlotOf(m, v)
  BY <1>1, SameSymbols
<1>6. Grows(m, h)
  <2>1. Len(m.blocks) <= Len(h.blocks) /\ Len(m.slots) <= Len(h.slots)
    BY <1>1, <1>3, FormedLengths DEF Shaped
  <2> QED BY <1>1, <1>2, <1>5, <2>1, InstructionAdded DEF Grows
<1> QED BY <1>2, <1>4, <1>6 DEF h

-----------------------------------------------------------------------------
(* The operations of the generator.                                        *)

(* An instruction keeps a module sound; a load does where its slot has     *)
(* been stored to.                                                         *)
LEMMA EmittedGood ==
    ASSUME NEW m, Good(m), NEW i, m.flaws = {} /\ IsLoad(i) => Stored(m, i.slot)
    PROVE  LET h == Emitted(m, i)
           IN  /\ Good(h) /\ Grows(m, h) /\ AddsInstruction(m, h, i)
               /\ h.slots = m.slots /\ h.syms = m.syms /\ h.cur = m.cur
               /\ h.fresh = m.fresh /\ h.flaws = m.flaws /\ Len(h.blocks) = Len(m.blocks)
<1> DEFINE h == Emitted(m, i)
<1>1. Shaped(m) /\ Formed(m) /\ IsModule(m)
  BY DEF Good, Shaped, Formed
<1>2. Shaped(h) /\ Grows(m, h) /\ AddsInstruction(m, h, i) /\ Formed(h)
  BY <1>1, EmittedShape DEF Shaped
<1>3. /\ h.slots = m.slots /\ h.syms = m.syms /\ h.cur = m.cur
      /\ h.fresh = m.fresh /\ h.flaws = m.flaws
  BY <1>1, EmittedParts
<1> HIDE DEF h
<1>4. ASSUME m.flaws = {}, LoadsFollowStores(m) PROVE LoadsFollowStores(h)
  <2> SUFFICES ASSUME NEW b \in Block(h), NEW n \in 1 .. Len(h.blocks[b]),
                      IsLoad(h.blocks[b][n])
               PROVE  StoredBefore(h, h.blocks[b][n].slot, b, n)
    BY DEF LoadsFollowStores
  <2> DEFINE s == h.blocks[b][n].slot
  <2>1. b \in Block(m)
    BY <1>1, <1>2, InstructionAdded
  <2>2. CASE n \in 1 .. Len(m.blocks[b])
    <3>1. h.blocks[b][n] = m.blocks[b][n]
      BY <1>1, <1>2, <2>1, <2>2, InstructionAdded
    <3>2. StoredBefore(m, s, b, n)
      BY <1>4, <2>1, <2>2, <3>1 DEF LoadsFollowStores
    <3> QED BY <1>1, <1>2, <3>2, StoredKept
  <2>3. CASE b = m.cur /\ n = Len(m.blocks[b]) + 1 /\ h.blocks[b][n] = i
    <3>1. Stored(m, s)
      BY <1>4, <2>3
    <3>2. StoredBefore(m, s, b, n)
      <4>1. s \in Slot(m)
        BY <3>1 DEF Stored
      <4>2. PICK k \in 1 .. Len(Home(m, s)) : IsStore(Home(m, s)[k], s)
        BY <3>1 DEF Stored
      <4>3. b = m.slots[s].b => k < n
        <5>1. Len(m.blocks[b]) \in Nat
          BY <1>1, <2>1, FormedLengths
        <5> QED BY <2>3, <4>2, <5>1 DEF Home
      <4> QED BY <4>1, <4>2, <4>3 DEF StoredBefore
    <3> QED BY <1>1, <1>2, <3>2, StoredKept
  <2> QED BY <1>1, <1>2, <2>1, <2>2, <2>3, InstructionAdded
<1>5. ASSUME SymbolsAreStored(m) PROVE SymbolsAreStored(h)
  BY <1>1, <1>2, <1>3, <1>5, StoredKept DEF SymbolsAreStored, Opaque
<1>6. FreshIsHere(m) => FreshIsHere(h)
  BY <1>3 DEF FreshIsHere
<1>7. Good(h)
  BY <1>2, <1>3, <1>4, <1>5, <1>6 DEF Good, Sound
<1>8. Len(h.blocks) = Len(m.blocks)
  BY <1>2 DEF AddsInstruction
<1> QED BY <1>2, <1>3, <1>7, <1>8 DEF h

(* A flaw takes every promise back.                                        *)
LEMMA FlawedGood ==
    ASSUME NEW m, Shaped(m), NEW h, IsModule(h), h.blocks = m.blocks, h.fn = m.fn,
           h.slots = m.slots, h.syms = m.syms, h.cur = m.cur, h.funs = m.funs,
           h.fresh = m.fresh, h.flaws # {}
    PROVE  Good(h) /\ Grows(m, h)
<1>1. Shaped(h)
  BY DEF Shaped, Formed, Block, Slot
<1>2. Grows(m, h)
  BY GrowsReflexive DEF Shaped
<1> QED BY <1>1, <1>2 DEF Good, Sound

(* A flaw that is noted.                                                   *)
LEMMA FlawGood ==
    ASSUME NEW m, Good(m), NEW what
    PROVE  LET h == Flaw(m, what)
           IN  /\ Good(h) /\ Grows(m, h) /\ h.flaws # {} /\ h.blocks = m.blocks
               /\ h.slots = m.slots /\ h.syms = m.syms /\ h.cur = m.cur /\ h.fresh = m.fresh
<1> DEFINE F == m.flaws \union {what}
           h == Flaw(m, what)
<1>1. h = [m EXCEPT !.flaws = F] /\ F # {}
  BY DEF Flaw
<1> HIDE DEF F, h
<1>2. /\ IsModule(h) /\ h.blocks = m.blocks /\ h.fn = m.fn /\ h.slots = m.slots
      /\ h.syms = m.syms /\ h.cur = m.cur /\ h.funs = m.funs /\ h.fresh = m.fresh
      /\ h.flaws # {}
  BY <1>1 DEF Good, Shaped, Formed, IsModule
<1>3. Good(h) /\ Grows(m, h)
  BY <1>2, FlawedGood DEF Good
<1> QED BY <1>2, <1>3 DEF h

(* The count of temporaries does not matter.                               *)
LEMMA ComputedGood ==
    ASSUME NEW m, Good(m), NEW i, m.flaws = {} /\ IsLoad(i) => Stored(m, i.slot)
    PROVE  LET h == Computed(m, i)
           IN  /\ Good(h) /\ Grows(m, h) /\ h.slots = m.slots /\ h.syms = m.syms
               /\ h.cur = m.cur /\ h.fresh = m.fresh /\ h.flaws = m.flaws
               /\ Len(h.blocks) = Len(m.blocks)
<1> DEFINE e == Emitted(m, i)
           h == Computed(m, i)
<1>1. /\ Good(e) /\ Grows(m, e) /\ e.slots = m.slots /\ e.syms = m.syms /\ e.cur = m.cur
      /\ e.fresh = m.fresh /\ e.flaws = m.flaws /\ Len(e.blocks) = Len(m.blocks)
  BY EmittedGood
<1>2. h = [e EXCEPT !.temps = @ + 1]
  BY DEF Computed
<1> HIDE DEF e, h
<1>3. Alike(e, h)
  BY <1>1, <1>2 DEF Good, Shaped, Formed, IsModule, Alike
<1>4. Good(h) /\ Grows(e, h)
  BY <1>1, <1>3, AlikeGood
<1>5. Grows(m, h)
  BY <1>1, <1>4, GrowsTransitive DEF Good, Shaped
<1> QED BY <1>1, <1>3, <1>4, <1>5 DEF Alike, h

(* A load is sound unless it adds a flaw.                                  *)
LEMMA LoadFromGood ==
    ASSUME NEW m, Good(m), NEW slot, NEW t,
           (m.flaws = {} /\ m.slots[slot].t = t /\ slot # m.fresh) => Stored(m, slot)
    PROVE  LET h == LoadFrom(m, slot, t)
           IN  /\ Good(h) /\ Grows(m, h) /\ h.slots = m.slots /\ h.syms = m.syms
               /\ h.cur = m.cur /\ h.fresh = m.fresh /\ Len(h.blocks) = Len(m.blocks)
<1> DEFINE i == [op |-> "load", slot |-> slot, t |-> t, to |-> NextTemp(m)]
           e == Computed(m, i)
           h == LoadFrom(m, slot, t)
           F == ReadFlaws(m, slot, t)
<1>1. h = [e EXCEPT !.flaws = @ \union F]
  BY DEF LoadFrom
<1>2. i.op = "load" /\ i.slot = slot
  OBVIOUS
<1>3. F = {} => m.slots[slot].t = t /\ slot # m.fresh
  BY DEF ReadFlaws
<1> HIDE DEF i, F
<1>4. CASE F = {}
  <2>1. /\ Good(e) /\ Grows(m, e) /\ e.slots = m.slots /\ e.syms = m.syms /\ e.cur = m.cur
        /\ e.fresh = m.fresh /\ e.flaws = m.flaws /\ Len(e.blocks) = Len(m.blocks)
    BY <1>2, <1>3, <1>4, ComputedGood
  <2> HIDE DEF e, h
  <2>2. Alike(e, h)
    BY <1>1, <1>4, <2>1 DEF Good, Shaped, Formed, IsModule, Alike
  <2>3. Good(h) /\ Grows(e, h)
    BY <2>1, <2>2, AlikeGood
  <2>4. Grows(m, h)
    BY <2>1, <2>3, GrowsTransitive DEF Good, Shaped
  <2> QED BY <2>1, <2>2, <2>3, <2>4 DEF Alike, h
<1>5. CASE F # {}
  <2> DEFINE a == Emitted(m, i)
  <2>1. Shaped(m) /\ Formed(m) /\ IsModule(m)
    BY DEF Good, Shaped, Formed
  <2>2. /\ Shaped(a) /\ Grows(m, a) /\ Len(a.blocks) = Len(m.blocks)
        /\ a.slots = m.slots /\ a.syms = m.syms /\ a.cur = m.cur /\ a.fresh = m.fresh
        /\ a.flaws = m.flaws
    BY <2>1, EmittedShape, EmittedParts DEF AddsInstruction
  <2>3. e = [a EXCEPT !.temps = @ + 1]
    BY DEF Computed
  <2> HIDE DEF a, e, h
  <2>4. /\ IsModule(e) /\ e.blocks = a.blocks /\ e.fn = a.fn /\ e.slots = a.slots
        /\ e.syms = a.syms /\ e.cur = a.cur /\ e.funs = a.funs /\ e.fresh = a.fresh
    BY <2>2, <2>3 DEF Shaped, Formed, IsModule
  <2> DEFINE R == e.flaws \union F
  <2>5. h = [e EXCEPT !.flaws = R] /\ R # {}
    BY <1>1, <1>5
  <2> HIDE DEF R
  <2>6. /\ IsModule(h) /\ h.blocks = a.blocks /\ h.fn = a.fn /\ h.slots = a.slots
        /\ h.syms = a.syms /\ h.cur = a.cur /\ h.funs = a.funs /\ h.fresh = a.fresh
        /\ h.flaws # {}
    BY <2>4, <2>5 DEF IsModule
  <2>7. Good(h) /\ Grows(a, h)
    BY <2>2, <2>6, FlawedGood
  <2>8. Grows(m, h)
    BY <2>1, <2>2, <2>7, GrowsTransitive DEF Good, Shaped
  <2> QED BY <2>2, <2>6, <2>7, <2>8 DEF h
<1> QED BY <1>4, <1>5

(* A store gives the fresh slot its value, where the slot is.              *)
LEMMA StoreToGood ==
    ASSUME NEW m, Good(m), NEW e, NEW slot
    PROVE  LET h == StoreTo(m, e, slot)
           IN  /\ Good(h) /\ Grows(m, h) /\ h.slots = m.slots /\ h.syms = m.syms
               /\ h.cur = m.cur /\ h.flaws = m.flaws /\ Len(h.blocks) = Len(m.blocks)
               /\ h.fresh = IF m.fresh = slot THEN 0 ELSE m.fresh
<1> DEFINE i == Store(e, slot)
           a == Emitted(m, i)
           n == IF m.fresh = slot THEN 0 ELSE m.fresh
           h == StoreTo(m, e, slot)
<1>1. IsStore(i, slot) /\ ~ IsLoad(i)
  BY DEF IsStore, IsLoad, Store
<1>2. /\ Good(a) /\ Grows(m, a) /\ a.slots = m.slots /\ a.syms = m.syms /\ a.cur = m.cur
      /\ a.fresh = m.fresh /\ a.flaws = m.flaws /\ Len(a.blocks) = Len(m.blocks)
      /\ AddsInstruction(m, a, i)
  <2> HIDE DEF i
  <2> QED BY <1>1, EmittedGood
<1>3. h = [a EXCEPT !.fresh = n]
  BY <1>2 DEF StoreTo
<1>4. n = 0 \/ n = a.fresh
  BY <1>2
<1>5. a.fresh # n => a.fresh = slot /\ n = 0
  BY <1>2
<1> HIDE DEF i, a, n, h
<1>6. /\ IsModule(h) /\ h.blocks = a.blocks /\ h.fn = a.fn /\ h.slots = a.slots
      /\ h.syms = a.syms /\ h.cur = a.cur /\ h.funs = a.funs /\ h.flaws = a.flaws
      /\ h.fresh = n
  BY <1>2, <1>3 DEF Good, Shaped, Formed, IsModule
<1>7. Shaped(h)
  <2>1. 0 \in 0 .. Len(a.slots)
    BY <1>2, FormedLengths DEF Good, Shaped
  <2> QED BY <1>2, <1>4, <1>6, <2>1 DEF Good, Shaped, Formed, Block, Slot
<1>8. Grows(a, h)
  BY <1>2, <1>6, GrowsReflexive DEF Good, Shaped
<1>9. Grows(m, h)
  BY <1>2, <1>7, <1>8, GrowsTransitive DEF Good, Shaped
<1>10. ASSUME a.flaws = {} PROVE LoadsFollowStores(h) /\ SymbolsAreStored(h) /\ FreshIsHere(h)
  <2>1. LoadsFollowStores(a) /\ SymbolsAreStored(a) /\ FreshIsHere(a)
    BY <1>2, <1>10 DEF Good, Sound
  <2>2. \A s : Stored(a, s) <=> Stored(h, s)
    BY <1>6, SameCode
  <2>3. LoadsFollowStores(h)
    BY <1>6, <2>1, SameCode
  <2>4. ASSUME a.fresh = slot, slot # 0 PROVE Stored(h, slot)
    <3>1. slot \in Slot(a) /\ a.slots[slot].b = a.cur
      BY <1>2, <2>1, <2>4, FormedLengths DEF FreshIsHere, Good, Shaped, Formed, Slot
    <3>2. Home(a, slot) = a.blocks[m.cur]
      BY <1>2, <3>1 DEF Home
    <3>3. Len(a.blocks[m.cur]) \in 1 .. Len(a.blocks[m.cur])
          /\ IsStore(a.blocks[m.cur][Len(a.blocks[m.cur])], slot)
      <4>1. m.cur \in Block(m)
        BY DEF Good, Shaped
      <4>2. Len(m.blocks[m.cur]) \in Nat
        BY <4>1, FormedLengths DEF Good, Shaped
      <4> QED BY <1>1, <1>2, <4>2 DEF AddsInstruction
    <3> QED BY <2>2, <3>1, <3>2, <3>3 DEF Stored
  <2>5. SymbolsAreStored(h)
    BY <1>5, <1>6, <2>1, <2>2, <2>4 DEF SymbolsAreStored, Opaque
  <2>6. FreshIsHere(h)
    BY <1>4, <1>6, <2>1 DEF FreshIsHere
  <2> QED BY <2>3, <2>5, <2>6
<1>11. Good(h)
  BY <1>6, <1>7, <1>10 DEF Good, Sound
<1> QED BY <1>2, <1>6, <1>9, <1>11 DEF h, n

(* The builder moves to another block when no alloca waits for its value.  *)
LEMMA AtGood ==
    ASSUME NEW m, Steady(m), NEW block \in Block(m)
    PROVE  LET h == At(m, block)
           IN  /\ Steady(h) /\ Grows(m, h) /\ h.slots = m.slots /\ h.syms = m.syms
               /\ h.blocks = m.blocks /\ h.flaws = m.flaws /\ h.fresh = m.fresh
<1> DEFINE h == At(m, block)
<1>1. /\ IsModule(h) /\ h.blocks = m.blocks /\ h.fn = m.fn /\ h.slots = m.slots
      /\ h.syms = m.syms /\ h.cur = block /\ h.funs = m.funs /\ h.fresh = m.fresh
      /\ h.flaws = m.flaws
  BY DEF Steady, Good, Shaped, Formed, IsModule, At
<1> HIDE DEF h
<1>2. Shaped(h)
  BY <1>1 DEF Steady, Good, Shaped, Formed, Block, Slot
<1>3. Grows(m, h)
  BY <1>1, GrowsReflexive DEF Steady, Good, Shaped
<1>4. ASSUME m.flaws = {} PROVE LoadsFollowStores(h) /\ SymbolsAreStored(h) /\ FreshIsHere(h)
  <2>1. LoadsFollowStores(m) /\ SymbolsAreStored(m)
    BY <1>4 DEF Steady, Good, Sound
  <2>2. \A s : Stored(m, s) <=> Stored(h, s)
    BY <1>1, SameCode
  <2>3. LoadsFollowStores(h)
    BY <1>1, <2>1, SameCode
  <2>4. SymbolsAreStored(h)
    BY <1>1, <2>1, <2>2 DEF SymbolsAreStored, Opaque
  <2>5. FreshIsHere(h)
    BY <1>1, <1>4 DEF FreshIsHere, Steady
  <2> QED BY <2>3, <2>4, <2>5
<1> QED BY <1>1, <1>2, <1>3, <1>4 DEF h, Steady, Good, Sound

(* New blocks are empty.                                                   *)
LEMMA NewBlocks ==
    ASSUME NEW s, IsList(s), NEW n \in Nat, NEW x
    PROVE  LET r == s \o [i \in 1 .. n |-> x]
           IN  /\ IsList(r) /\ Len(r) = Len(s) + n
               /\ \A i \in 1 .. Len(s) : r[i] = s[i]
               /\ \A i \in Len(s) + 1 .. Len(s) + n : r[i] = x
<1> DEFINE t == [i \in 1 .. n |-> x]
           r == s \o t
<1>1. t \in [1 .. n -> {x}]
  OBVIOUS
<1>2. IsList(t) /\ Len(t) = n /\ \A i \in 1 .. n : t[i] = x
  <2>1. t \in Seq({x}) /\ Len(t) = n
    BY <1>1
  <2> QED BY <2>1, SeqIsList
<1>3. Len(s) \in Nat
  BY ListLength
<1> HIDE DEF t
<1>4. IsList(t)
  BY <1>2
<1>5. /\ IsList(r) /\ Len(r) = Len(s) + Len(t) /\ \A i \in 1 .. Len(s) : r[i] = s[i]
      /\ \A i \in 1 .. Len(t) : r[Len(s) + i] = t[i]
  BY <1>4, ConcatLists
<1> HIDE DEF r
<1>6. ASSUME NEW i \in Len(s) + 1 .. Len(s) + n PROVE r[i] = x
  <2>1. i - Len(s) \in 1 .. n /\ Len(s) + (i - Len(s)) = i
    BY <1>3
  <2>2. r[Len(s) + (i - Len(s))] = t[i - Len(s)]
    BY <1>2, <1>5, <2>1
  <2> QED BY <1>2, <2>1, <2>2
<1> QED BY <1>2, <1>5, <1>6 DEF r, t

(* New blocks change nothing in the others.                                *)
LEMMA AddBlocksForm ==
    ASSUME NEW m, Formed(m), Sound(m), NEW n \in Nat
    PROVE  LET h == AddBlocks(m, n)
           IN  /\ Formed(h) /\ Sound(h) /\ Grows(m, h) /\ Len(h.blocks) = Len(m.blocks) + n
               /\ h.slots = m.slots /\ h.syms = m.syms /\ h.cur = m.cur /\ h.funs = m.funs
               /\ h.fresh = m.fresh /\ h.flaws = m.flaws
               /\ \A b \in Len(m.blocks) + 1 .. Len(m.blocks) + n : h.fn[b] = m.f
<1> DEFINE B == m.blocks \o [i \in 1 .. n |-> <<>>]
           F == m.fn \o [i \in 1 .. n |-> m.f]
           h == AddBlocks(m, n)
<1>0. IsList(m.blocks) /\ IsList(m.fn) /\ Len(m.fn) = Len(m.blocks)
  BY DEF Formed
<1>1. h = [m EXCEPT !.blocks = B, !.fn = F]
  BY DEF AddBlocks
<1>2. /\ IsList(B) /\ Len(B) = Len(m.blocks) + n
      /\ \A i \in 1 .. Len(m.blocks) : B[i] = m.blocks[i]
      /\ \A i \in Len(m.blocks) + 1 .. Len(m.blocks) + n : B[i] = <<>>
  BY <1>0, NewBlocks
<1>3. /\ IsList(F) /\ Len(F) = Len(m.fn) + n
      /\ \A i \in 1 .. Len(m.fn) : F[i] = m.fn[i]
      /\ \A i \in Len(m.fn) + 1 .. Len(m.fn) + n : F[i] = m.f
  BY <1>0, NewBlocks
<1> HIDE DEF B, F
<1>4. /\ IsModule(h) /\ h.blocks = B /\ h.fn = F /\ h.slots = m.slots
      /\ h.syms = m.syms /\ h.cur = m.cur /\ h.funs = m.funs /\ h.fresh = m.fresh
      /\ h.flaws = m.flaws
  BY <1>1 DEF Formed, IsModule
<1> HIDE DEF h
<1>5. Len(m.blocks) \in Nat /\ Len(m.slots) \in Nat
  BY FormedLengths
<1>6. /\ Block(m) \subseteq Block(h)
      /\ \A b \in Block(h) : b \in Block(m) \/ b \in Len(m.blocks) + 1 .. Len(m.blocks) + n
  BY <1>2, <1>4, <1>5 DEF Block
<1>7. \A b \in Block(m) : h.blocks[b] = m.blocks[b] /\ h.fn[b] = m.fn[b]
  BY <1>0, <1>2, <1>3, <1>4 DEF Block
<1>8. \A b \in Block(h) : b \in Block(m) \/ h.blocks[b] = <<>>
  BY <1>2, <1>4, <1>6
<1>9. Formed(h)
  <2>1. IsList(<<>>)
    <3>1. <<>> \in Seq({})
      OBVIOUS
    <3> QED BY <3>1, SeqIsList
  <2>2. \A b \in Block(h) : IsList(h.blocks[b])
    BY <1>7, <1>8, <2>1 DEF Formed
  <2>3. Len(h.fn) = Len(h.blocks)
    BY <1>0, <1>2, <1>3, <1>4
  <2>4. \A f \in 1 .. Len(h.funs) : h.funs[f].entry \in Block(h) /\ h.fn[h.funs[f].entry] = f
    BY <1>4, <1>6, <1>7 DEF Formed
  <2>5. \A s \in Slot(h) : h.slots[s].b \in Block(h)
    BY <1>4, <1>6 DEF Formed, Slot
  <2> QED BY <1>2, <1>3, <1>4, <2>2, <2>3, <2>4, <2>5 DEF Formed
<1>10. Grows(m, h)
  <2>1. \A v : SlotOf(h, v) = SlotOf(m, v)
    BY <1>4, SameSymbols
  <2>2. Len(m.blocks) <= Len(h.blocks) /\ Len(m.slots) <= Len(h.slots)
    BY <1>2, <1>4, <1>5
  <2>3. \A b \in Block(m) : Len(m.blocks[b]) <= Len(h.blocks[b])
    BY <1>7, FormedLengths
  <2> QED BY <1>4, <1>7, <2>1, <2>2, <2>3 DEF Grows
<1>11. Sound(h)
  <2>1. ASSUME LoadsFollowStores(m) PROVE LoadsFollowStores(h)
    <3> SUFFICES ASSUME NEW b \in Block(h), NEW k \in 1 .. Len(h.blocks[b]),
                        IsLoad(h.blocks[b][k])
                 PROVE  StoredBefore(h, h.blocks[b][k].slot, b, k)
      BY DEF LoadsFollowStores
    <3>1. h.blocks[b] # <<>>
      <4>1. Len(<<>>) = 0
        OBVIOUS
      <4> QED BY <4>1
    <3>2. b \in Block(m) /\ h.blocks[b] = m.blocks[b]
      BY <1>7, <1>8, <3>1
    <3>3. StoredBefore(m, h.blocks[b][k].slot, b, k)
      BY <2>1, <3>2 DEF LoadsFollowStores
    <3> QED BY <1>9, <1>10, <3>3, StoredKept
  <2>2. ASSUME SymbolsAreStored(m) PROVE SymbolsAreStored(h)
    BY <1>4, <1>9, <1>10, <2>2, StoredKept DEF SymbolsAreStored, Opaque
  <2>3. FreshIsHere(m) => FreshIsHere(h)
    BY <1>4 DEF FreshIsHere
  <2> QED BY <1>4, <2>1, <2>2, <2>3 DEF Sound
<1>12. \A b \in Len(m.blocks) + 1 .. Len(m.blocks) + n : h.fn[b] = m.f
  BY <1>0, <1>3, <1>4
<1> QED BY <1>2, <1>4, <1>9, <1>10, <1>11, <1>12 DEF h

(* The same for a module whose builder stands in a block.                  *)
LEMMA AddBlocksGood ==
    ASSUME NEW m, Good(m), NEW n \in Nat
    PROVE  LET h == AddBlocks(m, n)
           IN  /\ Good(h) /\ Grows(m, h) /\ Len(h.blocks) = Len(m.blocks) + n
               /\ h.slots = m.slots /\ h.syms = m.syms /\ h.cur = m.cur
               /\ h.fresh = m.fresh /\ h.flaws = m.flaws
<1> DEFINE h == AddBlocks(m, n)
<1>1. /\ Formed(h) /\ Sound(h) /\ Grows(m, h) /\ Len(h.blocks) = Len(m.blocks) + n
      /\ h.slots = m.slots /\ h.syms = m.syms /\ h.cur = m.cur /\ h.funs = m.funs
      /\ h.fresh = m.fresh /\ h.flaws = m.flaws
  BY AddBlocksForm DEF Good, Shaped
<1> HIDE DEF h
<1>2. m.cur \in Block(h)
  BY <1>1, FormedLengths DEF Good, Shaped, Block
<1> QED BY <1>1, <1>2 DEF Good, Shaped, h

(* Symbols are added behind the others.                                    *)
LEMMA AppendSymbolGood ==
    ASSUME NEW m, Good(m), NEW name, ~ Declared(m, name), NEW t
    PROVE  LET h == AppendSymbol(m, name, t)
           IN  /\ Good(h) /\ Grows(m, h) /\ h.blocks = m.blocks /\ h.slots = m.slots
               /\ h.cur = m.cur /\ h.fresh = m.fresh /\ h.flaws = m.flaws
               /\ Declared(h, name) /\ TypeIn(h, name) = t
<1> DEFINE e == [name |-> name, slot |-> 0, type |-> t]
           S == Append(m.syms, e)
           h == AppendSymbol(m, name, t)
<1>1. h = [m EXCEPT !.syms = S]
  BY DEF AppendSymbol
<1>2. IsList(m.syms) /\ Len(m.syms) \in Nat
  BY ListLength DEF Good, Shaped, Formed
<1>3. /\ IsList(S) /\ Len(S) = Len(m.syms) + 1 /\ S[Len(m.syms) + 1] = e
      /\ \A k \in 1 .. Len(m.syms) : S[k] = m.syms[k]
  BY <1>2, AppendToList
<1>4. e.name = name /\ e.slot = 0 /\ e.type = t /\ IsSymbol(e)
  BY DEF IsSymbol
<1> HIDE DEF S, h, e
<1>5. /\ IsModule(h) /\ h.blocks = m.blocks /\ h.fn = m.fn /\ h.slots = m.slots
      /\ h.syms = S /\ h.cur = m.cur /\ h.funs = m.funs /\ h.fresh = m.fresh
      /\ h.flaws = m.flaws
  BY <1>1 DEF Good, Shaped, Formed, IsModule
<1>6. \A k \in 1 .. Len(S) : k \in 1 .. Len(m.syms) \/ k = Len(m.syms) + 1
  BY <1>2, <1>3
<1>7. Shaped(h)
  <2>1. \A k \in 1 .. Len(S) : IsSymbol(S[k]) /\ S[k].slot \in 0 .. Len(m.slots)
    <3> SUFFICES ASSUME NEW k \in 1 .. Len(S)
                 PROVE  IsSymbol(S[k]) /\ S[k].slot \in 0 .. Len(m.slots)
      OBVIOUS
    <3>1. CASE k \in 1 .. Len(m.syms)
      BY <1>3, <3>1 DEF Good, Shaped, Formed
    <3>2. CASE k = Len(m.syms) + 1
      BY <1>3, <1>4, <3>2, FormedLengths DEF Good, Shaped
    <3> QED BY <1>6, <3>1, <3>2
  <2> QED BY <1>3, <1>5, <2>1 DEF Good, Shaped, Formed, Block, Slot
<1>8. ASSUME NEW v, SlotOf(m, v) # 0 PROVE SlotOf(h, v) # 0
  <2>1. SymbolIndex(m, v) # 0
    BY <1>8 DEF SlotOf, Declared
  <2>2. SymbolIndex(m, v) \in 1 .. Len(m.syms)
    BY <1>2, <2>1, SymbolIndexFinds
  <2>3. SymbolIndex(h, v) = SymbolIndex(m, v)
    BY <1>2, <1>3, <1>5, <2>1, SymbolIndexKept
  <2> QED BY <1>3, <1>5, <1>8, <2>1, <2>2, <2>3 DEF SlotOf, Declared
<1>9. Grows(m, h)
  <2>1. /\ Len(m.blocks) \in Nat /\ Len(m.slots) \in Nat
        /\ \A b \in Block(m) : Len(m.blocks[b]) \in Nat
    BY FormedLengths DEF Good, Shaped
  <2> QED BY <1>5, <1>8, <2>1 DEF Grows
<1>10. ASSUME m.flaws = {} PROVE LoadsFollowStores(h) /\ SymbolsAreStored(h) /\ FreshIsHere(h)
  <2>1. LoadsFollowStores(m) /\ SymbolsAreStored(m) /\ FreshIsHere(m)
    BY <1>10 DEF Good, Sound
  <2>2. \A s : Stored(m, s) <=> Stored(h, s)
    BY <1>5, SameCode
  <2>3. LoadsFollowStores(h)
    BY <1>5, <2>1, SameCode
  <2>4. SymbolsAreStored(h)
    BY <1>3, <1>4, <1>5, <1>6, <2>1, <2>2 DEF SymbolsAreStored, Opaque
  <2>5. FreshIsHere(h)
    BY <1>5, <2>1 DEF FreshIsHere
  <2> QED BY <2>3, <2>4, <2>5
<1>11. Declared(h, name) /\ TypeIn(h, name) = t
  <2> DEFINE k == SymbolIndex(h, name)
             j == SymbolIndex(m, name)
  <2>1. /\ k \in 0 .. Len(h.syms) /\ (k # 0 => h.syms[k].name = name)
        /\ \A i \in 1 .. Len(h.syms) : h.syms[i].name = name => k # 0 /\ k <= i
    BY <1>3, <1>5, SymbolIndexFinds
  <2>2. \A i \in 1 .. Len(m.syms) : m.syms[i].name = name => j # 0 /\ j <= i
    BY <1>2, SymbolIndexFinds
  <2>3. j = 0
    BY DEF Declared
  <2> HIDE DEF k, j
  <2>4. \A i \in 1 .. Len(m.syms) : h.syms[i].name # name
    BY <1>3, <1>5, <2>2, <2>3
  <2>5. Len(m.syms) + 1 \in 1 .. Len(h.syms) /\ h.syms[Len(m.syms) + 1] = e
    BY <1>2, <1>3, <1>5
  <2>6. k # 0 /\ k = Len(m.syms) + 1
    BY <1>2, <1>3, <1>4, <1>5, <2>1, <2>4, <2>5
  <2>7. h.syms[k].type = t
    BY <1>4, <2>5, <2>6
  <2> QED BY <2>6, <2>7 DEF k, Declared, TypeIn
<1> QED BY <1>5, <1>7, <1>9, <1>10, <1>11 DEF Good, Sound, h

(* A symbol is added unless it is known; the table may move.               *)
LEMMA SymbolAddGood ==
    ASSUME NEW m, Good(m), NEW name, NEW t
    PROVE  LET h == SymbolAdd(m, name, t)
           IN  /\ Good(h) /\ Grows(m, h) /\ h.blocks = m.blocks /\ h.slots = m.slots
               /\ h.cur = m.cur /\ h.fresh = m.fresh /\ h.flaws = m.flaws
               /\ Declared(h, name) /\ (~ Declared(m, name) => TypeIn(h, name) = t)
<1>1. Formed(m)
  BY DEF Good, Shaped
<1>2. CASE Declared(m, name)
  <2>1. Grows(m, m)
    BY <1>1, GrowsReflexive
  <2> QED BY <1>2, <2>1 DEF SymbolAdd
<1>3. CASE ~ Declared(m, name)
  <2> DEFINE x == ExpandTable(m)
             a == IF Len(m.syms) >= m.cap THEN x ELSE m
             h == SymbolAdd(m, name, t)
  <2>1. h = AppendSymbol(a, name, t)
    BY <1>3 DEF SymbolAdd
  <2>2. Alike(m, x)
    BY <1>1 DEF Formed, IsModule, ExpandTable, Alike
  <2>3. Alike(m, m)
    BY <1>1 DEF Formed, Alike
  <2>4. Alike(m, a)
    BY <2>2, <2>3
  <2> HIDE DEF x, a
  <2>5. Good(a) /\ Grows(m, a)
    BY <2>4, AlikeGood
  <2>6. ~ Declared(a, name)
    BY <1>3, <2>4, SameSymbols DEF Declared, Alike
  <2> DEFINE k == AppendSymbol(a, name, t)
  <2>7. /\ Good(k) /\ Grows(a, k) /\ k.blocks = a.blocks /\ k.slots = a.slots
        /\ k.cur = a.cur /\ k.fresh = a.fresh /\ k.flaws = a.flaws
        /\ Declared(k, name) /\ TypeIn(k, name) = t
    BY <2>5, <2>6, AppendSymbolGood
  <2> HIDE DEF k
  <2>8. Grows(m, k)
    BY <1>1, <2>5, <2>7, GrowsTransitive DEF Good, Shaped
  <2>9. h = k
    BY <2>1 DEF k
  <2> QED BY <2>4, <2>7, <2>8, <2>9 DEF Alike
<1> QED BY <1>2, <1>3

(* What a new slot changes.                                                *)
LEMMA SetNewSlotParts ==
    ASSUME NEW m, IsModule(m), NEW name, NEW t,
           NEW h, h = SetNewSlot(m, name, t),
           NEW a, a = Emitted(m, [op |-> "alloca"]),
           NEW e, e = [f |-> m.f, b |-> m.cur, t |-> t],
           NEW k, k = SymbolIndex(m, name),
           NEW n, n = Len(m.slots) + 1
    PROVE  /\ IsModule(h) /\ h.blocks = a.blocks /\ h.slots = Append(m.slots, e)
           /\ h.syms = [m.syms EXCEPT ![k] = [m.syms[k] EXCEPT !.slot = n]]
           /\ h.fn = m.fn /\ h.cur = m.cur /\ h.funs = m.funs
           /\ h.fresh = n /\ h.flaws = m.flaws
<1>1. h = [a EXCEPT !.slots = Append(@, e), !.syms[k].slot = n, !.fresh = n]
  BY DEF SetNewSlot
<1>2. /\ IsModule(a) /\ a.fn = m.fn /\ a.slots = m.slots /\ a.syms = m.syms
      /\ a.cur = m.cur /\ a.funs = m.funs /\ a.flaws = m.flaws
  BY EmittedParts
<1>3. /\ IsModule(h) /\ h.blocks = a.blocks /\ h.slots = Append(a.slots, e)
      /\ h.syms = [a.syms EXCEPT ![k].slot = n] /\ h.fresh = n
      /\ h.fn = a.fn /\ h.cur = a.cur /\ h.funs = a.funs /\ h.flaws = a.flaws
  BY <1>1, <1>2 DEF IsModule
<1>4. h.syms = [m.syms EXCEPT ![k] = [m.syms[k] EXCEPT !.slot = n]]
  BY <1>2, <1>3
<1> QED BY <1>2, <1>3, <1>4

(* The new alloca is the fresh one, and the symbol's.                      *)
LEMMA SetNewSlotGood ==
    ASSUME NEW m, Steady(m), NEW name, Declared(m, name), NEW t
    PROVE  LET h == SetNewSlot(m, name, t)
               e == Emitted(m, [op |-> "alloca"])
           IN  /\ Good(h) /\ Grows(m, h) /\ h.cur = m.cur /\ h.flaws = m.flaws
               /\ h.fresh = Len(m.slots) + 1 /\ SlotOf(h, name) = h.fresh /\ h.fresh # 0
               /\ TypeIn(h, name) = TypeIn(m, name)
               /\ h.slots[h.fresh].t = t /\ h.fresh \in Slot(h)
               /\ \A j \in 1 .. Len(h.syms) :
                     h.syms[j].slot = h.fresh => h.syms[j].type = TypeIn(m, name)
<1> DEFINE h == SetNewSlot(m, name, t)
           a == Emitted(m, [op |-> "alloca"])
           e == [f |-> m.f, b |-> m.cur, t |-> t]
           k == SymbolIndex(m, name)
           n == Len(m.slots) + 1
           x == [m.syms[k] EXCEPT !.slot = n]
<1>1. Good(m) /\ Shaped(m) /\ Formed(m) /\ IsModule(m)
  BY DEF Steady, Good, Shaped, Formed
<1>2. /\ Good(a) /\ Grows(m, a) /\ a.slots = m.slots /\ a.syms = m.syms /\ a.cur = m.cur
      /\ a.fresh = m.fresh /\ a.flaws = m.flaws /\ Len(a.blocks) = Len(m.blocks)
  <2> DEFINE i == [op |-> "alloca"]
  <2>1. ~ IsLoad(i)
    BY DEF IsLoad
  <2> HIDE DEF i
  <2>2. LET q == Emitted(m, i)
        IN  /\ Good(q) /\ Grows(m, q) /\ q.slots = m.slots /\ q.syms = m.syms /\ q.cur = m.cur
            /\ q.fresh = m.fresh /\ q.flaws = m.flaws /\ Len(q.blocks) = Len(m.blocks)
    BY <1>1, <2>1, EmittedGood
  <2> QED BY <2>2 DEF i
<1>3. a.fn = m.fn /\ a.funs = m.funs
  BY <1>1, EmittedParts
<1>4. /\ IsModule(h) /\ h.blocks = a.blocks /\ h.slots = Append(m.slots, e)
      /\ h.syms = [m.syms EXCEPT ![k] = x] /\ h.fn = m.fn /\ h.cur = m.cur
      /\ h.funs = m.funs /\ h.fresh = n /\ h.flaws = m.flaws
  <2>1. /\ h = SetNewSlot(m, name, t) /\ a = Emitted(m, [op |-> "alloca"])
        /\ e = [f |-> m.f, b |-> m.cur, t |-> t] /\ k = SymbolIndex(m, name)
        /\ n = Len(m.slots) + 1
    OBVIOUS
  <2> HIDE DEF h, a, e, k, n
  <2>2. /\ IsModule(h) /\ h.blocks = a.blocks /\ h.slots = Append(m.slots, e)
        /\ h.syms = [m.syms EXCEPT ![k] = [m.syms[k] EXCEPT !.slot = n]]
        /\ h.fn = m.fn /\ h.cur = m.cur /\ h.funs = m.funs
        /\ h.fresh = n /\ h.flaws = m.flaws
    BY <1>1, <2>1, SetNewSlotParts
  <2> QED BY <2>2
<1>5. /\ Len(m.syms) \in Nat /\ Len(m.slots) \in Nat /\ Len(m.blocks) \in Nat
      /\ IsList(m.syms) /\ IsList(m.slots)
  BY <1>1, ListLength DEF Formed
<1>6. /\ k \in 1 .. Len(m.syms) /\ m.syms[k].name = name
  <2>1. k # 0
    BY DEF Declared
  <2>2. k \in 0 .. Len(m.syms) /\ (k # 0 => m.syms[k].name = name)
    BY <1>5, SymbolIndexFinds
  <2> HIDE DEF k
  <2> QED BY <1>5, <2>1, <2>2
<1>7. e.b = m.cur /\ e.t = t
  OBVIOUS
<1>8. IsSymbol(x) /\ x.slot = n /\ x.name = name /\ x.type = m.syms[k].type
  <2> DEFINE y == m.syms[k]
  <2>1. IsSymbol(y)
    BY <1>1, <1>6 DEF Formed
  <2> HIDE DEF y
  <2>2. /\ IsSymbol([y EXCEPT !.slot = n]) /\ [y EXCEPT !.slot = n].slot = n
        /\ [y EXCEPT !.slot = n].name = y.name /\ [y EXCEPT !.slot = n].type = y.type
    BY <2>1 DEF IsSymbol
  <2> QED BY <1>6, <2>2 DEF y
<1>9. TypeIn(m, name) = m.syms[k].type
  BY DEF TypeIn
<1>10. n \in Nat /\ n # 0
  BY <1>5
<1>11. \A v : SymbolIndex(m, v) # 0 => SymbolIndex(m, v) \in 1 .. Len(m.syms)
  BY <1>5, SymbolIndexFinds
<1>12. n = Len(m.slots) + 1 /\ SymbolIndex(m, name) = k
  OBVIOUS
<1> HIDE DEF h, a, e, k, n, x
<1>13. /\ IsList(h.slots) /\ Len(h.slots) = Len(m.slots) + 1 /\ h.slots[n] = e
       /\ \A s \in 1 .. Len(m.slots) : h.slots[s] = m.slots[s]
  <2>1. LET q == Append(m.slots, e)
        IN  /\ IsList(q) /\ Len(q) = Len(m.slots) + 1 /\ q[Len(m.slots) + 1] = e
            /\ \A s \in 1 .. Len(m.slots) : q[s] = m.slots[s]
    BY <1>5, AppendToList
  <2> QED BY <1>4, <1>12, <2>1
<1>14. /\ IsList(h.syms) /\ Len(h.syms) = Len(m.syms)
       /\ \A j \in 1 .. Len(m.syms) : h.syms[j] = IF j = k THEN x ELSE m.syms[j]
  <2> DEFINE q == [m.syms EXCEPT ![k] = x]
  <2>1. IsList(q) /\ Len(q) = Len(m.syms)
    BY <1>5, ChangeList
  <2>2. \A j \in 1 .. Len(m.syms) : q[j] = IF j = k THEN x ELSE m.syms[j]
    BY <1>5, ChangeList
  <2>3. h.syms = q
    BY <1>4
  <2> HIDE DEF q
  <2> QED BY <2>1, <2>2, <2>3
<1>15. \A j \in 1 .. Len(m.syms) : h.syms[j].name = m.syms[j].name
  BY <1>6, <1>8, <1>14
<1>16. \A v : SymbolIndex(m, v) # 0 => SymbolIndex(h, v) = SymbolIndex(m, v)
  <2>1. Len(m.syms) <= Len(h.syms)
    BY <1>5, <1>14
  <2> QED BY <1>5, <1>14, <1>15, <2>1, SymbolIndexKept
<1>17. SymbolIndex(h, name) = k /\ h.syms[k] = x /\ k # 0
  BY <1>6, <1>12, <1>14, <1>16
<1>18. SlotOf(h, name) = n /\ TypeIn(h, name) = TypeIn(m, name)
  BY <1>8, <1>9, <1>17 DEF SlotOf, Declared, TypeIn
<1>19. Slot(m) \subseteq Slot(h) /\ n \in Slot(h) /\ \A s \in Slot(h) : s \in Slot(m) \/ s = n
  BY <1>5, <1>12, <1>13 DEF Slot
<1>20. Block(h) = Block(m)
  BY <1>2, <1>4 DEF Block
<1>21. Shaped(h)
  <2>1. \A s \in Slot(h) : h.slots[s].b \in Block(h)
    BY <1>1, <1>7, <1>13, <1>19, <1>20 DEF Shaped, Formed, Slot
  <2>2. \A j \in 1 .. Len(h.syms) : IsSymbol(h.syms[j]) /\ h.syms[j].slot \in 0 .. Len(h.slots)
    <3> SUFFICES ASSUME NEW j \in 1 .. Len(m.syms)
                 PROVE  IsSymbol(h.syms[j]) /\ h.syms[j].slot \in 0 .. Len(h.slots)
      BY <1>14
    <3>1. CASE j = k
      BY <1>5, <1>8, <1>10, <1>12, <1>13, <1>17, <3>1
    <3>2. CASE j # k
      <4>1. h.syms[j] = m.syms[j] /\ IsSymbol(m.syms[j]) /\ m.syms[j].slot \in 0 .. Len(m.slots)
        BY <1>1, <1>14, <3>2 DEF Formed
      <4> QED BY <1>5, <1>13, <4>1
    <3> QED BY <3>1, <3>2
  <2>3. h.fresh \in 0 .. Len(h.slots)
    BY <1>4, <1>5, <1>12, <1>13
  <2>4. /\ IsList(h.blocks) /\ (\A b \in Block(h) : IsList(h.blocks[b]))
        /\ Len(h.fn) = Len(h.blocks)
    BY <1>1, <1>2, <1>4, <1>20 DEF Good, Shaped, Formed, Block
  <2> QED BY <1>1, <1>4, <1>13, <1>14, <1>20, <2>1, <2>2, <2>3, <2>4 DEF Shaped, Formed
<1>22. Grows(m, h)
  <2>1. ASSUME NEW v, SlotOf(m, v) # 0 PROVE SlotOf(h, v) # 0
    <3>1. SymbolIndex(m, v) # 0 /\ SlotOf(m, v) = m.syms[SymbolIndex(m, v)].slot
      BY <2>1 DEF SlotOf, Declared
    <3>2. SymbolIndex(h, v) = SymbolIndex(m, v) /\ SymbolIndex(m, v) \in 1 .. Len(m.syms)
      BY <1>11, <1>16, <3>1
    <3>3. SlotOf(h, v) = h.syms[SymbolIndex(m, v)].slot
      BY <3>1, <3>2 DEF SlotOf, Declared
    <3> QED BY <1>8, <1>10, <1>14, <2>1, <3>1, <3>2, <3>3
  <2>2. Len(m.blocks) <= Len(h.blocks) /\ Len(m.slots) <= Len(h.slots)
    BY <1>2, <1>4, <1>5, <1>13
  <2> QED BY <1>2, <1>4, <1>13, <2>1, <2>2 DEF Grows, Slot
<1>23. ASSUME m.flaws = {} PROVE LoadsFollowStores(h) /\ SymbolsAreStored(h) /\ FreshIsHere(h)
  <2>1. LoadsFollowStores(a) /\ SymbolsAreStored(m) /\ m.fresh = 0
    BY <1>1, <1>2, <1>23 DEF Good, Sound, Steady
  <2>2. LoadsFollowStores(h)
    <3> SUFFICES ASSUME NEW b \in Block(h), NEW j \in 1 .. Len(h.blocks[b]),
                        IsLoad(h.blocks[b][j])
                 PROVE  StoredBefore(h, h.blocks[b][j].slot, b, j)
      BY DEF LoadsFollowStores
    <3> DEFINE s == h.blocks[b][j].slot
    <3>1. StoredBefore(a, s, b, j)
      BY <1>4, <2>1 DEF LoadsFollowStores, Block
    <3> HIDE DEF s
    <3>2. s \in Slot(m) /\ h.slots[s] = a.slots[s] /\ s \in Slot(h)
      BY <1>2, <1>13, <1>19, <3>1 DEF StoredBefore, Slot
    <3>3. StoredBefore(h, s, b, j)
      BY <1>4, <3>1, <3>2 DEF StoredBefore, Home
    <3> QED BY <3>3 DEF s
  <2>3. SymbolsAreStored(h)
    <3> SUFFICES ASSUME NEW j \in 1 .. Len(m.syms)
                 PROVE  \/ h.syms[j].slot \in {0, h.fresh} \/ Stored(h, h.syms[j].slot)
                        \/ Opaque(h, h.syms[j])
      BY <1>14 DEF SymbolsAreStored
    <3>1. CASE j = k
      BY <1>4, <1>8, <1>17, <3>1
    <3>2. CASE j # k
      <4>1. h.syms[j] = m.syms[j] /\ m.syms[j].slot \in 0 .. Len(m.slots)
        BY <1>1, <1>14, <3>2 DEF Formed
      <4>2. CASE m.syms[j].slot = 0
        BY <4>1, <4>2
      <4>3. CASE Stored(m, m.syms[j].slot)
        BY <1>1, <1>21, <1>22, <4>1, <4>3, StoredKept DEF Shaped
      <4>4. CASE Opaque(m, m.syms[j]) /\ m.syms[j].slot # 0
        <5>1. m.syms[j].slot \in 1 .. Len(m.slots)
          BY <1>5, <4>1, <4>4
        <5> QED BY <1>13, <4>1, <4>4, <5>1 DEF Opaque
      <4> QED BY <2>1, <4>2, <4>3, <4>4 DEF SymbolsAreStored
    <3> QED BY <3>1, <3>2
  <2>4. FreshIsHere(h)
    BY <1>4, <1>7, <1>13 DEF FreshIsHere
  <2> QED BY <2>2, <2>3, <2>4
<1>24. Good(h)
  BY <1>4, <1>21, <1>23 DEF Good, Sound
<1>25. h.slots[h.fresh].t = t /\ h.fresh \in Slot(h) /\ SlotOf(h, name) = h.fresh
  BY <1>4, <1>7, <1>13, <1>18, <1>19
<1>26. ASSUME NEW j \in 1 .. Len(h.syms), h.syms[j].slot = h.fresh
       PROVE  h.syms[j].type = TypeIn(m, name)
  <2>1. j = k
    <3> SUFFICES ASSUME j # k PROVE FALSE
      OBVIOUS
    <3>1. h.syms[j] = m.syms[j] /\ m.syms[j].slot \in 0 .. Len(m.slots)
      BY <1>1, <1>14 DEF Formed
    <3> QED BY <1>4, <1>5, <1>12, <1>26, <3>1
  <2> QED BY <1>8, <1>9, <1>17, <2>1
<1> QED BY <1>4, <1>10, <1>12, <1>18, <1>22, <1>24, <1>25, <1>26 DEF h

(* An instruction that is no load, while no alloca waits for its value.    *)
LEMMA EmittedSteady ==
    ASSUME NEW m, Steady(m), NEW i, ~ IsLoad(i)
    PROVE  LET h == Emitted(m, i)
           IN  Steady(h) /\ Grows(m, h) /\ Len(h.blocks) = Len(m.blocks)
BY EmittedGood DEF Steady

(* A flawed module waits for nothing.                                      *)
LEMMA FlawSteady ==
    ASSUME NEW m, Good(m), NEW what
    PROVE  LET h == Flaw(m, what)
           IN  /\ Steady(h) /\ Grows(m, h) /\ h.blocks = m.blocks /\ h.slots = m.slots
               /\ h.syms = m.syms /\ h.fresh = m.fresh
BY FlawGood DEF Steady

(* A module alike to a steady one.                                         *)
LEMMA AlikeSteady ==
    ASSUME NEW m, Steady(m), NEW h, Alike(m, h)
    PROVE  Steady(h) /\ Grows(m, h)
BY AlikeGood DEF Steady, Alike

(* The current block ends with i, and the builder moves to another.        *)
LEMMA LeaveSteady ==
    ASSUME NEW m, Steady(m), NEW i, ~ IsLoad(i), NEW at \in Block(m)
    PROVE  LET h == At(Emitted(m, i), at)
           IN  /\ Steady(h) /\ Grows(m, h) /\ Len(h.blocks) = Len(m.blocks)
               /\ h.slots = m.slots /\ h.syms = m.syms /\ h.fresh = m.fresh
               /\ h.flaws = m.flaws
<1> DEFINE e == Emitted(m, i)
           h == At(e, at)
<1>1. /\ Good(e) /\ Grows(m, e) /\ Len(e.blocks) = Len(m.blocks) /\ e.slots = m.slots
      /\ e.syms = m.syms /\ e.fresh = m.fresh /\ e.flaws = m.flaws
  BY EmittedGood DEF Steady
<1> HIDE DEF e
<1>2. Steady(e) /\ at \in Block(e)
  BY <1>1 DEF Steady, Block
<1>3. /\ Steady(h) /\ Grows(e, h) /\ h.slots = e.slots /\ h.syms = e.syms
      /\ h.blocks = e.blocks /\ h.flaws = e.flaws /\ h.fresh = e.fresh
  BY <1>2, AtGood
<1> HIDE DEF h
<1>4. Grows(m, h)
  BY <1>1, <1>3, GrowsTransitive DEF Steady, Good, Shaped
<1> QED BY <1>1, <1>3, <1>4 DEF h, e

(* The same after n new blocks, one of which the builder moves to.         *)
LEMMA BranchSteady ==
    ASSUME NEW m, Steady(m), NEW n \in Nat, NEW i, ~ IsLoad(i),
           NEW at \in Len(m.blocks) + 1 .. Len(m.blocks) + n
    PROVE  LET h == At(Emitted(AddBlocks(m, n), i), at)
           IN  /\ Steady(h) /\ Grows(m, h) /\ Len(h.blocks) = Len(m.blocks) + n
               /\ h.slots = m.slots /\ h.syms = m.syms /\ h.fresh = m.fresh
               /\ h.flaws = m.flaws
<1> DEFINE a == AddBlocks(m, n)
           h == At(Emitted(a, i), at)
<1>1. /\ Good(a) /\ Grows(m, a) /\ Len(a.blocks) = Len(m.blocks) + n /\ a.slots = m.slots
      /\ a.syms = m.syms /\ a.fresh = m.fresh /\ a.flaws = m.flaws
  BY AddBlocksGood DEF Steady
<1> HIDE DEF a
<1>2. Steady(a) /\ at \in Block(a)
  BY <1>1, FormedLengths DEF Steady, Good, Shaped, Block
<1>3. /\ Steady(h) /\ Grows(a, h) /\ Len(h.blocks) = Len(a.blocks) /\ h.slots = a.slots
      /\ h.syms = a.syms /\ h.fresh = a.fresh /\ h.flaws = a.flaws
  BY <1>2, LeaveSteady
<1> HIDE DEF h
<1>4. Grows(m, h)
  BY <1>1, <1>3, GrowsTransitive DEF Steady, Good, Shaped
<1> QED BY <1>1, <1>3, <1>4 DEF h, a

(* New blocks, the first of which is entered.                              *)
LEMMA EnterSteady ==
    ASSUME NEW m, Steady(m), NEW n \in Nat \ {0}
    PROVE  LET h == Enter(m, n)
           IN  /\ Steady(h) /\ Grows(m, h) /\ Len(h.blocks) = Len(m.blocks) + n
               /\ h.slots = m.slots /\ h.syms = m.syms /\ h.fresh = m.fresh
               /\ h.flaws = m.flaws
<1> DEFINE i == Br(Len(m.blocks) + 1)
           at == Len(m.blocks) + 1
<1>1. ~ IsLoad(i)
  BY DEF Br, IsLoad
<1>2. at \in Len(m.blocks) + 1 .. Len(m.blocks) + n
  BY FormedLengths DEF Steady, Good, Shaped
<1>3. Enter(m, n) = At(Emitted(AddBlocks(m, n), i), at)
  BY DEF Enter
<1> HIDE DEF i, at
<1> QED BY <1>1, <1>2, <1>3, BranchSteady

(* A new variable has the fresh alloca.                                    *)
LEMMA NewVariableGood ==
    ASSUME NEW m, Steady(m), NEW name, NEW t
    PROVE  LET h == NewVariable(m, name, t)
           IN  /\ Good(h) /\ Grows(m, h) /\ h.flaws = m.flaws
               /\ SlotOf(h, name) = h.fresh /\ h.fresh # 0
<1> DEFINE a == SymbolAdd(m, name, t)
           h == NewVariable(m, name, t)
<1>1. h = SetNewSlot(a, name, t)
  BY DEF NewVariable
<1>2. Good(a) /\ Grows(m, a) /\ a.fresh = m.fresh /\ a.flaws = m.flaws /\ Declared(a, name)
  BY SymbolAddGood DEF Steady
<1> HIDE DEF a, h
<1>3. Steady(a)
  BY <1>2 DEF Steady
<1>4. Good(h) /\ Grows(a, h) /\ h.flaws = a.flaws /\ SlotOf(h, name) = h.fresh /\ h.fresh # 0
  BY <1>1, <1>2, <1>3, SetNewSlotGood
<1>5. Grows(m, h)
  BY <1>2, <1>4, GrowsTransitive DEF Steady, Good, Shaped
<1> QED BY <1>2, <1>4, <1>5 DEF h

(* A variable that is made where it is new: what is fresh is its own.      *)
LEMMA VariableGood ==
    ASSUME NEW m, Steady(m), NEW name, NEW t
    PROVE  LET h == Variable(m, name, t)
           IN  /\ Good(h) /\ Grows(m, h) /\ h.flaws = m.flaws
               /\ h.flaws = {} /\ h.fresh # 0 => SlotOf(h, name) = h.fresh
<1>1. CASE Declared(m, name)
  <2>1. Grows(m, m)
    BY GrowsReflexive DEF Steady, Good, Shaped
  <2>2. Variable(m, name, t) = m
    BY <1>1 DEF Variable
  <2> QED BY <2>1, <2>2 DEF Steady
<1>2. CASE ~ Declared(m, name)
  BY <1>2, NewVariableGood DEF Variable
<1> QED BY <1>1, <1>2

(* What is read by name has been stored to, unless the load adds a flaw.   *)
LEMMA SymbolReadable ==
    ASSUME NEW m, Good(m), m.flaws = {}, NEW v, NEW s, s = SlotOf(m, v),
           s # 0, s # m.fresh, TypeIn(m, v) # "void" \/ m.slots[s].t # "text"
    PROVE  Stored(m, s)
<1> DEFINE k == SymbolIndex(m, v)
<1>1. k # 0 /\ s = m.syms[k].slot /\ TypeIn(m, v) = m.syms[k].type
  BY DEF SlotOf, Declared, TypeIn
<1>2. k \in 1 .. Len(m.syms)
  <2>1. IsList(m.syms) /\ Len(m.syms) \in Nat
    BY ListLength DEF Good, Shaped, Formed
  <2>2. k \in 0 .. Len(m.syms)
    BY <2>1, SymbolIndexFinds
  <2> HIDE DEF k
  <2> QED BY <1>1, <2>1, <2>2
<1> HIDE DEF k
<1>3. SymbolsAreStored(m)
  BY DEF Good, Sound
<1> QED BY <1>1, <1>2, <1>3 DEF SymbolsAreStored, Opaque

(* The step of a FOR: load, add, store.                                    *)
LEMMA AdvancedSteady ==
    ASSUME NEW m, Steady(m), NEW v, NEW slot, slot = SlotOf(m, v), slot # 0, NEW e
    PROVE  LET h == Advanced(m, slot, e)
           IN  Steady(h) /\ Grows(m, h) /\ Len(h.blocks) = Len(m.blocks)
<1> DEFINE a == LoadFrom(m, slot, "int")
           i == [op |-> "op", f |-> "+", l |-> Temp(NextTemp(m), "int"), r |-> e,
                 to |-> NextTemp(a)]
           b == Computed(a, i)
           x == Temp(NextTemp(a), "int")
           h == StoreTo(b, x, slot)
<1>1. (m.flaws = {} /\ m.slots[slot].t = "int" /\ slot # m.fresh) => Stored(m, slot)
  <2>1. "int" # "text"
    OBVIOUS
  <2> QED BY <2>1, SymbolReadable DEF Steady
<1>2. Good(a) /\ Grows(m, a) /\ a.fresh = m.fresh /\ Len(a.blocks) = Len(m.blocks)
  BY <1>1, LoadFromGood DEF Steady
<1>3. ~ IsLoad(i) /\ Advanced(m, slot, e) = h
  BY DEF IsLoad, Advanced
<1> HIDE DEF a, i, x
<1>4. /\ Good(b) /\ Grows(a, b) /\ b.fresh = a.fresh /\ b.flaws = a.flaws
      /\ Len(b.blocks) = Len(a.blocks)
  BY <1>2, <1>3, ComputedGood
<1> HIDE DEF b
<1>5. /\ Good(h) /\ Grows(b, h) /\ h.flaws = b.flaws /\ Len(h.blocks) = Len(b.blocks)
      /\ h.fresh = IF b.fresh = slot THEN 0 ELSE b.fresh
  BY <1>4, StoreToGood
<1> HIDE DEF h
<1>6. Grows(m, b) /\ Grows(m, h)
  <2>1. Formed(m) /\ Formed(a) /\ Formed(b) /\ Formed(h)
    BY <1>2, <1>4, <1>5 DEF Steady, Good, Shaped
  <2>2. Grows(m, b)
    BY <1>2, <1>4, <2>1, GrowsTransitive
  <2> QED BY <1>5, <2>1, <2>2, GrowsTransitive
<1>7. Steady(h)
  BY <1>2, <1>4, <1>5, <1>6 DEF Steady, Grows
<1> QED BY <1>2, <1>3, <1>4, <1>5, <1>6, <1>7

(* A value is assigned to the variable that was made for it.               *)
LEMMA AssignedSteady ==
    ASSUME NEW m, Steady(m), NEW h, Good(h), Grows(m, h), NEW v, NEW e,
           h.flaws = {} /\ h.fresh # 0 => SlotOf(h, v) = h.fresh
    PROVE  LET k == StoreTo(h, e, SlotOf(h, v)) IN Steady(k) /\ Grows(m, k)
<1> DEFINE s == SlotOf(h, v)
           k == StoreTo(h, e, s)
<1>1. h.flaws = {} /\ h.fresh # 0 => s = h.fresh
  OBVIOUS
<1> HIDE DEF s
<1>2. /\ Good(k) /\ Grows(h, k) /\ k.flaws = h.flaws
      /\ k.fresh = IF h.fresh = s THEN 0 ELSE h.fresh
  BY StoreToGood
<1> HIDE DEF k
<1>3. Grows(m, k)
  BY <1>2, GrowsTransitive DEF Steady, Good, Shaped
<1> QED BY <1>1, <1>2, <1>3 DEF Steady, k, s

(* An object's variable is opaque: it cannot be read as what it holds.     *)
LEMMA NewObjectSteady ==
    ASSUME NEW m, Steady(m), NEW v, ~ Declared(m, v)
    PROVE  LET h == [SetNewSlot(SymbolAdd(m, v, "void"), v, "text") EXCEPT !.fresh = 0]
           IN  Steady(h) /\ Grows(m, h)
<1> DEFINE a == SymbolAdd(m, v, "void")
           e == SetNewSlot(a, v, "text")
           h == [e EXCEPT !.fresh = 0]
<1>1. /\ Good(a) /\ Grows(m, a) /\ a.fresh = m.fresh /\ a.flaws = m.flaws
      /\ Declared(a, v) /\ TypeIn(a, v) = "void"
  BY SymbolAddGood DEF Steady
<1> HIDE DEF a
<1>2. Steady(a)
  BY <1>1 DEF Steady
<1>3. /\ Good(e) /\ Grows(a, e) /\ e.slots[e.fresh].t = "text"
      /\ \A j \in 1 .. Len(e.syms) : e.syms[j].slot = e.fresh => e.syms[j].type = "void"
  BY <1>1, <1>2, SetNewSlotGood
<1> HIDE DEF e
<1>4. /\ IsModule(h) /\ h.blocks = e.blocks /\ h.fn = e.fn /\ h.slots = e.slots
      /\ h.syms = e.syms /\ h.cur = e.cur /\ h.funs = e.funs /\ h.flaws = e.flaws
      /\ h.fresh = 0
  BY <1>3 DEF Good, Shaped, Formed, IsModule
<1> HIDE DEF h
<1>5. Shaped(h)
  <2>1. 0 \in 0 .. Len(e.slots)
    BY <1>3, FormedLengths DEF Good, Shaped
  <2> QED BY <1>3, <1>4, <2>1 DEF Good, Shaped, Formed, Block, Slot
<1>6. Grows(e, h)
  BY <1>3, <1>4, GrowsReflexive DEF Good, Shaped
<1>7. Grows(m, h)
  <2>1. Formed(m) /\ Formed(a) /\ Formed(e) /\ Formed(h)
    BY <1>1, <1>3, <1>5 DEF Steady, Good, Shaped
  <2>2. Grows(m, e)
    BY <1>1, <1>3, <2>1, GrowsTransitive
  <2> QED BY <1>6, <2>1, <2>2, GrowsTransitive
<1>8. ASSUME e.flaws = {} PROVE LoadsFollowStores(h) /\ SymbolsAreStored(h) /\ FreshIsHere(h)
  <2>1. LoadsFollowStores(e) /\ SymbolsAreStored(e)
    BY <1>3, <1>8 DEF Good, Sound
  <2>2. \A s : Stored(e, s) <=> Stored(h, s)
    BY <1>4, SameCode
  <2>3. LoadsFollowStores(h)
    BY <1>4, <2>1, SameCode
  <2>4. SymbolsAreStored(h)
    BY <1>3, <1>4, <2>1, <2>2 DEF SymbolsAreStored, Opaque
  <2>5. FreshIsHere(h)
    BY <1>4 DEF FreshIsHere
  <2> QED BY <2>3, <2>4, <2>5
<1>9. Steady(h)
  BY <1>4, <1>5, <1>8 DEF Steady, Good, Sound
<1> QED BY <1>7, <1>9 DEF h, e, a

(* A new function has an entry block of its own.                           *)
LEMMA OpenFunctionSteady ==
    ASSUME NEW m, Formed(m), Sound(m), m.flaws = {} => m.fresh = 0,
           NEW f, NEW params, NEW ret
    PROVE  LET h == OpenFunction(m, f, params, ret)
           IN  Steady(h) /\ Grows(m, h)
<1> DEFINE l == Len(m.funs) + 1
           a == [m EXCEPT !.f = l]
           b == AddBlocks(a, 1)
           x == [name |-> f, params |-> params, ret |-> ret, entry |-> Len(b.blocks)]
           F == Append(b.funs, x)
           h == OpenFunction(m, f, params, ret)
<1>1. Alike(m, a) /\ a.f = l
  BY DEF Formed, IsModule, Alike
<1>2. h = [b EXCEPT !.funs = F, !.cur = Len(b.blocks)]
  BY DEF OpenFunction
<1>3. x.entry = Len(b.blocks)
  OBVIOUS
<1>4. Len(m.funs) \in Nat /\ Len(m.blocks) \in Nat /\ l = Len(m.funs) + 1
  BY FormedLengths
<1> HIDE DEF a, x, l
<1>5. Formed(a) /\ Sound(a) /\ Grows(m, a)
  BY <1>1, AlikeForm
<1>6. /\ Formed(b) /\ Sound(b) /\ Grows(a, b) /\ Len(b.blocks) = Len(m.blocks) + 1
      /\ b.funs = m.funs /\ b.fresh = m.fresh /\ b.flaws = m.flaws
      /\ b.fn[Len(b.blocks)] = l
  <2>1. /\ Formed(b) /\ Sound(b) /\ Grows(a, b) /\ Len(b.blocks) = Len(a.blocks) + 1
        /\ b.funs = a.funs /\ b.fresh = a.fresh /\ b.flaws = a.flaws
        /\ \A i \in Len(a.blocks) + 1 .. Len(a.blocks) + 1 : b.fn[i] = a.f
    BY <1>5, AddBlocksForm
  <2> HIDE DEF b
  <2>2. Len(a.blocks) = Len(m.blocks) /\ a.funs = m.funs /\ a.fresh = m.fresh
        /\ a.flaws = m.flaws
    BY <1>1 DEF Alike
  <2>3. Len(b.blocks) \in Len(a.blocks) + 1 .. Len(a.blocks) + 1
    BY <1>4, <2>1, <2>2
  <2> QED BY <1>1, <2>1, <2>2, <2>3
<1> HIDE DEF b
<1>7. /\ IsList(F) /\ Len(F) = l /\ F[l] = x
      /\ \A i \in 1 .. Len(m.funs) : F[i] = m.funs[i]
  <2>1. IsList(b.funs)
    BY <1>6 DEF Formed
  <2>2. /\ IsList(F) /\ Len(F) = Len(b.funs) + 1 /\ F[Len(b.funs) + 1] = x
        /\ \A i \in 1 .. Len(b.funs) : F[i] = b.funs[i]
    BY <2>1, AppendToList
  <2> HIDE DEF F
  <2> QED BY <1>4, <1>6, <2>2
<1> HIDE DEF F, h
<1>8. /\ IsModule(h) /\ h.blocks = b.blocks /\ h.fn = b.fn /\ h.slots = b.slots
      /\ h.syms = b.syms /\ h.cur = Len(b.blocks) /\ h.funs = F /\ h.fresh = b.fresh
      /\ h.flaws = b.flaws
  BY <1>2, <1>6 DEF Formed, IsModule
<1>9. Len(b.blocks) \in Block(b)
  BY <1>4, <1>6 DEF Block
<1>10. Shaped(h)
  <2>1. \A i \in 1 .. Len(F) : F[i].entry \in Block(b) /\ b.fn[F[i].entry] = i
    <3> SUFFICES ASSUME NEW i \in 1 .. Len(F)
                 PROVE  F[i].entry \in Block(b) /\ b.fn[F[i].entry] = i
      OBVIOUS
    <3>1. i \in 1 .. Len(m.funs) \/ i = l
      BY <1>4, <1>7
    <3>2. CASE i \in 1 .. Len(m.funs)
      BY <1>6, <1>7, <3>2 DEF Formed
    <3>3. CASE i = l
      BY <1>3, <1>6, <1>7, <1>9, <3>3
    <3> QED BY <3>1, <3>2, <3>3
  <2> QED BY <1>4, <1>6, <1>7, <1>8, <1>9, <2>1 DEF Shaped, Formed, Block, Slot
<1>11. Grows(b, h)
  BY <1>6, <1>8, GrowsReflexive
<1>12. Grows(m, h)
  <2>1. Grows(m, b)
    BY <1>5, <1>6, GrowsTransitive
  <2> QED BY <1>6, <1>10, <1>11, <2>1, GrowsTransitive DEF Shaped
<1>13. ASSUME b.flaws = {} PROVE LoadsFollowStores(h) /\ SymbolsAreStored(h) /\ FreshIsHere(h)
  <2>1. LoadsFollowStores(b) /\ SymbolsAreStored(b) /\ h.fresh = 0
    BY <1>6, <1>8, <1>13 DEF Sound
  <2>2. \A s : Stored(b, s) <=> Stored(h, s)
    BY <1>8, SameCode
  <2>3. LoadsFollowStores(h)
    BY <1>8, <2>1, SameCode
  <2>4. SymbolsAreStored(h)
    BY <1>8, <2>1, <2>2 DEF SymbolsAreStored, Opaque
  <2>5. FreshIsHere(h)
    BY <2>1 DEF FreshIsHere
  <2> QED BY <2>3, <2>4, <2>5
<1>14. Steady(h)
  BY <1>6, <1>8, <1>10, <1>13 DEF Steady, Good, Sound
<1> QED BY <1>12, <1>14 DEF h

-----------------------------------------------------------------------------
(* The actions of the generator.                                           *)

(* The stack after an activation has gone on with some items.              *)
Follows(r, items, w) ==
    /\ IsList(r) /\ Len(r) = Len(items) + Len(w) - 1
    /\ Len(w) \in Nat /\ Len(w) >= 1 /\ Len(items) \in Nat /\ Head(w) = w[1]
    /\ \A j \in 1 .. Len(items) : r[j] = items[j]
    /\ \A j \in 2 .. Len(w) : r[Len(items) + j - 1] = w[j]
    /\ \A j \in 1 .. Len(r) :
          \/ j \in 1 .. Len(items)
          \/ j - Len(items) + 1 \in 2 .. Len(w) /\ r[j] = w[j - Len(items) + 1]

(* That is what appending the items to the tail gives.                     *)
LEMMA StackAfter ==
    ASSUME NEW w, IsList(w), w # <<>>, NEW items, IsList(items),
           NEW r, r = items \o Tail(w)
    PROVE  Follows(r, items, w)
<1> DEFINE t == Tail(w)
<1>1. /\ IsList(t) /\ Len(w) >= 1 /\ Len(t) = Len(w) - 1 /\ Head(w) = w[1]
      /\ \A i \in 1 .. Len(w) - 1 : t[i] = w[i + 1]
  BY TailOfList
<1>2. Len(w) \in Nat /\ Len(items) \in Nat
  BY ListLength
<1> HIDE DEF t
<1>3. IsList(t)
  BY <1>1
<1>4. /\ IsList(r) /\ Len(r) = Len(items) + Len(t)
      /\ \A i \in 1 .. Len(items) : r[i] = items[i]
      /\ \A i \in 1 .. Len(t) : r[Len(items) + i] = t[i]
  BY <1>3, ConcatLists DEF t
<1>5. ASSUME NEW j \in 2 .. Len(w) PROVE r[Len(items) + j - 1] = w[j]
  <2>1. j - 1 \in 1 .. Len(t) /\ j - 1 + 1 = j
        /\ Len(items) + (j - 1) = Len(items) + j - 1
    BY <1>1, <1>2
  <2>2. r[Len(items) + (j - 1)] = t[j - 1]
    BY <1>4, <2>1
  <2>3. t[j - 1] = w[j]
    BY <1>1, <2>1
  <2> QED BY <2>1, <2>2, <2>3
<1>6. ASSUME NEW j \in 1 .. Len(r), j \notin 1 .. Len(items)
      PROVE  j - Len(items) + 1 \in 2 .. Len(w) /\ r[j] = w[j - Len(items) + 1]
  <2>1. j - Len(items) + 1 \in 2 .. Len(w)
        /\ Len(items) + (j - Len(items) + 1) - 1 = j
    BY <1>1, <1>2, <1>4, <1>6
  <2> QED BY <1>5, <2>1
<1> QED BY <1>1, <1>2, <1>4, <1>5, <1>6 DEF Follows

(* What the activations need is still there after one of them went on.     *)
LEMMA WorkGoesOn ==
    ASSUME NEW m, Formed(m), NEW h, Formed(h), Grows(m, h), NEW w, Work(m, w), w # <<>>,
           NEW items, IsList(items), \A j \in 1 .. Len(items) : Possible(h, items[j]),
           NEW r, r = items \o Tail(w)
    PROVE  Work(h, r)
<1>1. IsList(w)
  BY DEF Work
<1>2. Follows(r, items, w)
  BY <1>1, StackAfter
<1>3. \A i \in 2 .. Len(w) : Possible(h, w[i])
  <2>1. \A i \in 2 .. Len(w) : i \in 1 .. Len(w)
    BY <1>2 DEF Follows
  <2> QED BY <2>1, PossibleKept DEF Work
<1> QED BY <1>2, <1>3 DEF Work, Follows

(* A statement goes on: no alloca waits for its value.                     *)
LEMMA StatementGoesOn ==
    ASSUME NEW m, Good(m), NEW h, Steady(h), Grows(m, h), NEW w, Work(m, w), w # <<>>,
           NEW items, IsList(items), \A j \in 1 .. Len(items) : Possible(h, items[j]),
           NEW r, r = items \o Tail(w)
    PROVE  Ordered(h, r)
<1>1. Formed(m) /\ Formed(h)
  BY DEF Good, Steady, Shaped
<1>2. Work(h, r)
  BY <1>1, WorkGoesOn
<1>3. Pending(h, r)
  BY DEF Pending, Steady
<1> QED BY <1>2, <1>3 DEF Ordered, Steady

(* An expression goes on: what waits for its value goes on waiting.        *)
LEMMA ExpressionGoesOn ==
    ASSUME NEW m, NEW w, Ordered(m, w), w # <<>>, Head(w).k \in Expressions,
           NEW h, Good(h), Grows(m, h), h.syms = m.syms, h.fresh = m.fresh,
           NEW items, IsList(items), \A j \in 1 .. Len(items) : items[j].k \in Expressions,
           NEW r, r = items \o Tail(w)
    PROVE  Ordered(h, r)
<1>1. Good(m) /\ Work(m, w) /\ Pending(m, w) /\ Formed(m) /\ Formed(h)
  BY DEF Ordered, Good, Shaped
<1>2. \A j \in 1 .. Len(items) : Possible(h, items[j])
  BY DEF Possible, Expressions, Leaving
<1>3. Work(h, r)
  BY <1>1, <1>2, WorkGoesOn
<1>4. IsList(w)
  BY <1>1 DEF Work
<1>5. Follows(r, items, w)
  BY <1>4, StackAfter
<1>6. ASSUME h.flaws = {}, h.fresh # 0
      PROVE  \E j \in 1 .. Len(r) :
                /\ r[j].k = "start" /\ SlotOf(h, r[j].v) = h.fresh
                /\ \A i \in 1 .. j - 1 : r[i].k \in Expressions
  <2>1. m.flaws = {} /\ m.fresh # 0
    BY <1>6 DEF Grows
  <2>2. PICK j \in 1 .. Len(w) :
           /\ w[j].k = "start" /\ SlotOf(m, w[j].v) = m.fresh
           /\ \A i \in 1 .. j - 1 : w[i].k \in Expressions
    BY <1>1, <2>1 DEF Pending
  <2>3. j # 1
    BY <1>5, <2>2 DEF Expressions, Follows
  <2> DEFINE l == Len(items) + j - 1
  <2>4. j \in 2 .. Len(w) /\ l \in 1 .. Len(r)
    BY <1>5, <2>3 DEF Follows
  <2>5. r[l] = w[j]
    BY <1>5, <2>4 DEF Follows
  <2>6. SlotOf(h, r[l].v) = h.fresh
    <3>1. \A v : SlotOf(h, v) = SlotOf(m, v)
      BY SameSymbols
    <3> QED BY <2>2, <2>5, <3>1
  <2>7. ASSUME NEW i \in 1 .. l - 1 PROVE r[i].k \in Expressions
    <3>1. CASE i \in 1 .. Len(items)
      BY <1>5, <3>1 DEF Follows
    <3>2. CASE i \notin 1 .. Len(items)
      <4>1. i \in 1 .. Len(r)
        BY <1>5, <2>4 DEF Follows
      <4>2. r[i] = w[i - Len(items) + 1]
        BY <1>5, <3>2, <4>1 DEF Follows
      <4>3. i - Len(items) + 1 \in 1 .. j - 1
        BY <1>5, <2>4, <3>2 DEF Follows
      <4> QED BY <2>2, <4>2, <4>3
    <3> QED BY <3>1, <3>2
  <2> QED BY <2>2, <2>4, <2>5, <2>6, <2>7
<1> QED BY <1>3, <1>6 DEF Ordered, Pending

(* The stack without its innermost activation.                             *)
LEMMA NoItems ==
    ASSUME NEW w, IsList(w), w # <<>>
    PROVE  <<>> \o Tail(w) = Tail(w) /\ IsList(<<>>)
<1> DEFINE t == Tail(w)
           R == {t[i] : i \in DOMAIN t}
<1>1. IsList(t)
  BY TailOfList
<1>2. t \in Seq(R)
  BY <1>1 DEF IsList
<1> HIDE DEF t, R
<1>3. <<>> \o t = t
  BY <1>2
<1>4. <<>> \in Seq({})
  OBVIOUS
<1>5. IsList(<<>>)
  BY <1>4, SeqIsList
<1> QED BY <1>3, <1>5 DEF t

(* An expression returns.                                                  *)
LEMMA ExpressionReturns ==
    ASSUME NEW m, NEW w, Ordered(m, w), w # <<>>, Head(w).k \in Expressions,
           NEW h, Good(h), Grows(m, h), h.syms = m.syms, h.fresh = m.fresh
    PROVE  Ordered(h, Tail(w))
<1> DEFINE items == <<>>
<1>1. IsList(items) /\ items \o Tail(w) = Tail(w)
  BY NoItems DEF Ordered, Work
<1>2. \A j \in 1 .. Len(items) : items[j].k \in Expressions
  OBVIOUS
<1> HIDE DEF items
<1> QED BY <1>1, <1>2, ExpressionGoesOn

(* Where the innermost activation is no expression, nothing waits.         *)
LEMMA Settles ==
    ASSUME NEW m, NEW w, Ordered(m, w), w # <<>>,
           Head(w).k \notin Expressions, Head(w).k # "start"
    PROVE  Steady(m)
<1>1. IsList(w)
  BY DEF Ordered, Work
<1>2. Len(w) \in Nat /\ Len(w) >= 1 /\ Head(w) = w[1]
  BY <1>1, TailOfList, ListLength
<1>3. ASSUME m.flaws = {}, m.fresh # 0 PROVE FALSE
  <2>1. PICK j \in 1 .. Len(w) :
           w[j].k = "start" /\ \A i \in 1 .. j - 1 : w[i].k \in Expressions
    BY <1>3 DEF Ordered, Pending
  <2>2. j # 1
    BY <1>2, <2>1
  <2>3. 1 \in 1 .. j - 1
    BY <2>2
  <2> QED BY <1>2, <2>1, <2>3
<1> QED BY <1>3 DEF Steady, Ordered

(* One item.                                                               *)
LEMMA OneItem ==
    ASSUME NEW a
    PROVE  LET s == <<a>> IN IsList(s) /\ Len(s) = 1 /\ s[1] = a
<1>1. <<a>> \in Seq({a})
  OBVIOUS
<1> QED BY <1>1, SeqIsList

(* Two items.                                                              *)
LEMMA TwoItems ==
    ASSUME NEW a, NEW b
    PROVE  LET s == <<a, b>> IN IsList(s) /\ Len(s) = 2 /\ s[1] = a /\ s[2] = b
<1>1. <<a, b>> \in Seq({a, b})
  OBVIOUS
<1> QED BY <1>1, SeqIsList

(* Four items.                                                             *)
LEMMA FourItems ==
    ASSUME NEW a, NEW b, NEW c, NEW d
    PROVE  LET s == <<a, b, c, d>>
           IN  IsList(s) /\ Len(s) = 4 /\ s[1] = a /\ s[2] = b /\ s[3] = c /\ s[4] = d
<1>1. <<a, b, c, d>> \in Seq({a, b, c, d})
  OBVIOUS
<1> QED BY <1>1, SeqIsList

(* Six items.                                                              *)
LEMMA SixItems ==
    ASSUME NEW a, NEW b, NEW c, NEW d, NEW e, NEW f
    PROVE  LET s == <<a, b, c, d, e, f>>
           IN  /\ IsList(s) /\ Len(s) = 6 /\ s[1] = a /\ s[2] = b /\ s[3] = c
               /\ s[4] = d /\ s[5] = e /\ s[6] = f
<1>1. <<a, b, c, d, e, f>> \in Seq({a, b, c, d, e, f})
  OBVIOUS
<1> QED BY <1>1, SeqIsList

(* An instruction that computes something and is no load.                  *)
LEMMA CallingGood ==
    ASSUME NEW m, Good(m), NEW i, ~ IsLoad(i)
    PROVE  LET h == Computed(m, i)
           IN  Good(h) /\ Grows(m, h) /\ h.syms = m.syms /\ h.fresh = m.fresh
BY ComputedGood

(* An operation of two operands.                                           *)
LEMMA OperationGood ==
    ASSUME NEW m, Good(m), NEW op, NEW l, NEW r
    PROVE  LET h == Operation(m, op, l, r)
           IN  Good(h) /\ Grows(m, h) /\ h.syms = m.syms /\ h.fresh = m.fresh
<1> DEFINE f == Flaw(m, "address")
           a == IF TypeOf(l) = "text" THEN f ELSE m
           i == [op |-> "op", f |-> op, l |-> l, r |-> r, to |-> NextTemp(m)]
           h == Computed(a, i)
<1>1. Good(f) /\ Grows(m, f) /\ f.syms = m.syms /\ f.fresh = m.fresh
  BY FlawGood
<1>2. Grows(m, m)
  BY GrowsReflexive DEF Good, Shaped
<1>3. Good(a) /\ Grows(m, a) /\ a.syms = m.syms /\ a.fresh = m.fresh
  <2> HIDE DEF f
  <2> QED BY <1>1, <1>2
<1>4. ~ IsLoad(i)
  BY DEF IsLoad
<1> HIDE DEF a, i
<1>5. Good(h) /\ Grows(a, h) /\ h.syms = a.syms /\ h.fresh = a.fresh
  BY <1>3, <1>4, CallingGood
<1>6. h = Operation(m, op, l, r)
  BY DEF Operation, a, i
<1> HIDE DEF h
<1>7. Grows(m, h)
  BY <1>3, <1>5, GrowsTransitive DEF Good, Shaped
<1> QED BY <1>3, <1>5, <1>6, <1>7

(* codegen_expression, one action at a time.                               *)
LEMMA ExpressionKeepsOrder ==
    ASSUME Ordered(g, todo), todo # <<>>, GenerateExpression
    PROVE  Ordered(g, todo)'
<1>1. Good(g) /\ Grows(g, g)
  BY GrowsReflexive DEF Ordered, Good, Shaped
<1>2. ASSUME Item.k \in Expressions, NEW v, Returns(g, v) PROVE Ordered(g', todo')
  <2>1. g' = g /\ todo' = Tail(todo)
    BY <1>2 DEF Returns, Above
  <2> QED BY <1>1, <1>2, <2>1, ExpressionReturns DEF Item
<1>3. ASSUME Item.k \in Expressions, NEW a, NEW b, a.k \in Expressions, b.k \in Expressions,
             GoesOn(g, <<a, b>>)
      PROVE  Ordered(g', todo')
  <2> DEFINE items == <<a, b>>
  <2>1. g' = g /\ todo' = items \o Tail(todo)
    BY <1>3 DEF GoesOn, Above
  <2>2. IsList(items) /\ Len(items) = 2 /\ items[1] = a /\ items[2] = b
    BY TwoItems
  <2> HIDE DEF items
  <2>3. \A j \in 1 .. Len(items) : items[j].k \in Expressions
    BY <1>3, <2>2
  <2> QED BY <1>1, <1>3, <2>1, <2>2, <2>3, ExpressionGoesOn DEF Item
<1>4. ASSUME Item.k \in Expressions, NEW a, a.k \in Expressions, GoesOn(g, <<a>>)
      PROVE  Ordered(g', todo')
  <2> DEFINE items == <<a>>
  <2>1. g' = g /\ todo' = items \o Tail(todo)
    BY <1>4 DEF GoesOn, Above
  <2>2. IsList(items) /\ Len(items) = 1 /\ items[1] = a
    BY OneItem
  <2> HIDE DEF items
  <2>3. \A j \in 1 .. Len(items) : items[j].k \in Expressions
    BY <1>4, <2>2
  <2> QED BY <1>1, <1>4, <2>1, <2>2, <2>3, ExpressionGoesOn DEF Item
<1>5. ASSUME NEW kinds, Evaluates(kinds) PROVE Item.k \in Expressions
  BY <1>5 DEF Evaluates, Expressions
<1>6. \A e : Expr(e).k \in Expressions
  BY DEF Expr, Expressions
<1>7. CASE GenNothing
  BY <1>2, <1>5, <1>7 DEF GenNothing
<1>8. CASE GenLiteral
  BY <1>2, <1>5, <1>8 DEF GenLiteral
<1>9. CASE GenIdentifier
  <2> DEFINE v == Item.e.v
             slot == SlotOf(g, v)
             t == TypeIn(g, v)
             h == LoadFrom(g, slot, t)
  <2>1. Item.k \in Expressions
    BY <1>5, <1>9 DEF GenIdentifier
  <2>2. CASE Returns(g, None)
    BY <1>2, <2>1, <2>2
  <2>3. CASE Crashes
    BY <2>3 DEF Crashes
  <2>4. CASE slot # 0 /\ t # "void" /\ Returns(h, Temp(NextTemp(g), t))
    <3>1. (g.flaws = {} /\ g.slots[slot].t = t /\ slot # g.fresh) => Stored(g, slot)
      <4> HIDE DEF v
      <4> QED BY <1>1, <2>4, SymbolReadable
    <3>2. g' = h /\ todo' = Tail(todo)
      BY <2>4 DEF Returns, Above
    <3> HIDE DEF slot, t
    <3>3. Good(h) /\ Grows(g, h) /\ h.syms = g.syms /\ h.fresh = g.fresh
      BY <1>1, <3>1, LoadFromGood
    <3> HIDE DEF h
    <3>4. Ordered(h, Tail(todo))
      BY <2>1, <3>3, ExpressionReturns DEF Item
    <3> QED BY <3>2, <3>4
  <2> QED BY <1>9, <2>2, <2>3, <2>4 DEF GenIdentifier
<1>10. CASE GenBinary
  <2> DEFINE a == Expr(Item.e.l)
             b == [k |-> "right", op |-> Item.e.op, r |-> Item.e.r]
  <2>1. Evaluates({"bin"}) /\ GoesOn(g, <<a, b>>)
    BY <1>10 DEF GenBinary
  <2>2. a.k \in Expressions /\ b.k \in Expressions
    BY <1>6 DEF Expressions
  <2> HIDE DEF a, b
  <2> QED BY <1>3, <1>5, <2>1, <2>2
<1>11. CASE GenRight
  <2> DEFINE a == Expr(Item.r)
             b == [k |-> "apply", op |-> Item.op, l |-> val]
  <2>1. Item.k \in Expressions /\ GoesOn(g, <<a, b>>)
    BY <1>11 DEF GenRight, Expressions
  <2>2. a.k \in Expressions /\ b.k \in Expressions
    BY <1>6 DEF Expressions
  <2> HIDE DEF a, b
  <2> QED BY <1>3, <2>1, <2>2
<1>12. CASE GenApply
  <2> DEFINE f == Flaw(g, "address")
             h == Operation(g, Item.op, Item.l, val)
             x == Lit(Binary(Item.op, Item.l.x, val.x))
             y == Temp(NextTemp(g), ResultType(Item.op, val))
  <2>1. Item.k \in Expressions
    BY <1>12 DEF GenApply, Expressions
  <2>2. \/ Returns(g, None) \/ Returns(g, x) \/ Returns(f, x) \/ Returns(h, y)
    BY <1>12 DEF GenApply
  <2> HIDE DEF x, y
  <2>3. ASSUME Returns(f, x) PROVE Ordered(g', todo')
    <3>1. Good(f) /\ Grows(g, f) /\ f.syms = g.syms /\ f.fresh = g.fresh
      BY <1>1, FlawGood
    <3> HIDE DEF f
    <3>2. g' = f /\ todo' = Tail(todo)
      BY <2>3 DEF Returns, Above
    <3>3. Ordered(f, Tail(todo))
      BY <2>1, <3>1, ExpressionReturns DEF Item
    <3> QED BY <3>2, <3>3
  <2>4. ASSUME Returns(h, y) PROVE Ordered(g', todo')
    <3>1. Good(h) /\ Grows(g, h) /\ h.syms = g.syms /\ h.fresh = g.fresh
      BY <1>1, OperationGood
    <3> HIDE DEF h
    <3>2. g' = h /\ todo' = Tail(todo)
      BY <2>4 DEF Returns, Above
    <3>3. Ordered(h, Tail(todo))
      BY <2>1, <3>1, ExpressionReturns DEF Item
    <3> QED BY <3>2, <3>3
  <2> HIDE DEF f, h
  <2> QED BY <1>2, <2>1, <2>2, <2>3, <2>4
<1>13. CASE GenUnary
  <2> DEFINE a == Expr(Item.e.e)
             b == [k |-> "unary", op |-> Item.e.op]
  <2>1. Evaluates({"un"}) /\ GoesOn(g, <<a, b>>)
    BY <1>13 DEF GenUnary
  <2>2. a.k \in Expressions /\ b.k \in Expressions
    BY <1>6 DEF Expressions
  <2> HIDE DEF a, b
  <2> QED BY <1>3, <1>5, <2>1, <2>2
<1>14. ASSUME Item.k \in Expressions, NEW i, ~ IsLoad(i), NEW v, Returns(Computed(g, i), v)
       PROVE  Ordered(g', todo')
  <2> DEFINE h == Computed(g, i)
  <2>1. Good(h) /\ Grows(g, h) /\ h.syms = g.syms /\ h.fresh = g.fresh
    BY <1>1, <1>14, CallingGood
  <2> HIDE DEF h
  <2>2. g' = h /\ todo' = Tail(todo)
    BY <1>14 DEF Returns, Above, h
  <2>3. Ordered(h, Tail(todo))
    BY <1>14, <2>1, ExpressionReturns DEF Item
  <2> QED BY <2>2, <2>3
<1>15. CASE GenNegated
  <2> DEFINE x == Lit(Unary(Item.op, val.x))
             i == [op |-> "unop", f |-> Item.op, e |-> val, to |-> NextTemp(g)]
             y == Temp(NextTemp(g), TypeOf(val))
  <2>1. Item.k \in Expressions
    BY <1>15 DEF GenNegated, Expressions
  <2>2. Returns(g, None) \/ Returns(g, x) \/ Returns(Computed(g, i), y)
    BY <1>15 DEF GenNegated
  <2>3. ~ IsLoad(i)
    BY DEF IsLoad
  <2> HIDE DEF x, i, y
  <2> QED BY <1>2, <1>14, <2>1, <2>2, <2>3
<1>16. \A e, i, args : Args(e, i, args).k \in Expressions /\ Pass(e, i, args).k \in Expressions
  BY DEF Args, Pass, Expressions
<1>17. CASE GenUserCall
  BY <1>2, <1>4, <1>5, <1>16, <1>17 DEF GenUserCall
<1>18. CASE GenStdCall
  BY <1>4, <1>5, <1>16, <1>18 DEF GenStdCall
<1>19. CASE GenArgument
  <2> DEFINE a == Expr(Item.e.args[Item.i])
             b == Pass(Item.e, Item.i, Item.args)
  <2>1. Item.k \in Expressions /\ GoesOn(g, <<a, b>>)
    BY <1>19 DEF GenArgument, Expressions
  <2>2. a.k \in Expressions /\ b.k \in Expressions
    BY <1>6, <1>16
  <2> HIDE DEF a, b
  <2> QED BY <1>3, <2>1, <2>2
<1>20. CASE PassArgument
  <2> DEFINE a == Args(Item.e, Item.i + 1, Append(Item.args, val))
  <2>1. Item.k \in Expressions /\ (Returns(g, None) \/ GoesOn(g, <<a>>))
    BY <1>20 DEF PassArgument, Expressions
  <2>2. a.k \in Expressions
    BY <1>16
  <2> HIDE DEF a
  <2> QED BY <1>2, <1>4, <2>1, <2>2
<1>21. CASE GenCall
  <2>1. Item.k \in Expressions
    BY <1>21 DEF GenCall, Expressions
  <2>2. ASSUME NEW op, op # "load", NEW f, NEW args, NEW t, Calling(op, f, args, t)
        PROVE  Ordered(g', todo')
    <3> DEFINE i == [op |-> op, f |-> f, args |-> args, to |-> NextTemp(g)]
    <3>1. ~ IsLoad(i)
      BY <2>2 DEF IsLoad
    <3>2. Returns(Computed(g, i), Temp(NextTemp(g), t))
      BY <2>2 DEF Calling
    <3> HIDE DEF i
    <3> QED BY <1>14, <2>1, <3>1, <3>2
  <2>3. \/ Returns(g, None)
        \/ \E op, f, args, t : op # "load" /\ Calling(op, f, args, t)
    <3>1. "call" # "load" /\ "draw" # "load"
      OBVIOUS
    <3> QED BY <1>21, <3>1, Zenon DEF GenCall
  <2> QED BY <1>2, <2>1, <2>2, <2>3
<1> QED BY <1>7, <1>8, <1>9, <1>10, <1>11, <1>12, <1>13, <1>15, <1>17, <1>18,
           <1>19, <1>20, <1>21 DEF GenerateExpression

(* A statement goes on with nothing.                                       *)
LEMMA GoesOnWithNone ==
    ASSUME Good(g), Work(g, todo), todo # <<>>,
           NEW h, Steady(h), Grows(g, h), GoesOn(h, <<>>)
    PROVE  Ordered(g', todo')
<1> DEFINE items == <<>>
<1>1. g' = h /\ todo' = items \o Tail(todo)
  BY DEF GoesOn, Above
<1>2. IsList(items)
  BY NoItems DEF Work
<1>3. \A j \in 1 .. Len(items) : Possible(h, items[j])
  OBVIOUS
<1> HIDE DEF items
<1> QED BY <1>1, <1>2, <1>3, StatementGoesOn

(* One item.                                                               *)
LEMMA GoesOnWithOne ==
    ASSUME Good(g), Work(g, todo), todo # <<>>, NEW h, Steady(h), Grows(g, h),
           NEW a, Possible(h, a), GoesOn(h, <<a>>)
    PROVE  Ordered(g', todo')
<1> DEFINE items == <<a>>
<1>1. g' = h /\ todo' = items \o Tail(todo)
  BY DEF GoesOn, Above
<1>2. IsList(items) /\ Len(items) = 1 /\ items[1] = a
  BY OneItem
<1> HIDE DEF items
<1>3. \A j \in 1 .. Len(items) : Possible(h, items[j])
  BY <1>2
<1> QED BY <1>1, <1>2, <1>3, StatementGoesOn

(* Two items.                                                              *)
LEMMA GoesOnWithTwo ==
    ASSUME Good(g), Work(g, todo), todo # <<>>, NEW h, Steady(h), Grows(g, h),
           NEW a, Possible(h, a), NEW b, Possible(h, b), GoesOn(h, <<a, b>>)
    PROVE  Ordered(g', todo')
<1> DEFINE items == <<a, b>>
<1>1. g' = h /\ todo' = items \o Tail(todo)
  BY DEF GoesOn, Above
<1>2. IsList(items) /\ Len(items) = 2 /\ items[1] = a /\ items[2] = b
  BY TwoItems
<1> HIDE DEF items
<1>3. \A j \in 1 .. Len(items) : Possible(h, items[j])
  BY <1>2
<1> QED BY <1>1, <1>2, <1>3, StatementGoesOn

(* Four items.                                                             *)
LEMMA GoesOnWithFour ==
    ASSUME Good(g), Work(g, todo), todo # <<>>, NEW h, Steady(h), Grows(g, h),
           NEW a, Possible(h, a), NEW b, Possible(h, b), NEW c, Possible(h, c),
           NEW d, Possible(h, d), GoesOn(h, <<a, b, c, d>>)
    PROVE  Ordered(g', todo')
<1> DEFINE items == <<a, b, c, d>>
<1>1. g' = h /\ todo' = items \o Tail(todo)
  BY DEF GoesOn, Above
<1>2. /\ IsList(items) /\ Len(items) = 4 /\ items[1] = a /\ items[2] = b /\ items[3] = c
      /\ items[4] = d
  BY FourItems
<1> HIDE DEF items
<1>3. \A j \in 1 .. Len(items) : Possible(h, items[j])
  BY <1>2
<1> QED BY <1>1, <1>2, <1>3, StatementGoesOn

(* What is known where the innermost activation is one of a statement.     *)
Idle == Item.k \notin Expressions /\ Item.k # "start"

(* Then nothing waits.                                                     *)
LEMMA IdleIsSteady ==
    ASSUME Ordered(g, todo), todo # <<>>, Idle
    PROVE  Steady(g) /\ Good(g) /\ Work(g, todo) /\ Grows(g, g)
BY Settles, GrowsReflexive DEF Idle, Item, Ordered, Good, Shaped

(* What the innermost activation needs is there.                           *)
LEMMA ItemIsPossible ==
    ASSUME Work(g, todo), todo # <<>>
    PROVE  Possible(g, Item)
<1>1. IsList(todo)
  BY DEF Work
<1>2. Len(todo) \in Nat /\ Len(todo) >= 1 /\ Head(todo) = todo[1]
  BY <1>1, TailOfList, ListLength
<1> QED BY <1>2 DEF Work, Item

(* codegen_statement without branches and loops, one action at a time.     *)
LEMMA StatementKeepsOrder ==
    ASSUME Ordered(g, todo), todo # <<>>, Idle,
           \/ GenNone \/ GenLet \/ Assign \/ GenNew \/ GenWrite \/ WriteValue \/ GenReturn
           \/ ReturnValue \/ GenList \/ GenListItem \/ GenRegion \/ GenOther \/ GenIf
           \/ GenForEach
    PROVE  Ordered(g', todo')
<1>1. Steady(g) /\ Good(g) /\ Work(g, todo) /\ Grows(g, g)
  BY IdleIsSteady
<1>2. ASSUME GoesOn(g, <<>>) PROVE Ordered(g', todo')
  BY <1>1, <1>2, GoesOnWithNone
<1>3. ASSUME NEW what, GoesOn(Flaw(g, what), <<>>) PROVE Ordered(g', todo')
  <2> DEFINE h == Flaw(g, what)
  <2>1. Steady(h) /\ Grows(g, h)
    BY <1>1, FlawSteady
  <2>2. GoesOn(h, <<>>)
    BY <1>3
  <2> HIDE DEF h
  <2> QED BY <1>1, <2>1, <2>2, GoesOnWithNone
<1>4. ASSUME NEW i, ~ IsLoad(i), GoesOn(Emitted(g, i), <<>>) PROVE Ordered(g', todo')
  <2> DEFINE h == Emitted(g, i)
  <2>1. Steady(h) /\ Grows(g, h)
    BY <1>1, <1>4, EmittedSteady
  <2>2. GoesOn(h, <<>>)
    BY <1>4
  <2> HIDE DEF h
  <2> QED BY <1>1, <2>1, <2>2, GoesOnWithNone
<1>5. ASSUME NEW a, NEW b, Possible(g, a), Possible(g, b), GoesOn(g, <<a, b>>)
      PROVE  Ordered(g', todo')
  BY <1>1, <1>5, GoesOnWithTwo
<1>6. ASSUME NEW a, Possible(g, a), GoesOn(g, <<a>>) PROVE Ordered(g', todo')
  BY <1>1, <1>6, GoesOnWithOne
<1>7. ASSUME NEW h, NEW e PROVE Possible(h, Expr(e)) /\ Possible(h, Stmt(e))
  BY DEF Possible, Expr, Stmt, Leaving
<1>8. \A b, i : Possible(g, ListFrom(b, i))
  BY DEF Possible, ListFrom, Leaving
<1>9. CASE GenNone
  BY <1>2, <1>9 DEF GenNone
<1>10. CASE GenLet
  <2> DEFINE a == Expr(Item.s.e)
             b == [k |-> "assign", v |-> Item.s.v]
  <2>1. GoesOn(g, <<a, b>>) /\ Possible(g, a) /\ Possible(g, b)
    BY <1>7, <1>10 DEF GenLet, Possible, Leaving
  <2> HIDE DEF a, b
  <2> QED BY <1>5, <2>1
<1>11. CASE Assign
  <2> DEFINE m == Variable(g, Item.v, Inferred(TypeOf(val)))
             h == StoreTo(m, val, SlotOf(m, Item.v))
  <2>1. Good(m) /\ Grows(g, m) /\ (m.flaws = {} /\ m.fresh # 0 => SlotOf(m, Item.v) = m.fresh)
    BY <1>1, VariableGood
  <2>2. GoesOn(Flaw(g, "dropped"), <<>>) \/ Crashes \/ GoesOn(h, <<>>)
    BY <1>11 DEF Assign
  <2> HIDE DEF m
  <2>3. Steady(h) /\ Grows(g, h)
    BY <1>1, <2>1, AssignedSteady
  <2> HIDE DEF h
  <2>4. CASE Crashes
    BY <2>4 DEF Crashes
  <2>5. CASE GoesOn(h, <<>>)
    BY <1>1, <2>3, <2>5, GoesOnWithNone
  <2> QED BY <1>3, <2>2, <2>4, <2>5
<1>12. CASE GenNew
  <2> DEFINE v == Item.s.v
             h == [SetNewSlot(SymbolAdd(g, v, "void"), v, "text") EXCEPT !.fresh = 0]
  <2>1. CASE ~ Declared(g, v) /\ GoesOn(h, <<>>)
    <3>1. Steady(h) /\ Grows(g, h)
      <4> HIDE DEF v
      <4> QED BY <1>1, <2>1, NewObjectSteady
    <3> HIDE DEF h
    <3> QED BY <1>1, <2>1, <3>1, GoesOnWithNone
  <2>2. CASE GoesOn(Flaw(g, "dropped"), <<>>)
    BY <1>3, <2>2
  <2> QED BY <1>12, <2>1, <2>2 DEF GenNew
<1>13. CASE GenWrite
  <2> DEFINE a == Expr(Item.s.e)
             b == [k |-> "print"]
  <2>1. GoesOn(g, <<a, b>>) /\ Possible(g, a) /\ Possible(g, b)
    BY <1>7, <1>13 DEF GenWrite, Possible, Leaving
  <2> HIDE DEF a, b
  <2> QED BY <1>5, <2>1
<1>14. CASE WriteValue
  <2> DEFINE i == [op |-> "write", e |-> val]
  <2>1. ~ IsLoad(i)
    BY DEF IsLoad
  <2>2. GoesOn(Flaw(g, "dropped"), <<>>) \/ GoesOn(Emitted(g, i), <<>>)
    BY <1>14 DEF WriteValue
  <2> HIDE DEF i
  <2> QED BY <1>3, <1>4, <2>1, <2>2
<1>15. \A e : ~ IsLoad(Ret(e))
  BY DEF IsLoad, Ret
<1>16. CASE GenReturn
  <2> DEFINE a == Expr(Item.s.e)
             b == [k |-> "result"]
  <2>1. GoesOn(Emitted(g, Ret(None)), <<>>) \/ GoesOn(g, <<a, b>>)
    BY <1>16 DEF GenReturn
  <2>2. Possible(g, a) /\ Possible(g, b)
    BY <1>7 DEF Possible, Leaving
  <2> HIDE DEF a, b
  <2> QED BY <1>4, <1>5, <1>15, <2>1, <2>2
<1>17. CASE ReturnValue
  BY <1>3, <1>4, <1>15, <1>17 DEF ReturnValue
<1>18. CASE GenList
  BY <1>6, <1>8, <1>18 DEF GenList
<1>19. CASE GenListItem
  <2> DEFINE a == Stmt(Item.b[Item.i])
             b == ListFrom(Item.b, Item.i + 1)
  <2>1. GoesOn(g, <<a, b>>) \/ GoesOn(g, <<>>)
    BY <1>19 DEF GenListItem
  <2>2. Possible(g, a) /\ Possible(g, b)
    BY <1>7, <1>8
  <2> HIDE DEF a, b
  <2> QED BY <1>2, <1>5, <2>1, <2>2
<1>20. CASE GenRegion
  BY <1>6, <1>7, <1>20 DEF GenRegion
<1>21. CASE GenOther
  BY <1>2, <1>3, <1>21 DEF GenOther
<1>22. CASE GenIf
  <2> DEFINE a == Expr(Item.s.c)
             b == [k |-> "split", t |-> Item.s.t, e |-> Item.s.e]
  <2>1. GoesOn(g, <<a, b>>) /\ Possible(g, a) /\ Possible(g, b)
    BY <1>7, <1>22 DEF GenIf, Possible, Leaving
  <2> HIDE DEF a, b
  <2> QED BY <1>5, <2>1
<1>23. CASE GenForEach
  <2> DEFINE f == Flaw(g, "unimplemented")
             h == Variable(f, Item.s.v, "int")
             a == Stmt(Item.s.b)
  <2>1. Steady(f) /\ Grows(g, f) /\ f.flaws # {}
    BY <1>1, FlawSteady, FlawGood
  <2>2. GoesOn(h, <<a>>)
    BY <1>23 DEF GenForEach
  <2>3. Possible(h, a)
    BY <1>7
  <2> HIDE DEF f, a
  <2>4. Good(h) /\ Grows(f, h) /\ h.flaws = f.flaws
    BY <2>1, VariableGood
  <2> HIDE DEF h
  <2>5. Steady(h) /\ Grows(g, h)
    BY <1>1, <2>1, <2>4, GrowsTransitive DEF Steady, Good, Shaped
  <2> QED BY <1>1, <2>2, <2>3, <2>5, GoesOnWithOne
<1> QED BY <1>9, <1>10, <1>11, <1>12, <1>13, <1>14, <1>16, <1>17, <1>18, <1>19, <1>20,
           <1>21, <1>22, <1>23

(* The builder ends its block with i and moves to the block at.            *)
LEMMA LeavesBlock ==
    ASSUME Good(g), Work(g, todo), todo # <<>>, NEW m, Steady(m), Grows(g, m),
           NEW i, ~ IsLoad(i), NEW at \in Block(g), GoesOn(At(Emitted(m, i), at), <<>>)
    PROVE  Ordered(g', todo')
<1> DEFINE h == At(Emitted(m, i), at)
<1>1. at \in Block(m)
  BY FormedLengths DEF Block, Grows, Good, Steady, Shaped
<1>2. Steady(h) /\ Grows(m, h)
  BY <1>1, LeaveSteady
<1>3. GoesOn(h, <<>>)
  OBVIOUS
<1> HIDE DEF h
<1>4. Grows(g, h)
  BY <1>2, GrowsTransitive DEF Good, Steady, Shaped
<1> QED BY <1>2, <1>3, <1>4, GoesOnWithNone

(* The builder leaves its block open and moves to the block at.            *)
LEMMA MovesTo ==
    ASSUME Good(g), Work(g, todo), todo # <<>>, NEW m, Steady(m), Grows(g, m),
           NEW at \in Block(g), GoesOn(At(m, at), <<>>)
    PROVE  Ordered(g', todo')
<1> DEFINE h == At(m, at)
<1>1. at \in Block(m)
  BY FormedLengths DEF Block, Grows, Good, Steady, Shaped
<1>2. Steady(h) /\ Grows(m, h)
  BY <1>1, AtGood
<1>3. GoesOn(h, <<>>)
  OBVIOUS
<1> HIDE DEF h
<1>4. Grows(g, h)
  BY <1>2, GrowsTransitive DEF Good, Steady, Shaped
<1> QED BY <1>2, <1>3, <1>4, GoesOnWithNone

(* Branches, WHILE and the later parts of a FOR, one action at a time.     *)
LEMMA BranchKeepsOrder ==
    ASSUME Ordered(g, todo), todo # <<>>, Idle,
           Split \/ Leave \/ GenWhile \/ Test \/ Close \/ Bound \/ Step
    PROVE  Ordered(g', todo')
<1>1. Steady(g) /\ Good(g) /\ Work(g, todo) /\ Grows(g, g)
  BY IdleIsSteady
<1>2. Possible(g, Item)
  BY <1>1, ItemIsPossible
<1>3. Len(g.blocks) \in Nat
  BY <1>1, FormedLengths DEF Good, Shaped
<1>4. ASSUME NEW what PROVE Steady(Flaw(g, what)) /\ Grows(g, Flaw(g, what))
  BY <1>1, FlawSteady
<1>5. \A c, y, n : ~ IsLoad(CondBr(c, y, n)) /\ ~ IsLoad(Br(y))
  BY DEF IsLoad, CondBr, Br
<1>6. ASSUME NEW h, NEW e PROVE Possible(h, Expr(e)) /\ Possible(h, Stmt(e))
  BY DEF Possible, Expr, Stmt, Leaving
<1>7. ASSUME NEW h, NEW to, NEW at \in Block(h)
      PROVE  Possible(h, LeaveItem(to, at)) /\ Possible(h, CloseItem(to, at))
  BY DEF Possible, LeaveItem, CloseItem
<1>8. CASE Split
  <2> DEFINE then == Len(g.blocks) + 1
             merge == then + 1
             else == then + 2
             x == CondBr(val, then, merge)
             y == CondBr(val, then, else)
             h == At(Emitted(AddBlocks(g, 2), x), then)
             k == At(Emitted(AddBlocks(g, 3), y), then)
             a == Stmt(Item.t)
             b == LeaveItem(merge, merge)
             c == LeaveItem(merge, else)
             d == Stmt(Item.e)
  <2>1. \/ GoesOn(Flaw(g, "dropped"), <<>>)
        \/ GoesOn(h, <<a, b>>)
        \/ GoesOn(k, <<a, c, d, b>>)
    BY <1>8 DEF Split
  <2>2. /\ then \in Len(g.blocks) + 1 .. Len(g.blocks) + 2
        /\ then \in Len(g.blocks) + 1 .. Len(g.blocks) + 3
        /\ merge \in 1 .. Len(g.blocks) + 2
        /\ merge \in 1 .. Len(g.blocks) + 3 /\ else \in 1 .. Len(g.blocks) + 3
    BY <1>3
  <2> HIDE DEF then, merge, else
  <2>3. ~ IsLoad(x) /\ ~ IsLoad(y)
    BY <1>5
  <2> HIDE DEF x, y
  <2> DEFINE Branched(z, n) == Steady(z) /\ Grows(g, z) /\ Len(z.blocks) = Len(g.blocks) + n
  <2>4. ASSUME NEW n \in Nat, NEW i, ~ IsLoad(i),
                then \in Len(g.blocks) + 1 .. Len(g.blocks) + n
         PROVE  Branched(At(Emitted(AddBlocks(g, n), i), then), n)
    BY <1>1, <2>4, BranchSteady
  <2> HIDE DEF Branched
  <2>5. Branched(h, 2)
    BY <2>2, <2>3, <2>4
  <2>6. Branched(k, 3)
    BY <2>2, <2>3, <2>4
  <2> HIDE DEF h, k
  <2>7. merge \in Block(h) /\ merge \in Block(k) /\ else \in Block(k)
    BY <2>2, <2>5, <2>6 DEF Block, Branched
  <2>8. /\ Possible(h, a) /\ Possible(h, b)
        /\ Possible(k, a) /\ Possible(k, c) /\ Possible(k, d) /\ Possible(k, b)
    BY <1>6, <1>7, <2>7
  <2> HIDE DEF a, b, c, d
  <2>9. CASE GoesOn(Flaw(g, "dropped"), <<>>)
    BY <1>1, <1>4, <2>9, GoesOnWithNone
  <2>10. CASE GoesOn(h, <<a, b>>)
    BY <1>1, <2>5, <2>8, <2>10, GoesOnWithTwo DEF Branched
  <2>11. CASE GoesOn(k, <<a, c, d, b>>)
    BY <1>1, <2>6, <2>8, <2>11, GoesOnWithFour DEF Branched
  <2> QED BY <2>1, <2>9, <2>10, <2>11
<1>9. CASE Leave
  <2>1. Item.at \in Block(g)
    BY <1>2, <1>9 DEF Leave, Possible, Leaving
  <2> QED BY <1>1, <1>5, <1>9, <2>1, LeavesBlock, MovesTo DEF Leave
<1>10. CASE Close
  <2>1. Item.at \in Block(g)
    BY <1>2, <1>10 DEF Close, Possible, Leaving
  <2> QED BY <1>1, <1>5, <1>10, <2>1, LeavesBlock DEF Close
<1>11. CASE GenWhile
  <2> DEFINE cond == Len(g.blocks) + 1
             h == Enter(g, 3)
             a == Expr(Item.s.c)
             b == [k |-> "test", at |-> cond + 1, exit |-> cond + 2]
             c == Stmt(Item.s.b)
             d == CloseItem(cond, cond + 2)
  <2>1. GoesOn(h, <<a, b, c, d>>)
    BY <1>11 DEF GenWhile
  <2>2. Steady(h) /\ Grows(g, h) /\ Len(h.blocks) = Len(g.blocks) + 3
    BY <1>1, EnterSteady
  <2> HIDE DEF h
  <2>3. cond + 1 \in Block(h) /\ cond + 2 \in Block(h)
    BY <1>3, <2>2 DEF Block
  <2> HIDE DEF cond
  <2>4. Possible(h, a) /\ Possible(h, b) /\ Possible(h, c) /\ Possible(h, d)
    BY <1>6, <1>7, <2>3 DEF Possible
  <2> HIDE DEF a, b, c, d
  <2> QED BY <1>1, <2>1, <2>2, <2>4, GoesOnWithFour
<1>12. CASE Test
  <2>1. Item.at \in Block(g)
    BY <1>2, <1>12 DEF Test, Possible, Leaving
  <2> QED BY <1>1, <1>4, <1>5, <1>12, <2>1, LeavesBlock, MovesTo DEF Test
<1>13. CASE Bound
  <2> DEFINE m == Compared(g, Item.i, val)
             i == CondBr(Temp(NextTemp(g), "bool"), Item.at, Item.exit)
             x == [op |-> "op", f |-> "<=", l |-> Item.i, r |-> val, to |-> NextTemp(g)]
  <2>1. Item.at \in Block(g)
    BY <1>2, <1>13 DEF Bound, Possible, Leaving
  <2>2. \/ GoesOn(At(Flaw(g, "dropped"), Item.at), <<>>)
        \/ GoesOn(At(Emitted(m, i), Item.at), <<>>)
    BY <1>13 DEF Bound
  <2>3. ~ IsLoad(i) /\ ~ IsLoad(x) /\ m = Computed(g, x)
    BY <1>5 DEF IsLoad, Compared
  <2> HIDE DEF i, x, m
  <2>4. Good(m) /\ Grows(g, m) /\ m.fresh = g.fresh /\ m.flaws = g.flaws
    BY <1>1, <2>3, ComputedGood
  <2>5. Steady(m)
    BY <1>1, <2>4 DEF Steady
  <2>6. CASE GoesOn(At(Flaw(g, "dropped"), Item.at), <<>>)
    BY <1>1, <1>4, <2>1, <2>6, MovesTo
  <2>7. CASE GoesOn(At(Emitted(m, i), Item.at), <<>>)
    BY <1>1, <2>1, <2>3, <2>4, <2>5, <2>7, LeavesBlock
  <2> QED BY <2>2, <2>6, <2>7
<1>14. CASE Step
  <2> DEFINE m == IF g.epoch = Item.epoch THEN g ELSE Flaw(g, "stale")
             slot == SlotOf(g, Item.v)
             h == Advanced(m, slot, val)
             i == Br(Item.cond)
  <2>1. Item.at \in Block(g) /\ slot # 0
    BY <1>2, <1>14 DEF Step, Possible, Leaving
  <2>2. Crashes \/ GoesOn(At(Emitted(h, i), Item.at), <<>>)
    BY <1>14 DEF Step
  <2>3. Steady(m) /\ Grows(g, m) /\ m.syms = g.syms
    BY <1>1, FlawSteady
  <2>4. ~ IsLoad(i)
    BY <1>5
  <2> HIDE DEF m, i
  <2>5. slot = SlotOf(m, Item.v)
    BY <2>3, SameSymbols
  <2> HIDE DEF slot
  <2>6. Steady(h) /\ Grows(m, h)
    BY <2>1, <2>3, <2>5, AdvancedSteady
  <2> HIDE DEF h
  <2>7. Grows(g, h)
    BY <1>1, <2>3, <2>6, GrowsTransitive DEF Steady, Good, Shaped
  <2>8. CASE Crashes
    BY <2>8 DEF Crashes
  <2>9. CASE GoesOn(At(Emitted(h, i), Item.at), <<>>)
    BY <1>1, <2>1, <2>4, <2>6, <2>7, <2>9, LeavesBlock
  <2> QED BY <2>2, <2>8, <2>9
<1> QED BY <1>8, <1>9, <1>10, <1>11, <1>12, <1>13, <1>14

(* The start of a FOR is waited for by the variable that it has made.      *)
LEMMA ForKeepsOrder ==
    ASSUME Ordered(g, todo), todo # <<>>, Idle, GenFor
    PROVE  Ordered(g', todo')
<1>1. Steady(g) /\ Good(g) /\ Work(g, todo)
  BY IdleIsSteady
<1> DEFINE v == Item.s.v
           m == Variable(g, v, "int")
           a == Expr(Item.s.lo)
           b == [k |-> "start", v |-> v, n |-> Item.s]
           items == <<a, b>>
<1>2. Crashes \/ (SlotOf(m, v) # 0 /\ GoesOn(m, items))
  BY DEF GenFor
<1>3. Good(m) /\ Grows(g, m) /\ (m.flaws = {} /\ m.fresh # 0 => SlotOf(m, v) = m.fresh)
  BY <1>1, VariableGood
<1> HIDE DEF m
<1>4. CASE Crashes
  BY <1>4 DEF Crashes
<1>5. CASE SlotOf(m, v) # 0 /\ GoesOn(m, items)
  <2>1. a.k = "expr" /\ b.k = "start" /\ b.v = v
    BY DEF Expr
  <2> HIDE DEF a, b, v
  <2>2. IsList(items) /\ Len(items) = 2 /\ items[1] = a /\ items[2] = b
    BY TwoItems
  <2>3. g' = m /\ todo' = items \o Tail(todo)
    BY <1>5 DEF GoesOn, Above
  <2> HIDE DEF items
  <2> DEFINE r == items \o Tail(todo)
  <2>4. \A j \in 1 .. Len(items) : Possible(m, items[j])
    BY <1>5, <2>1, <2>2 DEF Possible, Leaving
  <2>5. Work(m, r)
    BY <1>1, <1>3, <2>2, <2>4, WorkGoesOn DEF Good, Shaped
  <2>6. Follows(r, items, todo)
    BY <1>1, <2>2, StackAfter DEF Work
  <2> HIDE DEF r
  <2>7. r[1] = a /\ r[2] = b /\ 2 \in 1 .. Len(r)
    BY <2>2, <2>6 DEF Follows
  <2>8. \A i \in 1 .. 2 - 1 : r[i].k \in Expressions
    BY <2>1, <2>7 DEF Expressions
  <2>9. Pending(m, r)
    BY <1>3, <2>1, <2>7, <2>8 DEF Pending
  <2> QED BY <1>3, <2>3, <2>5, <2>9 DEF Ordered, r
<1> QED BY <1>2, <1>4, <1>5

(* The start value is stored, which settles the alloca, and the test loads *)
(* the variable.                                                           *)
LEMMA ForStartedKeepsOrder ==
    ASSUME Ordered(g, todo), todo # <<>>, ForStarted
    PROVE  Ordered(g', todo')
<1>1. Good(g) /\ Work(g, todo) /\ Pending(g, todo)
  BY DEF Ordered
<1>2. Item.k = "start" /\ Item = todo[1] /\ Len(todo) \in Nat
  BY <1>1, TailOfList, ListLength DEF ForStarted, Item, Work
<1>3. Len(g.blocks) \in Nat
  BY <1>1, FormedLengths DEF Good, Shaped
<1> DEFINE v == Item.v
           slot == SlotOf(g, v)
           m == IF val = None THEN Flaw(g, "dropped") ELSE StoreTo(g, val, slot)
           cond == Len(g.blocks) + 1
           n == Enter(m, 4)
           h == LoadFrom(n, slot, "int")
           i == Temp(NextTemp(g), "int")
           a == Expr(Item.n.hi)
           b == [k |-> "bound", i |-> i, at |-> cond + 1, exit |-> cond + 3]
           c == Stmt(Item.n.b)
           d == CloseItem(cond + 2, cond + 2)
           e == Expr(StepOf(Item.n))
           f == [k |-> "step", v |-> v, epoch |-> g.epoch, cond |-> cond, at |-> cond + 3]
           items == <<a, b, c, d, e, f>>
<1>4. GoesOn(h, items)
  BY DEF ForStarted
<1>5. slot # 0
  BY <1>1, <1>2, ItemIsPossible DEF Possible
<1>6. g.flaws = {} /\ g.fresh # 0 => slot = g.fresh
  <2> SUFFICES ASSUME g.flaws = {}, g.fresh # 0 PROVE slot = g.fresh
    OBVIOUS
  <2>1. PICK j \in 1 .. Len(todo) :
           /\ todo[j].k = "start" /\ SlotOf(g, todo[j].v) = g.fresh
           /\ \A l \in 1 .. j - 1 : todo[l].k \in Expressions
    BY <1>1 DEF Pending
  <2>2. j = 1
    <3>1. todo[1].k \notin Expressions
      BY <1>2 DEF Expressions
    <3> QED BY <1>2, <2>1, <3>1
  <2> QED BY <1>2, <2>1, <2>2
<1>7. /\ Steady(m) /\ Grows(g, m) /\ Len(m.blocks) = Len(g.blocks) /\ m.slots = g.slots
      /\ m.syms = g.syms
  <2> HIDE DEF slot
  <2>1. CASE val = None
    BY <1>1, <2>1, FlawSteady
  <2>2. CASE val # None
    <3>1. m = StoreTo(g, val, slot)
      BY <2>2
    <3> HIDE DEF m
    <3>2. /\ Good(m) /\ Grows(g, m) /\ m.slots = g.slots /\ m.syms = g.syms
          /\ m.flaws = g.flaws /\ Len(m.blocks) = Len(g.blocks)
          /\ m.fresh = IF g.fresh = slot THEN 0 ELSE g.fresh
      BY <1>1, <3>1, StoreToGood
    <3> QED BY <1>6, <3>2 DEF Steady
  <2> QED BY <2>1, <2>2
<1> HIDE DEF m
<1>8. /\ Steady(n) /\ Grows(m, n) /\ Len(n.blocks) = Len(m.blocks) + 4
      /\ n.slots = m.slots /\ n.syms = m.syms /\ n.fresh = m.fresh /\ n.flaws = m.flaws
  BY <1>7, EnterSteady
<1> HIDE DEF n
<1>9. slot = SlotOf(n, v)
  BY <1>7, <1>8, SameSymbols
<1>10. (n.flaws = {} /\ n.slots[slot].t = "int" /\ slot # n.fresh) => Stored(n, slot)
  <2> HIDE DEF slot
  <2>1. "int" # "text"
    OBVIOUS
  <2> QED BY <1>5, <1>8, <1>9, <2>1, SymbolReadable DEF Steady
<1>11. Good(n)
  BY <1>8 DEF Steady
<1>12. /\ Good(h) /\ Grows(n, h) /\ h.fresh = n.fresh /\ h.syms = n.syms
       /\ Len(h.blocks) = Len(n.blocks)
  <2> HIDE DEF slot
  <2> QED BY <1>10, <1>11, LoadFromGood
<1> HIDE DEF h
<1>13. Steady(h)
  BY <1>8, <1>12 DEF Steady, Grows
<1>14. Grows(g, h)
  <2>1. Formed(g) /\ Formed(m) /\ Formed(n) /\ Formed(h)
    BY <1>1, <1>7, <1>8, <1>12 DEF Steady, Good, Shaped
  <2>2. Grows(g, n)
    BY <1>7, <1>8, <2>1, GrowsTransitive
  <2> QED BY <1>12, <2>1, <2>2, GrowsTransitive
<1>15. SlotOf(h, v) # 0
  BY <1>5, <1>14 DEF Grows
<1>16. cond + 1 \in Block(h) /\ cond + 2 \in Block(h) /\ cond + 3 \in Block(h)
  BY <1>3, <1>7, <1>8, <1>12 DEF Block
<1>17. /\ Possible(h, a) /\ Possible(h, b) /\ Possible(h, c) /\ Possible(h, d)
       /\ Possible(h, e) /\ Possible(h, f)
  <2> HIDE DEF cond, v, i
  <2> QED BY <1>15, <1>16 DEF Possible, Leaving, Expr, Stmt, CloseItem
<1> HIDE DEF a, b, c, d, e, f
<1>18. /\ IsList(items) /\ Len(items) = 6 /\ items[1] = a /\ items[2] = b /\ items[3] = c
       /\ items[4] = d /\ items[5] = e /\ items[6] = f
  BY SixItems
<1> HIDE DEF items
<1>19. \A j \in 1 .. Len(items) : Possible(h, items[j])
  <2>1. \A j \in 1 .. 6 : Possible(h, items[j])
    BY <1>17, <1>18
  <2> QED BY <1>18, <2>1
<1>20. g' = h /\ todo' = items \o Tail(todo)
  BY <1>4 DEF GoesOn, Above
<1> QED BY <1>1, <1>13, <1>14, <1>18, <1>19, <1>20, StatementGoesOn

(* The preamble, routines and main, one action at a time.                  *)
LEMMA DeclarationKeepsOrder ==
    ASSUME Ordered(g, todo), todo # <<>>, Idle, GenerateDeclaration
    PROVE  Ordered(g', todo')
<1>1. Steady(g) /\ Good(g) /\ Work(g, todo) /\ Grows(g, g)
  BY IdleIsSteady
<1>2. ASSUME NEW h PROVE \A ps, i : Possible(h, DeclsFrom(ps, i)) /\ Possible(h, ParamsFrom(ps, i))
  BY DEF Possible, DeclsFrom, ParamsFrom, Leaving
<1>3. CASE GenDecl
  <2> DEFINE d == Item.ds[Item.i]
             o == DeclsFrom(Item.ds, Item.i + 1)
             x == SymbolAdd(g, d.name, "void")
             ps == [i \in DOMAIN d.params |-> d.params[i].t]
             y == OpenFunction(g, d.name, ps, d.ret)
             a == ParamsFrom(d.params, 1)
             b == Stmt(d.body)
             c == [k |-> "end", ret |-> d.ret, f |-> g.f, at |-> g.cur]
  <2>1. GoesOn(x, <<o>>) \/ GoesOn(y, <<a, b, c, o>>)
    BY <1>3 DEF GenDecl
  <2>2. Steady(x) /\ Grows(g, x)
    BY <1>1, SymbolAddGood DEF Steady
  <2>3. Steady(y) /\ Grows(g, y)
    <3> HIDE DEF ps
    <3> QED BY <1>1, OpenFunctionSteady DEF Steady, Good, Shaped
  <2> HIDE DEF x, y
  <2>4. g.cur \in Block(y)
    BY <1>1, <2>3, FormedLengths DEF Steady, Good, Shaped, Block, Grows
  <2>5. Possible(y, b) /\ Possible(y, c)
    BY <2>4 DEF Possible, Stmt, Leaving
  <2>6. Possible(x, o) /\ Possible(y, o) /\ Possible(y, a)
    BY <1>2
  <2> HIDE DEF a, b, c, o
  <2>7. CASE GoesOn(x, <<o>>)
    BY <1>1, <2>2, <2>6, <2>7, GoesOnWithOne
  <2>8. CASE GoesOn(y, <<a, b, c, o>>)
    BY <1>1, <2>3, <2>5, <2>6, <2>8, GoesOnWithFour
  <2> QED BY <2>1, <2>7, <2>8
<1>4. CASE EndDecls
  BY <1>1, <1>4, GoesOnWithNone DEF EndDecls
<1>5. CASE GenParam
  <2> DEFINE p == Item.ps[Item.i]
             e == LLVMParam(Item.i, p.t)
             m == NewVariable(g, p.name, p.t)
             h == StoreTo(m, e, SlotOf(m, p.name))
             o == ParamsFrom(Item.ps, Item.i + 1)
  <2>1. GoesOn(h, <<o>>) \/ GoesOn(g, <<>>)
    BY <1>5 DEF GenParam, WithParam
  <2>2. Good(m) /\ Grows(g, m) /\ SlotOf(m, p.name) = m.fresh
    BY <1>1, NewVariableGood
  <2> HIDE DEF m, e
  <2>3. Steady(h) /\ Grows(g, h)
    BY <1>1, <2>2, AssignedSteady
  <2>4. Possible(h, o)
    BY <1>2
  <2> HIDE DEF h, o
  <2> QED BY <1>1, <2>1, <2>3, <2>4, GoesOnWithNone, GoesOnWithOne
<1>6. CASE EndRoutine
  <2> DEFINE m == DefaultReturn(g, Item.ret)
             h == At(m, Item.at)
             k == [h EXCEPT !.f = Item.f]
  <2>1. GoesOn(k, <<>>)
    BY <1>6 DEF EndRoutine
  <2>2. Item.at \in Block(g)
    BY <1>1, <1>6, ItemIsPossible DEF EndRoutine, Possible, Leaving
  <2>3. \A e : ~ IsLoad(Ret(e))
    BY DEF IsLoad, Ret
  <2>4. Steady(m) /\ Grows(g, m) /\ Len(m.blocks) = Len(g.blocks)
    BY <1>1, <2>3, EmittedSteady DEF DefaultReturn
  <2> HIDE DEF m
  <2>5. Item.at \in Block(m)
    BY <2>2, <2>4 DEF Block
  <2>6. Steady(h) /\ Grows(m, h)
    BY <2>4, <2>5, AtGood
  <2> HIDE DEF h
  <2>7. Alike(h, k)
    BY <2>6 DEF Alike, Steady, Good, Shaped, Formed, IsModule
  <2> HIDE DEF k
  <2>8. Steady(k) /\ Grows(h, k)
    BY <2>6, <2>7, AlikeSteady
  <2>9. Grows(g, k)
    <3>1. Formed(g) /\ Formed(m) /\ Formed(h) /\ Formed(k)
      BY <1>1, <2>4, <2>6, <2>8 DEF Steady, Good, Shaped
    <3>2. Grows(g, h)
      BY <2>4, <2>6, <3>1, GrowsTransitive
    <3> QED BY <2>8, <3>1, <3>2, GrowsTransitive
  <2> QED BY <1>1, <2>1, <2>8, <2>9, GoesOnWithNone
<1>7. CASE EndMain
  <2> DEFINE i == Ret(IntLit(0))
             h == Emitted(g, i)
  <2>1. ~ IsLoad(i) /\ GoesOn(h, <<>>)
    BY <1>7 DEF IsLoad, Ret, EndMain
  <2> HIDE DEF i
  <2>2. Steady(h) /\ Grows(g, h)
    BY <1>1, <2>1, EmittedSteady
  <2> HIDE DEF h
  <2> QED BY <1>1, <2>1, <2>2, GoesOnWithNone
<1> QED BY <1>3, <1>4, <1>5, <1>6, <1>7 DEF GenerateDeclaration

(* Every step of the generator keeps the order.                            *)
LEMMA GenerateKeepsOrder ==
    ASSUME GeneratorInv, Generate
    PROVE  GeneratorInv'
<1>1. Ordered(g, todo) /\ todo # <<>>
  BY DEF GeneratorInv, Generate
<1>2. CASE GenerateExpression
  BY <1>1, <1>2, ExpressionKeepsOrder DEF GeneratorInv
<1>3. CASE ForStarted
  BY <1>1, <1>3, ForStartedKeepsOrder DEF GeneratorInv
<1>4. ASSUME NEW kinds, Executes(kinds) PROVE Idle
  BY <1>4 DEF Executes, Idle, Expressions
<1>5. CASE GenerateStatement /\ ~ ForStarted
  <2>1. Idle
    <3>1. GenNone \/ GenLet \/ GenNew \/ GenWrite \/ GenReturn \/ GenList \/ GenRegion \/ GenOther
          \/ GenIf \/ GenWhile \/ GenFor \/ GenForEach => Idle
      BY <1>4 DEF GenNone, GenLet, GenNew, GenWrite, GenReturn, GenList, GenRegion, GenOther,
                  GenIf, GenWhile, GenFor, GenForEach
    <3>2. Assign \/ WriteValue \/ ReturnValue \/ GenListItem \/ Split \/ Leave \/ Test \/ Close
          \/ Bound \/ Step => Idle
      BY DEF Assign, WriteValue, ReturnValue, GenListItem, Split, Leave, Test, Close, Bound,
             Step, Idle, Expressions
    <3> QED BY <1>5, <3>1, <3>2 DEF GenerateStatement
  <2>2. Ordered(g', todo')
    BY <1>1, <1>5, <2>1, StatementKeepsOrder, BranchKeepsOrder, ForKeepsOrder
       DEF GenerateStatement
  <2> QED BY <2>2 DEF GeneratorInv
<1>6. CASE GenerateDeclaration
  <2>1. Idle
    BY <1>6 DEF GenerateDeclaration, GenDecl, EndDecls, GenParam, EndRoutine, EndMain, Idle,
                Expressions
  <2>2. Ordered(g', todo')
    BY <1>1, <1>6, <2>1, DeclarationKeepsOrder
  <2> QED BY <2>2 DEF GeneratorInv
<1> QED BY <1>2, <1>3, <1>5, <1>6 DEF Generate

-----------------------------------------------------------------------------
(* The machine.                                                            *)

(* The module before main is opened.                                       *)
LEMMA EmptyModuleForm ==
    LET m == EmptyModule
    IN  Formed(m) /\ Sound(m) /\ m.fresh = 0
<1> DEFINE m == EmptyModule
<1>1. /\ IsModule(m) /\ m.blocks = <<>> /\ m.fn = <<>> /\ m.slots = <<>> /\ m.syms = <<>>
      /\ m.funs = <<>> /\ m.fresh = 0
  BY DEF EmptyModule, IsModule
<1>2. Len(<<>>) = 0
  OBVIOUS
<1>3. IsList(<<>>)
  <2>1. <<>> \in Seq({})
    OBVIOUS
  <2> QED BY <2>1, SeqIsList
<1> HIDE DEF m
<1>4. Formed(m)
  BY <1>1, <1>2, <1>3 DEF Formed, Block, Slot
<1>5. Sound(m)
  BY <1>1, <1>2 DEF Sound, LoadsFollowStores, SymbolsAreStored, FreshIsHere, Block
<1> QED BY <1>1, <1>4, <1>5 DEF m

(* The first activations.                                                  *)
LEMMA ThreeItems ==
    ASSUME NEW a, NEW b, NEW c
    PROVE  LET s == <<a, b, c>>
           IN  IsList(s) /\ Len(s) = 3 /\ s[1] = a /\ s[2] = b /\ s[3] = c
<1>1. <<a, b, c>> \in Seq({a, b, c})
  OBVIOUS
<1> QED BY <1>1, SeqIsList

(* The generator starts in order.                                          *)
LEMMA GeneratorStarts ==
    ASSUME MachineInit
    PROVE  GeneratorInv
<1> DEFINE a == DeclsFrom(program.decls, 1)
           b == Stmt(program.main)
           c == [k |-> "main"]
           w == <<a, b, c>>
<1>1. g = OpenFunction(EmptyModule, "main", <<>>, "int") /\ todo = w
  BY DEF MachineInit
<1>2. Steady(g)
  BY <1>1, EmptyModuleForm, OpenFunctionSteady
<1>3. Possible(g, a) /\ Possible(g, b) /\ Possible(g, c)
  BY DEF Possible, DeclsFrom, Stmt, Leaving
<1> HIDE DEF a, b, c
<1>4. IsList(w) /\ Len(w) = 3 /\ w[1] = a /\ w[2] = b /\ w[3] = c
  BY ThreeItems
<1> HIDE DEF w
<1>5. \A j \in 1 .. 3 : Possible(g, w[j])
  BY <1>3, <1>4
<1>6. Work(g, w) /\ Pending(g, w)
  BY <1>2, <1>4, <1>5 DEF Work, Pending, Steady
<1> QED BY <1>1, <1>2, <1>6 DEF GeneratorInv, Ordered, Steady

(* While code is generated nothing runs.                                   *)
LEMMA GenerateDoesNotRun ==
    ASSUME Generate
    PROVE  phase' # "running"
<1>1. phase = "generating"
  BY DEF Generate
<1>2. CASE GenerateExpression
  BY <1>1, <1>2 DEF GenerateExpression, GenNothing, GenLiteral, GenIdentifier, GenBinary,
     GenRight, GenApply, GenUnary, GenNegated, GenUserCall, GenStdCall, GenArgument,
     PassArgument, GenCall, Calling, Returns, GoesOn, Crashes
<1>3. CASE GenerateStatement
  <2>1. ASSUME GenNone \/ GenLet \/ Assign \/ GenNew \/ GenWrite \/ WriteValue \/ GenReturn
               \/ ReturnValue \/ GenList \/ GenListItem \/ GenRegion \/ GenOther
        PROVE  phase' # "running"
    BY <1>1, <2>1 DEF GenNone, GenLet, Assign, GenNew, GenWrite, WriteValue, GenReturn,
       ReturnValue, GenList, GenListItem, GenRegion, GenOther, GoesOn, Crashes
  <2>2. ASSUME GenIf \/ Split \/ Leave \/ GenWhile \/ Test \/ Close \/ GenFor \/ ForStarted
               \/ Bound \/ Step \/ GenForEach
        PROVE  phase' # "running"
    BY <1>1, <2>2 DEF GenIf, Split, Leave, GenWhile, Test, Close, GenFor, ForStarted, Bound,
       Step, GenForEach, GoesOn, Crashes
  <2> QED BY <1>3, <2>1, <2>2 DEF GenerateStatement
<1>4. CASE GenerateDeclaration
  BY <1>1, <1>4 DEF GenerateDeclaration, GenDecl, EndDecls, GenParam, EndRoutine, EndMain, GoesOn
<1> QED BY <1>2, <1>3, <1>4 DEF Generate

(* The first frame is main's.                                              *)
LEMMA VerifyStartsMain ==
    ASSUME Shaped(g), Verify, phase' = "running"
    PROVE  Verifies(g) /\ FramesFit(g, frames')
<1> DEFINE fr == Frame(1, <<>>)
           fs == <<fr>>
<1>1. Verifies(g) /\ frames' = fs
  BY DEF Verify
<1>2. IsFrame(fr) /\ fr.block = g.funs[1].entry /\ fr.pc = 1
  BY DEF IsFrame, Frame
<1>3. 1 \in 1 .. Len(g.funs)
  BY FormedLengths DEF Shaped
<1> HIDE DEF fr
<1>4. FrameFits(g, fr)
  BY <1>1, <1>2, <1>3, FrameStarts
<1>5. IsList(fs) /\ Len(fs) = 1 /\ fs[1] = fr
  BY OneItem
<1>6. fs # <<>>
  OBVIOUS
<1> HIDE DEF fs
<1>7. FramesFit(g, fs)
  BY <1>4, <1>5, <1>6 DEF FramesFit
<1> QED BY <1>1, <1>7

(* Both, in every state.                                                   *)
CompilerInv == GeneratorInv /\ MachineInv

(* The inductive invariant, for any programs: what is generated stores to a *)
(* variable before it loads it, and no frame has got past a store without  *)
(* having made it.                                                         *)
THEOREM CompilerInvHolds == MachineSpec => []CompilerInv
<1>1. MachineInit => CompilerInv
  BY GeneratorStarts DEF MachineInit, CompilerInv, MachineInv
<1>2. CompilerInv /\ [MachineNext]_machineVars => CompilerInv'
  <2> SUFFICES ASSUME GeneratorInv, MachineInv, [MachineNext]_machineVars
               PROVE  GeneratorInv' /\ MachineInv'
    BY DEF CompilerInv
  <2>1. Shaped(g) /\ Sound(g)
    BY DEF GeneratorInv, Ordered, Good
  <2>2. CASE Compile
    BY <2>2, GenerateKeepsOrder, GenerateDoesNotRun DEF Compile, MachineInv
  <2>3. CASE Verify
    <3>1. g' = g /\ todo' = todo
      BY <2>3 DEF Verify
    <3>2. GeneratorInv'
      BY <3>1 DEF GeneratorInv
    <3>3. MachineInv'
      <4> SUFFICES ASSUME phase' = "running" PROVE Verifies(g') /\ FramesFit(g', frames')
        BY DEF MachineInv
      <4> QED BY <2>1, <2>3, <3>1, VerifyStartsMain
    <3> QED BY <3>2, <3>3
  <2>4. CASE Execute
    <3>1. phase = "running" /\ g' = g /\ todo' = todo
      BY <2>4 DEF Execute
    <3>2. GeneratorInv'
      BY <3>1 DEF GeneratorInv
    <3>3. MachineInv'
      <4> SUFFICES ASSUME phase' = "running", g.flaws = {}
                   PROVE  Verifies(g') /\ FramesFit(g', frames')
        BY <3>1 DEF MachineInv
      <4>1. Verifies(g) /\ FramesFit(g, frames)
        BY <3>1 DEF MachineInv
      <4>2. LoadsFollowStores(g)
        BY <2>1 DEF Sound
      <4>3. FramesFit(g, frames')
        BY <2>1, <2>4, <3>1, <4>1, <4>2, ExecuteKeepsFrames
      <4> QED BY <3>1, <4>1, <4>3
    <3> QED BY <3>2, <3>3
  <2>5. CASE UNCHANGED machineVars
    <3>1. g' = g /\ todo' = todo /\ phase' = phase /\ frames' = frames
      BY <2>5 DEF machineVars, compilerVars
    <3> QED BY <3>1 DEF GeneratorInv, MachineInv
  <2> QED BY <2>2, <2>3, <2>4, <2>5 DEF MachineNext
<1> QED BY <1>1, <1>2, PTL DEF MachineSpec

(* Code that runs reads a variable only where it has been written, for any *)
(* programs: codegen.cpp stores to a new alloca before it lets the symbol  *)
(* be read, but for the start value of a FOR, and the verifier's dominance *)
(* then takes every path to a load through that store.                     *)
THEOREM ReadsOnlyWhatWasWrittenHolds == MachineSpec => []ReadsOnlyWhatWasWritten
<1>1. CompilerInv => ReadsOnlyWhatWasWritten
  <2> SUFFICES ASSUME CompilerInv, phase = "running", g.flaws = {}, Instr.op = "load"
               PROVE  Instr.slot \in DOMAIN Top.env
    BY DEF ReadsOnlyWhatWasWritten
  <2>1. Shaped(g) /\ LoadsFollowStores(g)
    BY DEF CompilerInv, GeneratorInv, Ordered, Good, Sound
  <2>2. Verifies(g) /\ FramesFit(g, frames)
    BY DEF CompilerInv, MachineInv
  <2>3. FrameFits(g, Top)
    <3>1. Len(frames) \in Nat /\ Len(frames) >= 1 /\ Top = frames[1]
      BY <2>2, ListLength, TailOfList DEF FramesFit, Top
    <3>2. 1 \in 1 .. Len(frames)
      BY <3>1
    <3> QED BY <2>2, <3>1, <3>2 DEF FramesFit
  <2> QED BY <2>1, <2>2, <2>3, LoadIsCovered DEF Instr
<1> QED BY <1>1, CompilerInvHolds, PTL

-----------------------------------------------------------------------------
(* The driver (Build).                                                     *)

(* What a compiler carries from stage to stage: the text it has read, the  *)
(* temporary file if no one else writes it, and the output it has linked.  *)
HasRead == \A s \in Source : Active(s) => read[s] # 0

Own(s) == [of |-> s, version |-> read[s]]

CarriesOwn ==
    \A s \in Source :
        Alone(s) => /\ pc[s] = "emitted" => temp[DirOf[s]] = Own(s)
                    /\ pc[s] \in {"linked", "exit0"} => output[s] = Own(s)

Inv == TypeOK /\ HasRead /\ CarriesOwn /\ TempIsCleaned

LEMMA InitInv == Init => Inv
  <1> SUFFICES ASSUME Init PROVE Inv
    OBVIOUS
  <1>1. \A s \in Source : pc[s] = "new"
    BY DEF Init
  <1>2. TypeOK
    BY BuildAssumption DEF Init, TypeOK, Stages
  <1> QED
    BY <1>1, <1>2
    DEF Init, Inv, HasRead, CarriesOwn, TempIsCleaned, Active, HoldsTemp

-----------------------------------------------------------------------------
(* One conjunct of the invariant at a time.                                *)
LEMMA TypeInductive == Inv /\ [Next]_vars => TypeOK' /\ HasRead'
  <1> SUFFICES ASSUME Inv, [Next]_vars PROVE TypeOK' /\ HasRead'
    OBVIOUS
  <1> USE BuildAssumption
      DEF Inv, TypeOK, HasRead, Stages, HoldsTemp, Active, Goto, Code
  <1>1. ASSUME NEW s \in Source, Edit(s) PROVE TypeOK' /\ HasRead'
    BY <1>1 DEF Edit
  <1>2. ASSUME NEW s \in Source, Start(s) PROVE TypeOK' /\ HasRead'
    BY <1>2 DEF Start
  <1>3. ASSUME NEW s \in Source, Emit(s) PROVE TypeOK' /\ HasRead'
    <2>1. [of |-> s, version |-> read[s]] \in Code
      BY <1>3 DEF Emit
    <2>2. temp' \in [Directory -> Code \union {NoFile}]
      BY <1>3, <2>1 DEF Emit
    <2> QED
      BY <1>3, <2>2 DEF Emit
  <1>4. ASSUME NEW s \in Source, CompileOnly(s) PROVE TypeOK' /\ HasRead'
    <2>1. [of |-> s, version |-> read[s]] \in Code
      BY <1>4 DEF CompileOnly
    <2>2. output' \in [Source -> Code \union {NoFile}]
      BY <1>4, <2>1 DEF CompileOnly
    <2> QED
      BY <1>4, <2>2 DEF CompileOnly
  <1>5. ASSUME NEW s \in Source, EmitFails(s) PROVE TypeOK' /\ HasRead'
    BY <1>5 DEF EmitFails
  <1>6. ASSUME NEW s \in Source, Link(s) PROVE TypeOK' /\ HasRead'
    <2>1. output' \in [Source -> Code \union {NoFile}]
      BY <1>6 DEF Link
    <2> QED
      BY <1>6, <2>1 DEF Link
  <1>7. ASSUME NEW s \in Source, RemoveTemp(s) PROVE TypeOK' /\ HasRead'
    BY <1>7 DEF RemoveTemp
  <1>8. ASSUME NEW s \in Source, Kill(s) PROVE TypeOK' /\ HasRead'
    BY <1>8 DEF Kill
  <1>9. CASE UNCHANGED vars
    BY <1>9 DEF vars
  <1> QED
    BY <1>1, <1>2, <1>3, <1>4, <1>5, <1>6, <1>7, <1>8, <1>9 DEF Next

(* No other compiler touches the files of one that is alone.               *)
LEMMA OwnInductive == Inv /\ [Next]_vars => CarriesOwn'
  <1> SUFFICES ASSUME Inv, [Next]_vars, NEW t \in Source, Alone(t)
               PROVE  /\ pc'[t] = "emitted" => temp'[DirOf[t]] = Own(t)'
                      /\ pc'[t] \in {"linked", "exit0"} => output'[t] = Own(t)'
    BY DEF CarriesOwn, Alone
  <1>0. /\ pc[t] = "emitted" => temp[DirOf[t]] = Own(t)
        /\ pc[t] \in {"linked", "exit0"} => output[t] = Own(t)
        /\ \A s \in Source \ {t} : DirOf[s] # DirOf[t]
    BY DEF Inv, CarriesOwn, Alone
  <1> USE BuildAssumption, <1>0 DEF Inv, TypeOK, Own, Goto
  <1>1. ASSUME NEW s \in Source, Edit(s)
        PROVE  UNCHANGED <<pc, read, temp, output>>
    BY <1>1 DEF Edit
  <1>2. ASSUME NEW s \in Source, Start(s)
        PROVE  /\ pc'[t] = "emitted" => temp'[DirOf[t]] = Own(t)'
               /\ pc'[t] \in {"linked", "exit0"} => output'[t] = Own(t)'
    BY <1>2 DEF Start
  <1>3. ASSUME NEW s \in Source, Emit(s)
        PROVE  /\ pc'[t] = "emitted" => temp'[DirOf[t]] = Own(t)'
               /\ pc'[t] \in {"linked", "exit0"} => output'[t] = Own(t)'
    BY <1>3 DEF Emit
  <1>4. ASSUME NEW s \in Source, CompileOnly(s)
        PROVE  /\ pc'[t] = "emitted" => temp'[DirOf[t]] = Own(t)'
               /\ pc'[t] \in {"linked", "exit0"} => output'[t] = Own(t)'
    BY <1>4 DEF CompileOnly
  <1>5. ASSUME NEW s \in Source, EmitFails(s)
        PROVE  /\ pc'[t] = "emitted" => temp'[DirOf[t]] = Own(t)'
               /\ pc'[t] \in {"linked", "exit0"} => output'[t] = Own(t)'
    BY <1>5 DEF EmitFails
  <1>6. ASSUME NEW s \in Source, Link(s)
        PROVE  /\ pc'[t] = "emitted" => temp'[DirOf[t]] = Own(t)'
               /\ pc'[t] \in {"linked", "exit0"} => output'[t] = Own(t)'
    BY <1>6 DEF Link
  <1>7. ASSUME NEW s \in Source, RemoveTemp(s)
        PROVE  /\ pc'[t] = "emitted" => temp'[DirOf[t]] = Own(t)'
               /\ pc'[t] \in {"linked", "exit0"} => output'[t] = Own(t)'
    BY <1>7 DEF RemoveTemp
  <1>8. ASSUME NEW s \in Source, Kill(s)
        PROVE  /\ pc'[t] = "emitted" => temp'[DirOf[t]] = Own(t)'
               /\ pc'[t] \in {"linked", "exit0"} => output'[t] = Own(t)'
    BY <1>8 DEF Kill
  <1>9. CASE UNCHANGED vars
    BY <1>9 DEF vars
  <1> QED
    BY <1>1, <1>2, <1>3, <1>4, <1>5, <1>6, <1>7, <1>8, <1>9 DEF Next

(* A temporary file that stays has a compiler at work, or one was killed.  *)
AtWork(d) == \E s \in Source : DirOf[s] = d /\ pc[s] \in HoldsTemp

LEMMA CleanInductive == Inv /\ [Next]_vars => TempIsCleaned'
  <1> SUFFICES ASSUME Inv, [Next]_vars, NEW d \in Directory, temp'[d] # NoFile
               PROVE  litter'[d] \/ AtWork(d)'
    BY DEF TempIsCleaned, AtWork
  <1>0. temp[d] # NoFile => litter[d] \/ AtWork(d)
    BY DEF Inv, TempIsCleaned, AtWork
  <1> USE BuildAssumption, <1>0
      DEF Inv, TypeOK, AtWork, HoldsTemp, Goto
  <1>1. ASSUME NEW s \in Source, Edit(s) PROVE litter'[d] \/ AtWork(d)'
    BY <1>1 DEF Edit
  <1>2. ASSUME NEW s \in Source, Start(s) PROVE litter'[d] \/ AtWork(d)'
    BY <1>2 DEF Start, Active
  <1>3. ASSUME NEW s \in Source, Emit(s) PROVE litter'[d] \/ AtWork(d)'
    BY <1>3 DEF Emit
  <1>4. ASSUME NEW s \in Source, CompileOnly(s) PROVE litter'[d] \/ AtWork(d)'
    BY <1>4 DEF CompileOnly
  <1>5. ASSUME NEW s \in Source, EmitFails(s) PROVE litter'[d] \/ AtWork(d)'
    BY <1>5 DEF EmitFails
  <1>6. ASSUME NEW s \in Source, Link(s) PROVE litter'[d] \/ AtWork(d)'
    BY <1>6 DEF Link
  <1>7. ASSUME NEW s \in Source, RemoveTemp(s) PROVE litter'[d] \/ AtWork(d)'
    BY <1>7 DEF RemoveTemp
  <1>8. ASSUME NEW s \in Source, Kill(s) PROVE litter'[d] \/ AtWork(d)'
    BY <1>8 DEF Kill
  <1>9. CASE UNCHANGED vars
    BY <1>9 DEF vars
  <1> QED
    BY <1>1, <1>2, <1>3, <1>4, <1>5, <1>6, <1>7, <1>8, <1>9 DEF Next

THEOREM AlwaysInv == Spec => []Inv
  <1>1. Inv /\ [Next]_vars => Inv'
    BY TypeInductive, OwnInductive, CleanInductive DEF Inv
  <1> QED
    BY InitInv, <1>1, PTL DEF Spec

-----------------------------------------------------------------------------
(* A temporary file and an output hold the code of one text of one source. *)
THEOREM FilesHoldCode == Spec => []TypeOK
  BY AlwaysInv, PTL DEF Inv

(* codegen.cpp:1484: a compiler alone in its directory that ends with      *)
(* status 0 has left the program it read, whatever was killed or failed    *)
(* there before and however often the source was edited meanwhile.         *)
THEOREM AloneDelivers == Spec => []ExitZeroDeliversAlone
  <1>1. Inv => ExitZeroDeliversAlone
    BY DEF Inv, CarriesOwn, ExitZeroDeliversAlone, Delivered, Own
  <1> QED
    BY <1>1, AlwaysInv, PTL

(* codegen.cpp:1506: a temporary object with no compiler at work in its    *)
(* directory is the work of one that was killed.                           *)
THEOREM TemporariesAreCleaned == Spec => []TempIsCleaned
  BY AlwaysInv, PTL DEF Inv
=============================================================================
