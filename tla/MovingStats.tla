---------------------------- MODULE MovingStats ----------------------------
(***************************************************************************)
(* moving_stats_*, statistics.c:405-483: running sums over a circular      *)
(* window of the last size observations.                                   *)
(*                                                                         *)
(* The object is NULL while size = 0.  A running sum is corrected by what  *)
(* enters and leaves; it is never recomputed.                              *)
(***************************************************************************)
EXTENDS Doubles, Sequences

CONSTANTS
    Value,    \* observations, finite and not
    Junk,     \* what malloc leaves in the window
    MaxSize   \* bound: window sizes

ASSUME WindowAssumption ==
    /\ MaxSize \in Nat
    /\ Value \subseteq Int \union Special /\ Junk \notin Value

VARIABLES
    window, size, count, index, sum, sum_sq,
    dirty   \* history: a value that is not finite was observed

msVars == <<window, size, count, index, sum, sum_sq, dirty>>

Null ==
    /\ window = <<>> /\ size = 0 /\ count = 0 /\ index = 0
    /\ sum = 0 /\ sum_sq = 0 /\ dirty = FALSE

Create(n) ==
    /\ size = 0 /\ n > 0
    /\ size' = n
    /\ window' = [i \in 0 .. n - 1 |-> Junk]
    /\ count' = 0 /\ index' = 0 /\ sum' = 0 /\ sum_sq' = 0
    /\ UNCHANGED dirty

Destroy ==
    /\ size # 0
    /\ window' = <<>> /\ size' = 0 /\ count' = 0 /\ index' = 0
    /\ sum' = 0 /\ sum_sq' = 0 /\ dirty' = FALSE

-----------------------------------------------------------------------------
(* Mistakes an author of this code could have made: each is an operation   *)
(* below with one thing wrong, and a property must notice it.              *)

(* A full window is entered at slot i; the squares are corrected by out.   *)
Replacing(v, i, next, out) ==
    /\ count = size
    /\ window' = [window EXCEPT ![i] = v]
    /\ sum' = Plus(Minus(sum, window[i]), v)
    /\ sum_sq' = Plus(Minus(sum_sq, out), Squared(v))
    /\ index' = next
    /\ UNCHANGED count

(* The index does not wrap.                                                *)
ReplaceNoWrap(v) == Replacing(v, index, index + 1, Squared(window[index]))

(* The newest observation leaves, not the oldest.                          *)
ReplaceNewest(v) ==
    Replacing(v, (index + size - 1) % size, index,
              Squared(window[(index + size - 1) % size]))

(* The sum of squares keeps the square of what leaves.                     *)
ReplaceKeepsSquare(v) == Replacing(v, index, (index + 1) % size, 0)

-----------------------------------------------------------------------------
Fill(v) ==
    /\ count < size
    /\ window' = [window EXCEPT ![count] = v]
    /\ sum' = Plus(sum, v)
    /\ sum_sq' = Plus(sum_sq, Squared(v))
    /\ count' = count + 1
    /\ UNCHANGED index

Replace(v) ==
    /\ count = size
    /\ sum' = Plus(Minus(sum, window[index]), v)
    /\ sum_sq' = Plus(Minus(sum_sq, Squared(window[index])), Squared(v))
    /\ window' = [window EXCEPT ![index] = v]
    /\ index' = (index + 1) % size
    /\ UNCHANGED count

(* moving_stats_add; on NULL it returns at once.                           *)
Add(v) ==
    /\ size # 0
    /\ Fill(v) \/ Replace(v)
    /\ dirty' = (dirty \/ v \notin Int)
    /\ UNCHANGED size

-----------------------------------------------------------------------------
(* The object is allocated whenever it is used, and both positions are     *)
(* inside the window.                                                      *)
WindowOK ==
    /\ size \in 0 .. MaxSize
    /\ window \in [0 .. size - 1 -> Value \union {Junk}]
    /\ count \in 0 .. size
    /\ index \in Nat /\ index <= size /\ (size # 0 => index < size)
    /\ {sum, sum_sq} \subseteq Int \union Special
    /\ dirty \in BOOLEAN

(* Where the observation stands that is k older ones away from the oldest. *)
Slot(k) == IF index + k < size THEN index + k ELSE index + k - size

(* The observations the object speaks for, oldest first.                   *)
Contents == [i \in 1 .. count |-> window[Slot(i - 1)]]

(* A window that is not full starts at its first slot and is filled up to  *)
(* count; a full one has no slot that was never written.                   *)
WrittenBeforeRead ==
    /\ count < size => index = 0
    /\ \A i \in 0 .. count - 1 : window[i] \in Value

Window == INSTANCE SlidingWindow WITH recent <- Contents
=============================================================================
