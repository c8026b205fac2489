------------------------------ MODULE Measure ------------------------------
(* Why a loop ends: every turn makes a tuple of natural numbers smaller in the *)
(* lexicographic order, which has no infinite descending chain.                *)
EXTENDS Integers

\* The n numbers of `after' come before those of `before': at the first place where they differ
\* the number is smaller, and none is negative.  (Bound names: TLC evaluates each tuple once.)
Decreases(n, after, before) ==
  \E a \in {after}, b \in {before} :
    /\ \A i \in 1..n : a[i] \in Nat
    /\ \E i \in 1..n : a[i] < b[i] /\ \A j \in 1..(i - 1) : a[j] = b[j]

=============================================================================
