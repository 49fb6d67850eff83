------------------------------ MODULE Iteration ------------------------------
(***************************************************************************)
(* Loops of the program as functions over the naturals, and arithmetic.    *)
(*                                                                         *)
(* The services walk ordered querysets with Python loops: the cost walk of *)
(* PositionService, the FIFO consumption of LossLedgerService, the sums of *)
(* TaxEngine.  The folds of the community modules say the same, but they   *)
(* take an operator as a parameter and nothing inductive can be proved of  *)
(* them with the provers at hand.  Here the body of the loop is a          *)
(* function, so that IterationProofs can prove what a loop returns.        *)
(***************************************************************************)
EXTENDS Integers

(* The state after the first n rounds of a loop that starts in s0 and whose
   i-th round maps a state s to step[i][s]. *)
Iterate(step, s0, n) ==
  LET it[i \in Nat] == IF i = 0 THEN s0 ELSE step[i][it[i-1]]
  IN  it[n]

(* The sum of f[i] over the i \in 1..n on which f is defined. *)
Total(f, n) ==
  Iterate([i \in Nat |-> [x \in Int |-> IF i \in DOMAIN f THEN x + f[i] ELSE x]],
          0, n)

Smaller(a, b) == IF a <= b THEN a ELSE b
Larger(a, b) == IF a >= b THEN a ELSE b

(* quantize() to the cent: n/d rounded half to even, for any d # 0. *)
Quantized(n, d) ==
  LET num == IF d > 0 THEN n ELSE -n
      den == IF d > 0 THEN d ELSE -d
      q   == num \div den
      r   == num % den
  IN  IF 2*r < den \/ (2*r = den /\ q % 2 = 0) THEN q ELSE q + 1
==============================================================================
