----------------------------- MODULE SealedYears -----------------------------
(***************************************************************************)
(* What the annual closing promises, without saying how: closing a year    *)
(* seals it.  While a year is sealed neither its facts nor what was sealed *)
(* with it changes; years are sealed in ascending order and unsealed from  *)
(* the latest back.                                                        *)
(***************************************************************************)
EXTENDS Integers

CONSTANTS Years, NoFacts

VARIABLES
  facts,   \* facts[y]: the fiscal facts of year y
  sealed   \* sealed[y]: what closing y fixed; the sealed years are its domain

vars == <<facts, sealed>>

Init ==
  /\ facts = [y \in Years |-> NoFacts]
  /\ DOMAIN sealed = {}

(* The facts of years that are not sealed change in any way. *)
Edit ==
  /\ \A y \in DOMAIN sealed : facts'[y] = facts[y]
  /\ UNCHANGED sealed

(* Sealing keeps everything sealed before. *)
Seal(year) ==
  /\ \A y \in DOMAIN sealed : y < year
  /\ DOMAIN sealed' = DOMAIN sealed \cup {year}
  /\ \A y \in DOMAIN sealed : sealed'[y] = sealed[y]
  /\ UNCHANGED facts

Unseal(year) ==
  /\ year \in DOMAIN sealed
  /\ \A y \in DOMAIN sealed : y <= year
  /\ DOMAIN sealed' = DOMAIN sealed \ {year}
  /\ \A y \in DOMAIN sealed' : sealed'[y] = sealed[y]
  /\ UNCHANGED facts

Next == Edit \/ \E y \in Years : Seal(y) \/ Unseal(y)

Spec == Init /\ [][Next]_vars
==============================================================================
