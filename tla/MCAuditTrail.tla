----------------------------- MODULE MCAuditTrail -----------------------------
(***************************************************************************)
(* Two requests and a backup at once, three appends, two documents.        *)
(***************************************************************************)
EXTENDS AuditTrail, TLC

CONSTANTS r1, r2, c1

Symmetry == Permutations({r1, r2})
===============================================================================
