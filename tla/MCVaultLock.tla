----------------------------- MODULE MCVaultLock -----------------------------
(***************************************************************************)
(* Two requests, each of a browser of its own.  The second one sets the    *)
(* vault up with the password of the first or with another one.            *)
(***************************************************************************)
EXTENDS VaultLock, TLC

CONSTANTS b1, b2, r1, r2, p1, p2

TwoBrowsers == r1 :> b1 @@ r2 :> b2
OneOrTwoPasswords == r1 :> {p1} @@ r2 :> {p1, p2}
==============================================================================
