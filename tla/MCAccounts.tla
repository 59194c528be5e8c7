----------------------------- MODULE MCAccounts -----------------------------
(* One account, two calls at once, few calls in all. *)
EXTENDS Accounts, TLC

CONSTANTS u1, d1, p1, p2, n1, c1, c2, f1, f2, x, s1, s2, a1

Symmetry == Permutations(Calls) \cup Permutations(Pins)
            \cup Permutations(Files) \cup Permutations(Submissions)
=============================================================================
