----------------------- MODULE MCProtectedVerification -----------------------
(* Small instances of ProtectedVerification.                                  *)
EXTENDS ProtectedVerification, TLC

CONSTANTS p1, p2, c1, c2, as, bs, x, y

\* The files the plan is likely to name pass one tree and fail the other, the
\* files they may be exchanged for say the opposite.
MCOracle == as :> (x :> "PASS" @@ y :> "FAIL") @@ bs :> (x :> "FAIL" @@ y :> "PASS")

\* Exchanging the contents and the trees at once leaves the oracle as it is.
Exchange == as :> bs @@ bs :> as @@ x :> y @@ y :> x
Symmetry == Permutations(Calls) \union {Exchange}
=============================================================================
