---------------------------- MODULE MCReviewLoop ----------------------------
(* Instance of ReviewLoop for TLC. *)
EXTENDS ReviewLoop, TLC

CONSTANTS jm, yzm, r1, r2, a, b

MCTermsIn == (r1 :> {jm, yzm}) @@ (r2 :> {yzm})
MCBatches == {<<r1>>, <<r2>>}
MCWordLists == {<<yzm>>}
MCSymmetry == Permutations({a, b})
=============================================================================
