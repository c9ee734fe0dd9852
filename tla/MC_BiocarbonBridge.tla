-------------------------- MODULE MC_BiocarbonBridge --------------------------
(* BiocarbonBridge on one issuance: every mix of three calls.               *)
EXTENDS BiocarbonBridge, TLC

CONSTANTS r1, r2, r3, i1, k1

MCRequest == {r1, r2, r3}
MCIssuance == {i1}
MCKyc == {k1}

MCLedgerEntry ==
    { [type |-> "burn", issuance |-> i1, serial |-> r, lock |-> r,
       retiredFor |-> b, retiredBy |-> b] : r \in MCRequest, b \in BOOLEAN }

MCSymmetry == Permutations(MCRequest)
=============================================================================
