---------------------------- MODULE MC_CreditLedger ----------------------------
(* CreditLedger on one issuance and two overlapping calls.                  *)
EXTENDS CreditLedger, TLC

CONSTANTS c1, c2, i1

MCCall == {c1, c2}
MCIssuance == {i1}
MCGross == {50}
MCScope == {"NDC_AND_OIMP", "MITIGATION_CONTRIBUTION"}
MCOrgAccount == {"participant", "buyer"}
MCPurpose == {"NDC", "VOLUNTARY"}
MCDraw == {1, 10}
MCTarget == {"participant", "buyer", "REVERSAL_BUFFER"}
MCSymmetry == Permutations(MCCall)
=============================================================================
