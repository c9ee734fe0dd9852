------------------------------ MODULE MC_Billing ------------------------------
(* An instance of Billing for TLC: the executions of the routes are alike.  *)
EXTENDS Billing, TLC

CONSTANTS h1, h2

MCHandler == {h1, h2}
MCSymmetry == Permutations(MCHandler)
=============================================================================
