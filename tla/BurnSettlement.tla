--------------------------- MODULE BurnSettlement ---------------------------
(***************************************************************************)
(* What the events worker promises about the burns on the public ledger:   *)
(* each one is settled (forwarded to the registry, or parked for a human)  *)
(* at most once and for good, and in ledger order - a burn is never        *)
(* settled while an earlier one that the ledger endpoint still returns is  *)
(* open.  How it polls, retries, checkpoints and restarts is not said.     *)
(***************************************************************************)
EXTENDS Naturals, Sequences

CONSTANTS
    MaxLedger,          \* bound on the length of the ledger
    LedgerEntry,        \* the entries a ledger may hold
    BurnEntry           \* those of them that are burns

VARIABLES
    ledger,             \* the public ledger, oldest entry first
    oldest,             \* position of the oldest entry still returned
    outcome             \* position -> "open" or how it was settled

abstractVars == <<ledger, oldest, outcome>>

Outcome == {"PROCESSED", "FAILED_PERMANENT"}

Init ==
    /\ ledger = <<>>
    /\ oldest = 1
    /\ outcome = [p \in 1..MaxLedger |-> "open"]

(* the chain appends entries, the endpoint may forget the oldest one *)
LedgerGrows ==
    /\ \E e \in LedgerEntry : ledger' = Append(ledger, e)
    /\ UNCHANGED <<oldest, outcome>>

LedgerForgets ==
    /\ oldest' = oldest + 1
    /\ UNCHANGED <<ledger, outcome>>

Settle(p, o) ==
    /\ p \in 1..Len(ledger)
    /\ ledger[p] \in BurnEntry
    /\ outcome[p] = "open"
    /\ \A q \in oldest..(p - 1) : ledger[q] \in BurnEntry => outcome[q] # "open"
    /\ outcome' = [outcome EXCEPT ![p] = o]
    /\ UNCHANGED <<ledger, oldest>>

Next ==
    \/ LedgerGrows
    \/ LedgerForgets
    \/ \E p \in 1..MaxLedger, o \in Outcome : Settle(p, o)

Spec == Init /\ [][Next]_abstractVars
=============================================================================
