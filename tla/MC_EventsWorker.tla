--------------------------- MODULE MC_EventsWorker ---------------------------
(* EventsWorker on one issuance: a retirement burn and a delist burn of the *)
(* same VCC, a delist burn that names no lock, and an entry that is no burn.*)
EXTENDS EventsWorker

CONSTANTS i1, s1, l1

MCIssuance == {i1}
MCSerial == {s1}
MCLock == {l1}

Entry(type, lock, retirement) ==
    [type |-> type, issuance |-> i1, serial |-> s1, lock |-> lock,
     retiredFor |-> retirement, retiredBy |-> retirement]

MCLedgerEntry ==
    { Entry("burn", l1, TRUE), Entry("burn", l1, FALSE),
      Entry("burn", NoLock, FALSE), Entry("mint", l1, FALSE) }
=============================================================================
