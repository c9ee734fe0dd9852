------------------------ MODULE BiocarbonBridgeProofs ------------------------
(***************************************************************************)
(* Proofs about BiocarbonBridge, for every set of requests, issuances and  *)
(* KYC ids and every value of the bounds: the handlers are the environment *)
(* EventsWorker assumes, so what EventsWorkerProofs shows of the worker    *)
(* holds next to them, and the two sides together keep the token, the lock *)
(* and the VCC of a serial in step.                                        *)
(***************************************************************************)
EXTENDS BiocarbonBridge, EventsWorkerProofs, FiniteSetTheorems

(* The program counters of the two kinds of handlers.                       *)
TokenizePc == {"lock", "confirm", "deploy", "unlock", "markFailed", "persist",
               "notify"}
BurnPc == {"burn", "save", "saveFailed"}

(* The tokenization r knows the contract it deployed.                       *)
Deployed(r) == req[r].op = "tokenize" /\ req[r].contract # NoContract

(* ... and has stored it with its serial.                                   *)
Minted(r) == Deployed(r) /\ req[r].pc \in {"notify", "done"}

(* What a handler's program counter says of its locals.  A retirement or a  *)
(* delist carries the contract and the serial of one tokenization.          *)
HandlerOK(r) ==
    /\ req[r].pc # "new" => req[r].issuance \in Issuance /\ req[r].serial \in Request
    /\ req[r].op = "none" <=> req[r].pc = "new"
    /\ req[r].pc \in TokenizePc => req[r].op = "tokenize"
    /\ req[r].pc \in BurnPc => req[r].op \in {"retire", "delist"}
    /\ req[r].pc = "create" => req[r].op = "retire"
    /\ req[r].op = "tokenize" => req[r].serial = r
    /\ req[r].op = "retire" => req[r].kyc \in Kyc
    /\ req[r].pc \in {"persist", "notify"} => req[r].contract # NoContract
    /\ Deployed(r) =>
          /\ req[r].pc \in {"persist", "notify", "done"}
          /\ req[r].contract \in Contract /\ req[r].contract[1] = r
    /\ req[r].op \in {"retire", "delist"} =>
          Minted(req[r].serial) /\ req[r].contract = req[req[r].serial].contract

HandlerInv == \A r \in Request : HandlerOK(r)

(* A MINTED row is the work of one tokenization, contract and serial both.  *)
TokenInv ==
    \A i \in Issuance :
        token[i].status = "MINTED" =>
            /\ token[i].serial \in Request /\ Minted(token[i].serial)
            /\ token[i].contract = req[token[i].serial].contract

(* Every entry of the ledger is the burn of a handler's contract, ...       *)
LedgerInv ==
    \A p \in 1..Len(ledger) :
        /\ req[burntBy[p]].op \in {"retire", "delist"}
        /\ req[burntBy[p]].pc \in BurnPc \cup {"done"}
        /\ ledger[p] = BurnOf(burntBy[p])
        /\ contracts[req[burntBy[p]].contract] = "burnt"

(* ... and only stored contracts are burnt.                                 *)
ContractInv ==
    /\ \A c \in Contract :
          contracts[c] = "burnt" => Minted(c[1]) /\ c = req[c[1]].contract
    /\ \A r \in Request : Deployed(r) => contracts[req[r].contract] \in {"live", "burnt"}
    /\ lost = 0 =>
          \A c \in Contract :
              contracts[c] = "live" => Deployed(c[1]) /\ c = req[c[1]].contract

(* The registry's view of a tokenization: its lock is confirmed and its VCC *)
(* is not free from the lock to the burn of its token.                      *)
LockOK(r) ==
    /\ lockState[r] # "fresh" => lockSerial[r] = r
    /\ req[r].pc = "confirm" => InLockMap(r) /\ vccStatus[r] = "locked"
    /\ req[r].pc \in {"deploy", "unlock", "persist"} =>
          lockState[r] = "confirmed" /\ vccStatus[r] = "locked"
    /\ Deployed(r) => vccStatus[r] # "absent"
    /\ Deployed(r) /\ contracts[req[r].contract] = "live" =>
          lockState[r] = "confirmed" /\ vccStatus[r] \in {"locked", "tokenized"}

LockInv == \A r \in Request : LockOK(r)

(* Once the registry accepted the delist in hand its VCC stays free.        *)
DelistInv ==
    /\ pc = "flipDelist" => ~IsRetirement(ledger[event])
    /\ pc \in {"flipDelist", "mirror", "processed"} /\ ~IsRetirement(ledger[event]) =>
          vccStatus[ledger[event].serial] = "free"

(* The retirement calls between the create and their last write.            *)
Retiring(r) == req[r].op = "retire" /\ req[r].pc \in BurnPc

(* r and q retire the same issuance for the same kycVerificationId.         *)
SameRow(r, q) == req[r].op = "retire" /\ req[q].op = "retire" /\ RowOf(r) = RowOf(q)

(* Without lost replies a burn is made once, by the one call that created   *)
(* the row, and the row remembers it.                                       *)
RetiringOK(r) ==
    /\ Retiring(r) => retirement[RowOf(r)].status = "INITIATED"
    /\ Retiring(r) /\ req[r].pc = "save" =>
          req[r].tx \in 1..Len(ledger) /\ burntBy[req[r].tx] = r

BurnOK(p) ==
    /\ req[burntBy[p]].pc \in {"save", "done"}
    /\ req[burntBy[p]].op = "retire" =>
          LET row == retirement[RowOf(burntBy[p])] IN
          row.status = "INITIATED" \/ (row.status = "CHAIN_BURNED" /\ row.tx = p)

RetirementInv ==
    lost = 0 =>
        /\ \A r \in Request : RetiringOK(r)
        /\ \A r, q \in Request : Retiring(r) /\ Retiring(q) /\ SameRow(r, q) => r = q
        /\ \A p \in 1..Len(ledger) : BurnOK(p)
        /\ \A p, q \in 1..Len(ledger) : SameRow(burntBy[p], burntBy[q]) => p = q
        /\ \A r \in Request, p \in 1..Len(ledger) :
              Retiring(r) /\ SameRow(r, burntBy[p]) => r = burntBy[p]
        /\ \A ik \in Issuance \X Kyc :
              retirement[ik].status = "CHAIN_BURNED" =>
                  \E p \in 1..Len(ledger) :
                      req[burntBy[p]].op = "retire" /\ RowOf(burntBy[p]) = ik

BridgeInv ==
    /\ Inv
    /\ BridgeTypeOK /\ HandlerInv /\ TokenInv /\ LedgerInv /\ ContractInv
    /\ LockInv /\ DelistInv /\ UnlockedIsBurnt
-----------------------------------------------------------------------------
(* The locals of a handler.                                                 *)
Locals ==
    [pc : RequestPc, op : {"none", "tokenize", "retire", "delist"},
     issuance : Issuance \cup {NoIssuance}, kyc : Kyc \cup {NoKyc},
     contract : Contract \cup {NoContract}, serial : Request \cup {NoSerial},
     attempt : 1..MaxAttempts, tx : 0..MaxLedger]

(* A step of handler r that only moves its program counter.                 *)
LEMMA GotoFacts ==
    ASSUME req \in [Request -> Locals], NEW r \in Request, NEW label,
           Goto(r, label)
    PROVE  /\ \A q \in Request \ {r} : req'[q] = req[q]
           /\ req'[r] = [req[r] EXCEPT !.pc = label]
           /\ req'[r].pc = label /\ req'[r].op = req[r].op
           /\ req'[r].issuance = req[r].issuance /\ req'[r].kyc = req[r].kyc
           /\ req'[r].contract = req[r].contract /\ req'[r].serial = req[r].serial
           /\ req'[r].attempt = req[r].attempt /\ req'[r].tx = req[r].tx
           /\ label \in RequestPc => req' \in [Request -> Locals]
<1>1. req' = [req EXCEPT ![r] = [req[r] EXCEPT !.pc = label]]
  BY DEF Goto
<1>2. req[r] \in Locals
  OBVIOUS
<1> QED
  BY <1>1, <1>2 DEF Locals

(* How a handler moves from one await to the next.                          *)
Edges ==
    { <<"lock", "confirm">>, <<"lock", "done">>, <<"confirm", "deploy">>,
      <<"confirm", "markFailed">>, <<"deploy", "unlock">>, <<"deploy", "done">>,
      <<"unlock", "markFailed">>, <<"markFailed", "done">>,
      <<"persist", "notify">>, <<"persist", "done">>, <<"notify", "done">>,
      <<"create", "burn">>, <<"create", "done">>, <<"burn", "saveFailed">>,
      <<"save", "done">>, <<"saveFailed", "done">> }

Moves(r) == \E label \in RequestPc : <<req[r].pc, label>> \in Edges /\ Goto(r, label)

Begins(r) ==
    \/ \E i \in Issuance : BeginTokenize(r, i) \/ BeginDelist(r, i)
    \/ \E i \in Issuance, k \in Kyc : BeginRetire(r, i, k)

Learns(r) ==
    \/ /\ req[r].pc = "deploy"
       /\ req' = [req EXCEPT ![r].pc = "persist",
                             ![r].contract = <<r, req[r].attempt>>]
    \/ /\ req[r].pc = "burn" /\ Len(ledger) < MaxLedger
       /\ req' = [req EXCEPT ![r].pc = "save", ![r].tx = Len(ledger) + 1]

Retries(r) ==
    /\ req[r].pc \in {"deploy", "burn"} /\ req[r].attempt < MaxAttempts
    /\ req' = [req EXCEPT ![r].attempt = @ + 1]

HandlerStep(r) == TokenizeStep(r) \/ BurnStep(r) \/ RequestThrows(r)

(* Every step of a handler is one of these four to its locals.              *)
LEMMA HandlerMoves ==
    ASSUME NEW r \in Request, HandlerStep(r)
    PROVE  Begins(r) \/ Moves(r) \/ Learns(r) \/ Retries(r)
<1> USE DEF Edges, RequestPc
<1>1. CASE \E i \in Issuance : BeginTokenize(r, i)
  BY <1>1 DEF Begins
<1>2. CASE LockAccepted(r)
  BY <1>2 DEF LockAccepted, Moves
<1>3. CASE ConfirmAccepted(r)
  BY <1>3 DEF ConfirmAccepted, Moves
<1>4. CASE RegistryRefuses(r)
  BY <1>4 DEF RegistryRefuses, AfterRefusal, Moves
<1>5. CASE DeploySucceeds(r)
  BY <1>5 DEF DeploySucceeds, Learns
<1>6. CASE DeployFails(r)
  BY <1>6 DEF DeployFails, Moves
<1>7. CASE DeployReplyLost(r)
  BY <1>7 DEF DeployReplyLost, RetryOrThrow, Moves, Retries
<1>8. CASE ReleaseLock(r)
  BY <1>8 DEF ReleaseLock, Moves
<1>9. CASE MarkIssuanceFailed(r)
  BY <1>9 DEF MarkIssuanceFailed, Moves
<1>10. CASE PersistMint(r)
  BY <1>10 DEF PersistMint, Moves
<1>11. CASE NotifyAccepted(r)
  BY <1>11 DEF NotifyAccepted, Moves
<1>12. CASE \E i \in Issuance, k \in Kyc : BeginRetire(r, i, k)
  BY <1>12 DEF Begins
<1>13. CASE CreateRetirement(r)
  BY <1>13 DEF CreateRetirement, Moves
<1>14. CASE \E i \in Issuance : BeginDelist(r, i)
  BY <1>14 DEF Begins
<1>15. CASE BurnSucceeds(r)
  BY <1>15 DEF BurnSucceeds, Burn, Learns
<1>16. CASE BurnFails(r)
  BY <1>16 DEF BurnFails, Moves
<1>17. CASE BurnReplyLost(r)
  BY <1>17 DEF BurnReplyLost, Burn, RetryOrThrow, Moves, Retries
<1>18. CASE SaveRetirement(r)
  BY <1>18 DEF SaveRetirement, Moves
<1>19. CASE SaveDelist(r)
  BY <1>19 DEF SaveDelist, Moves
<1>20. CASE RequestThrows(r)
  BY <1>20 DEF RequestThrows, Moves
<1> QED
  BY <1>1, <1>2, <1>3, <1>4, <1>5, <1>6, <1>7, <1>8, <1>9, <1>10, <1>11, <1>12,
     <1>13, <1>14, <1>15, <1>16, <1>17, <1>18, <1>19, <1>20
     DEF HandlerStep, TokenizeStep, BurnStep

(* What a call that begins has loaded.                                      *)
Loaded(x, label, op, i, k, c, s) ==
    /\ x.pc = label /\ x.op = op /\ x.issuance = i /\ x.kyc = k
    /\ x.contract = c /\ x.serial = s

LEMMA BeginFacts ==
    ASSUME BridgeTypeOK, TokenInv, NEW r \in Request, Begins(r)
    PROVE  /\ req[r].pc = "new"
           /\ UNCHANGED bcrVars /\ RegistryOnly
           /\ \E x \in Locals, i \in Issuance :
                /\ req' = [req EXCEPT ![r] = x]
                /\ \/ Loaded(x, "lock", "tokenize", i, NoKyc, NoContract, r)
                   \/ /\ token[i].status = "MINTED"
                      /\ \/ Loaded(x, "burn", "delist", i, NoKyc,
                                   token[i].contract, token[i].serial)
                         \/ \E k \in Kyc : Loaded(x, "create", "retire", i, k,
                                                  token[i].contract, token[i].serial)
<1> DEFINE Begun(label, op, i, k, c, s) ==
      [NewRequest EXCEPT !.pc = label, !.op = op, !.issuance = i, !.kyc = k,
                         !.contract = c, !.serial = s]
<1>1. ASSUME NEW label \in RequestPc, NEW op \in {"tokenize", "retire", "delist"},
             NEW i \in Issuance, NEW k \in Kyc \cup {NoKyc},
             NEW c \in Contract \cup {NoContract}, NEW s \in Request \cup {NoSerial}
      PROVE  /\ Begun(label, op, i, k, c, s) \in Locals
             /\ Loaded(Begun(label, op, i, k, c, s), label, op, i, k, c, s)
  <2>1. 1 \in 1..MaxAttempts /\ 0 \in 0..MaxLedger
    BY BridgeAssumption, WorkerAssumption
  <2> QED
    BY <2>1 DEF NewRequest, Loaded, Locals
<1>2. ASSUME NEW i \in Issuance
      PROVE  /\ token[i].contract \in Contract \cup {NoContract}
             /\ token[i].serial \in Request \cup {NoSerial}
  BY DEF BridgeTypeOK
<1>3. CASE \E i \in Issuance : BeginTokenize(r, i)
  <2>1. PICK i \in Issuance : BeginTokenize(r, i)
    BY <1>3
  <2> DEFINE x == [NewRequest EXCEPT !.pc = "lock", !.op = "tokenize",
                                     !.issuance = i, !.serial = r]
  <2>2. x \in Locals /\ Loaded(x, "lock", "tokenize", i, NoKyc, NoContract, r)
    <3>1. 1 \in 1..MaxAttempts /\ 0 \in 0..MaxLedger
      BY BridgeAssumption, WorkerAssumption
    <3> QED
      BY <3>1 DEF NewRequest, Loaded, Locals, RequestPc
  <2>3. req' = [req EXCEPT ![r] = x]
    BY <2>1 DEF BeginTokenize
  <2> QED
    BY <2>1, <2>2, <2>3 DEF BeginTokenize
<1>4. CASE \E i \in Issuance : BeginDelist(r, i)
  <2>1. PICK i \in Issuance : BeginDelist(r, i)
    BY <1>4
  <2> DEFINE x == Begun("burn", "delist", i, NoKyc, token[i].contract, token[i].serial)
  <2>2. x \in Locals /\ Loaded(x, "burn", "delist", i, NoKyc,
                               token[i].contract, token[i].serial)
    <3> HIDE DEF Begun
    <3> QED
      BY <1>1, <1>2 DEF RequestPc
  <2>3. req' = [req EXCEPT ![r] = x]
    BY <2>1 DEF BeginDelist, Load
  <2> HIDE DEF x
  <2> QED
    BY <2>1, <2>2, <2>3 DEF BeginDelist
<1>5. CASE \E i \in Issuance, k \in Kyc : BeginRetire(r, i, k)
  <2>1. PICK i \in Issuance, k \in Kyc : BeginRetire(r, i, k)
    BY <1>5
  <2> DEFINE x == Begun("create", "retire", i, k, token[i].contract, token[i].serial)
  <2>2. x \in Locals /\ Loaded(x, "create", "retire", i, k,
                               token[i].contract, token[i].serial)
    <3> HIDE DEF Begun
    <3> QED
      BY <1>1, <1>2 DEF RequestPc
  <2>3. req' = [req EXCEPT ![r] = x]
    BY <2>1 DEF BeginRetire, Load
  <2> HIDE DEF x
  <2> QED
    BY <2>1, <2>2, <2>3 DEF BeginRetire
<1> QED
  BY <1>3, <1>4, <1>5 DEF Begins

(* A step of handler r leaves the locals of the others alone, and keeps the *)
(* types of its own.                                                        *)
LEMMA LocalsType ==
    ASSUME BridgeTypeOK, HandlerInv, TokenInv, NEW r \in Request, HandlerStep(r)
    PROVE  /\ req \in [Request -> Locals] /\ req' \in [Request -> Locals]
           /\ \A q \in Request \ {r} : req'[q] = req[q]
<1>1. req \in [Request -> Locals]
  BY DEF BridgeTypeOK, Locals
<1>2. req[r] \in Locals
  BY <1>1
<1>3. CASE Moves(r)
  BY <1>1, <1>3, GotoFacts DEF Moves
<1>4. CASE Begins(r)
  <2>1. PICK x \in Locals : req' = [req EXCEPT ![r] = x]
    BY <1>4, BeginFacts
  <2> QED
    BY <1>1, <2>1
<1>5. CASE Learns(r)
  <2>1. <<r, req[r].attempt>> \in Contract
    BY <1>2 DEF Locals, Contract
  <2>2. Len(ledger) < MaxLedger => Len(ledger) + 1 \in 0..MaxLedger
    BY WorkerAssumption DEF BridgeTypeOK, TypeOK
  <2>3. PICK x \in Locals : req' = [req EXCEPT ![r] = x]
    <3>1. CASE req' = [req EXCEPT ![r].pc = "persist",
                                  ![r].contract = <<r, req[r].attempt>>]
      <4>1. [req[r] EXCEPT !.pc = "persist", !.contract = <<r, req[r].attempt>>] \in Locals
        BY <1>2, <2>1 DEF Locals, RequestPc
      <4> QED
        BY <3>1, <4>1, <1>1
    <3>2. CASE Len(ledger) < MaxLedger
               /\ req' = [req EXCEPT ![r].pc = "save", ![r].tx = Len(ledger) + 1]
      <4>1. [req[r] EXCEPT !.pc = "save", !.tx = Len(ledger) + 1] \in Locals
        BY <1>2, <2>2, <3>2 DEF Locals, RequestPc
      <4> QED
        BY <3>2, <4>1, <1>1
    <3> QED
      BY <1>5, <3>1, <3>2 DEF Learns
  <2> QED
    BY <1>1, <2>3
<1>6. CASE Retries(r)
  <2>1. [req[r] EXCEPT !.attempt = @ + 1] \in Locals
    BY <1>2, <1>6, BridgeAssumption DEF Retries, Locals
  <2> QED
    BY <1>1, <1>6, <2>1 DEF Retries
<1> QED
  BY <1>1, <1>3, <1>4, <1>5, <1>6, HandlerMoves

(* The locals a call keeps once it has begun, and those of the contracts.   *)
Kept(q) ==
    /\ req[q].op # "none" =>
          /\ req'[q].op = req[q].op /\ req'[q].issuance = req[q].issuance
          /\ req'[q].kyc = req[q].kyc /\ req'[q].serial = req[q].serial
          /\ req'[q].pc # "new"
    /\ Deployed(q) \/ req[q].op \in {"retire", "delist"} =>
          req'[q].contract = req[q].contract
    /\ Minted(q) => Minted(q)'

LEMMA CrashFacts ==
    ASSUME BridgeTypeOK, ProcessCrash
    PROVE  /\ req \in [Request -> Locals] /\ req' \in [Request -> Locals]
           /\ \A q \in Request :
                /\ req'[q].pc = IF InFlight(q) THEN "done" ELSE req[q].pc
                /\ req'[q].op = req[q].op /\ req'[q].issuance = req[q].issuance
                /\ req'[q].kyc = req[q].kyc /\ req'[q].contract = req[q].contract
                /\ req'[q].serial = req[q].serial
                /\ req'[q].attempt = req[q].attempt /\ req'[q].tx = req[q].tx
<1>1. req \in [Request -> Locals]
  BY DEF BridgeTypeOK, Locals
<1>2. \A q \in Request : req[q] \in Locals
  BY <1>1
<1>3. req' = [r \in Request |->
                IF InFlight(r) THEN [req[r] EXCEPT !.pc = "done"] ELSE req[r]]
  BY DEF ProcessCrash
<1>4. ASSUME NEW q \in Request PROVE [req[q] EXCEPT !.pc = "done"] \in Locals
  BY <1>2 DEF Locals, RequestPc
<1>5. req' \in [Request -> Locals]
  BY <1>2, <1>3, <1>4
<1> QED
  BY <1>1, <1>2, <1>3, <1>5 DEF Locals

LEMMA KeptByHandler ==
    ASSUME BridgeTypeOK, HandlerInv, TokenInv, NEW r \in Request, HandlerStep(r),
           NEW q \in Request
    PROVE  Kept(q)
<1>1. /\ req \in [Request -> Locals] /\ req' \in [Request -> Locals]
      /\ \A x \in Request \ {r} : req'[x] = req[x]
  BY LocalsType
<1>2. HandlerOK(q) /\ HandlerOK(r)
  BY DEF HandlerInv
<1> USE DEF Kept, Minted, Deployed, HandlerOK
<1>3. CASE q # r
  BY <1>1, <1>2, <1>3
<1>4. CASE q = r /\ Begins(r)
  BY <1>2, <1>4, BeginFacts
<1>5. CASE q = r /\ Moves(r)
  <2>1. PICK label \in RequestPc : <<req[r].pc, label>> \in Edges /\ Goto(r, label)
    BY <1>5 DEF Moves
  <2>2. /\ label # "new" /\ req[r].pc \notin {"new", "done"}
        /\ req[r].pc = "notify" => label = "done"
    BY <2>1 DEF Edges
  <2> QED
    BY <1>1, <1>2, <1>5, <2>1, <2>2, GotoFacts
<1>6. CASE q = r /\ Learns(r)
  <2>1. req[r] \in Locals
    BY <1>1
  <2>2. CASE req[r].pc = "deploy"
    BY <1>1, <1>2, <1>6, <2>1, <2>2 DEF Learns, TokenizePc, Locals
  <2>3. CASE req[r].pc = "burn"
    BY <1>1, <1>2, <1>6, <2>1, <2>3 DEF Learns, BurnPc, Locals
  <2> QED
    BY <1>6, <2>2, <2>3 DEF Learns
<1>7. CASE q = r /\ Retries(r)
  BY <1>1, <1>2, <1>7 DEF Retries, Locals
<1> QED
  BY <1>3, <1>4, <1>5, <1>6, <1>7, HandlerMoves

LEMMA KeptStep ==
    ASSUME BridgeTypeOK, HandlerInv, TokenInv, [BridgeNext]_allVars
    PROVE  /\ \A q \in Request : Kept(q)
           /\ req' \in [Request -> Locals]
<1>1. req \in [Request -> Locals]
  BY DEF BridgeTypeOK, Locals
<1>2. CASE UNCHANGED req
  BY <1>1, <1>2 DEF Kept, Minted, Deployed, HandlerInv, HandlerOK
<1>3. CASE ProcessCrash
  <2>1. ASSUME NEW q \in Request PROVE Kept(q)
    BY <1>3, CrashFacts DEF Kept, Minted, Deployed, HandlerInv, HandlerOK, InFlight
  <2> QED
    BY <1>3, <2>1, CrashFacts
<1>4. CASE \E r \in Request : HandlerStep(r)
  BY <1>4, KeptByHandler, LocalsType
<1> QED
  BY <1>2, <1>3, <1>4 DEF BridgeNext, HandlerStep, WorkerRuns, bridgeVars, allVars
-----------------------------------------------------------------------------
(* A call whose target and own counter and contract survive a step is still *)
(* in order: the counterpart of Kept for the invariant.                     *)
LEMMA HandlerInvStep ==
    ASSUME BridgeTypeOK, HandlerInv, TokenInv, [BridgeNext]_allVars
    PROVE  HandlerInv'
<1>1. /\ \A q \in Request : Kept(q)
      /\ req \in [Request -> Locals] /\ req' \in [Request -> Locals]
  BY KeptStep DEF BridgeTypeOK, Locals
<1> SUFFICES ASSUME NEW q \in Request PROVE HandlerOK(q)'
  BY DEF HandlerInv
<1>2. HandlerOK(q) /\ Kept(q)
  BY <1>1 DEF HandlerInv
<1>3. req[q] \in Locals /\ req'[q] \in Locals
  BY <1>1
<1>4. ASSUME NEW s \in Request, Minted(s)
      PROVE  /\ req'[s].op = "tokenize" /\ req'[s].contract # NoContract
             /\ req'[s].pc \in {"notify", "done"}
             /\ req'[s].contract = req[s].contract
  BY <1>1, <1>4 DEF Kept, Minted, Deployed
<1> USE DEF HandlerOK, Minted, Deployed
<1>5. CASE UNCHANGED req[q]
  BY <1>2, <1>4, <1>5 DEF Kept
<1>6. CASE ProcessCrash
  <2> USE CrashFacts, <1>6 DEF InFlight, TokenizePc, BurnPc
  <2>1. req'[q].op = "none" <=> req'[q].pc = "new"
    BY <1>2
  <2>2. (req[q].op \in {"retire", "delist"} =>
          Minted(req[q].serial) /\ req[q].contract = req[req[q].serial].contract)'
    BY <1>2, <1>4 DEF Kept
  <2> QED
    BY <1>2, <2>1, <2>2
<1>7. CASE Begins(q)
  <2>1. PICK x \in Locals, i \in Issuance :
          /\ req' = [req EXCEPT ![q] = x]
          /\ \/ Loaded(x, "lock", "tokenize", i, NoKyc, NoContract, q)
             \/ /\ token[i].status = "MINTED"
                /\ \/ Loaded(x, "burn", "delist", i, NoKyc,
                             token[i].contract, token[i].serial)
                   \/ \E k \in Kyc : Loaded(x, "create", "retire", i, k,
                                            token[i].contract, token[i].serial)
    BY <1>7, BeginFacts
  <2>2. req'[q] = x
    BY <1>1, <2>1
  <2>3. token[i].status = "MINTED" =>
          /\ token[i].serial \in Request /\ Minted(token[i].serial)
          /\ token[i].contract = req[token[i].serial].contract
    BY DEF TokenInv
  <2>4. CASE Loaded(x, "lock", "tokenize", i, NoKyc, NoContract, q)
    BY <2>2, <2>4 DEF Loaded, TokenizePc, BurnPc
  <2>5. CASE /\ token[i].status = "MINTED"
             /\ \E k \in Kyc \cup {NoKyc}, op \in {"retire", "delist"},
                   label \in {"create", "burn"} :
                  /\ op = "retire" => k \in Kyc
                  /\ label = "create" => op = "retire"
                  /\ Loaded(x, label, op, i, k, token[i].contract, token[i].serial)
    <3>1. PICK s \in Request : s = token[i].serial
      BY <2>3, <2>5
    <3>2. /\ req'[q].serial = s /\ req'[q].contract = token[i].contract
          /\ req'[q].op \in {"retire", "delist"} /\ req'[q].pc \in {"create", "burn"}
          /\ req'[q].issuance = i
          /\ req'[q].op = "retire" => req'[q].kyc \in Kyc
          /\ req'[q].pc = "create" => req'[q].op = "retire"
      BY <2>2, <2>5, <3>1 DEF Loaded
    <3>3. Minted(s) /\ token[i].contract = req[s].contract
      BY <2>3, <2>5, <3>1
    <3> QED
      BY <1>4, <3>2, <3>3 DEF TokenizePc, BurnPc
  <2> QED
    BY <2>1, <2>4, <2>5
<1>8. CASE Moves(q)
  <2>1. PICK label \in RequestPc : <<req[q].pc, label>> \in Edges /\ Goto(q, label)
    BY <1>8 DEF Moves
  <2>2. /\ req'[q].pc = label /\ req'[q].op = req[q].op
        /\ req'[q].issuance = req[q].issuance /\ req'[q].kyc = req[q].kyc
        /\ req'[q].contract = req[q].contract /\ req'[q].serial = req[q].serial
    BY <1>1, <2>1, GotoFacts
  <2>3. /\ label # "new" /\ req[q].pc # "new" /\ label # "create"
        /\ label \in TokenizePc => req[q].pc \in TokenizePc
        /\ label \in BurnPc => req[q].pc \in BurnPc \cup {"create"}
        /\ req[q].pc \in {"persist", "notify"} => label \in {"notify", "done"}
        /\ label \in {"persist", "notify"} => req[q].pc = "persist"
        /\ req[q].pc # "done"
    BY <2>1 DEF Edges, TokenizePc, BurnPc
  <2>4. (req[q].op \in {"retire", "delist"} =>
          Minted(req[q].serial) /\ req[q].contract = req[req[q].serial].contract)'
    BY <1>2, <1>4, <2>2 DEF Kept
  <2> QED
    BY <1>2, <2>2, <2>3, <2>4
<1>9. CASE Learns(q)
  <2>1. CASE req[q].pc = "deploy"
    <3>1. /\ req'[q].pc = "persist" /\ req'[q].op = req[q].op
          /\ req'[q].issuance = req[q].issuance /\ req'[q].kyc = req[q].kyc
          /\ req'[q].contract = <<q, req[q].attempt>> /\ req'[q].serial = req[q].serial
      BY <1>1, <1>3, <1>9, <2>1 DEF Learns, Locals
    <3>2. <<q, req[q].attempt>> \in Contract /\ <<q, req[q].attempt>> # NoContract
      BY <1>3 DEF Locals, Contract, NoContract
    <3> QED
      BY <1>2, <2>1, <3>1, <3>2 DEF TokenizePc, BurnPc
  <2>2. CASE req[q].pc = "burn"
    <3>1. /\ req'[q].pc = "save" /\ req'[q].op = req[q].op
          /\ req'[q].issuance = req[q].issuance /\ req'[q].kyc = req[q].kyc
          /\ req'[q].contract = req[q].contract /\ req'[q].serial = req[q].serial
      BY <1>1, <1>3, <1>9, <2>2 DEF Learns, Locals
    <3> QED
      BY <1>2, <1>4, <2>2, <3>1 DEF TokenizePc, BurnPc, Kept
  <2> QED
    BY <1>9, <2>1, <2>2 DEF Learns
<1>10. CASE Retries(q)
  <2>1. /\ req'[q].pc = req[q].pc /\ req'[q].op = req[q].op
        /\ req'[q].issuance = req[q].issuance /\ req'[q].kyc = req[q].kyc
        /\ req'[q].contract = req[q].contract /\ req'[q].serial = req[q].serial
    BY <1>1, <1>3, <1>10 DEF Retries, Locals
  <2> QED
    BY <1>2, <1>4, <1>10, <2>1 DEF Kept
<1>11. CASE \E r \in Request : HandlerStep(r)
  <2>1. PICK r \in Request : HandlerStep(r)
    BY <1>11
  <2> QED
    BY <2>1, LocalsType, HandlerMoves, <1>5, <1>7, <1>8, <1>9, <1>10
<1> QED
  BY <1>5, <1>6, <1>11 DEF BridgeNext, HandlerStep, WorkerRuns, bridgeVars, allVars
-----------------------------------------------------------------------------
(* Every step of the bridge is a step of EventsWorker or leaves its         *)
(* variables alone.                                                         *)
LEMMA IsWorkerStep ==
    ASSUME BridgeTypeOK, HandlerInv, [BridgeNext]_allVars
    PROVE  [Next]_vars
<1> USE DEF Next, Environment, bcrVars, chainVars, rowVars, mirrorVars, loopVars,
      tickVars, vars
<1>1. CASE UNCHANGED allVars
  BY <1>1 DEF allVars
<1>2. CASE WorkerRuns
  BY <1>2 DEF WorkerRuns, WorkerNext
<1>3. CASE ProcessCrash
  BY <1>3 DEF ProcessCrash, WorkerNext
<1>4. ASSUME NEW r \in Request, HandlerStep(r) PROVE [Next]_vars
  <2>1. r \in Serial /\ r \in Lock
    BY BridgeAssumption
  <2>2. CASE UNCHANGED <<bcrVars, ledger, delistStatus>> /\ WorkerUnchanged
    BY <2>2 DEF WorkerUnchanged
  <2>3. ASSUME LockVCC(r, r) \/ NotifyMint(r, r) \/ ConfirmLock(r) \/ UnlockVCC(r),
               RegistryOnly
        PROVE  RegistryClient
    BY <2>1, <2>3 DEF RegistryClient, RegistryOnly, WorkerUnchanged,
       EnvironmentUnchanged
  <2>4. CASE LockAccepted(r) \/ ConfirmAccepted(r) \/ ReleaseLock(r) \/ NotifyAccepted(r)
    BY <2>3, <2>4 DEF LockAccepted, ConfirmAccepted, ReleaseLock, NotifyAccepted
  <2>5. CASE Burn(r) /\ ChainOnly
    <3>1. /\ req[r].issuance \in Issuance /\ req[r].serial \in Request
          /\ (req[r].op = "retire") \in BOOLEAN
      BY <2>5 DEF Burn, HandlerInv, HandlerOK
    <3>2. BurnOf(r) \in LedgerEntry
      BY <3>1, BridgeAssumption DEF BurnOf
    <3> QED
      BY <2>5, <3>2 DEF Burn, ChainOnly, WorkerUnchanged, ChainAppends,
         EnvironmentUnchanged
  <2>6. CASE BurnSucceeds(r) \/ BurnReplyLost(r)
    BY <2>5, <2>6 DEF BurnSucceeds, BurnReplyLost
  <2>7. CASE SaveDelist(r)
    <3>1. req[r].issuance \in Issuance
      BY <2>7 DEF SaveDelist, HandlerInv, HandlerOK
    <3> QED
      BY <2>7, <3>1 DEF SaveDelist, RowsOnly, WorkerUnchanged, DelistInitiator,
         EnvironmentUnchanged
  <2>8. CASE RegistryRefuses(r) \/ Begins(r)
    BY <2>2, <2>8, BeginFacts DEF Begins, BeginTokenize, BeginRetire, BeginDelist,
       RegistryRefuses, RegistryOnly
  <2>9. CASE DeploySucceeds(r) \/ DeployFails(r) \/ DeployReplyLost(r) \/ BurnFails(r)
    BY <2>2, <2>9 DEF DeploySucceeds, DeployFails, DeployReplyLost, BurnFails, ChainOnly
  <2>10. CASE MarkIssuanceFailed(r) \/ PersistMint(r) \/ CreateRetirement(r)
              \/ SaveRetirement(r)
    BY <2>2, <2>10 DEF MarkIssuanceFailed, PersistMint, CreateRetirement,
       SaveRetirement, RowsOnly
  <2>11. CASE RequestThrows(r)
    BY <2>2, <2>11 DEF RequestThrows
  <2> QED
    BY <1>4, <2>4, <2>6, <2>7, <2>8, <2>9, <2>10, <2>11
       DEF HandlerStep, TokenizeStep, BurnStep, Begins
<1> QED
  BY <1>1, <1>2, <1>3, <1>4 DEF BridgeNext, HandlerStep
-----------------------------------------------------------------------------
(* Which actions change which part of the state.                            *)
Deploys(r) ==
    /\ req[r].pc = "deploy"
    /\ contracts' = [contracts EXCEPT ![<<r, req[r].attempt>>] = "live"]
    /\ UNCHANGED bcrVars
    /\ \/ /\ lost' = lost
          /\ req' = [req EXCEPT ![r].pc = "persist",
                                ![r].contract = <<r, req[r].attempt>>]
       \/ lost' = lost + 1

(* The worker's two calls of the registry.                                  *)
WorkerForwards == ForwardRetirement \/ ForwardDelist

LEMMA Effects ==
    ASSUME [BridgeNext]_allVars
    PROVE  /\ \/ UNCHANGED token
              \/ \E r \in Request : MarkIssuanceFailed(r) \/ PersistMint(r)
           /\ \/ UNCHANGED contracts
              \/ \E r \in Request : Deploys(r) \/ Burn(r)
           /\ \/ UNCHANGED <<ledger, burntBy>>
              \/ \E r \in Request : Burn(r) /\ (BurnSucceeds(r) \/ BurnReplyLost(r))
           /\ \/ UNCHANGED bcrVars
              \/ WorkerForwards /\ UNCHANGED bridgeVars
              \/ \E r \in Request : LockAccepted(r) \/ ConfirmAccepted(r)
                                    \/ ReleaseLock(r) \/ NotifyAccepted(r)
           /\ \/ UNCHANGED delistStatus
              \/ \E r \in Request : SaveDelist(r)
              \/ FlipDelist
           /\ \/ UNCHANGED <<retirement>>
              \/ \E r \in Request : CreateRetirement(r) \/ SaveRetirement(r)
           /\ \/ UNCHANGED delistTx
              \/ \E r \in Request : SaveDelist(r)
           /\ lost' = lost \/ (lost' = lost + 1 /\ lost < MaxLost)
           /\ throws' = throws \/ (throws' = throws + 1 /\ throws < MaxThrows)
<1> USE DEF bcrVars, chainVars, rowVars, mirrorVars, loopVars, tickVars, vars,
      rowsOfBridge, chainOfBridge, bridgeVars
<1>1. CASE UNCHANGED allVars
  BY <1>1 DEF allVars
<1>2. CASE WorkerRuns
  <2>1. UNCHANGED bridgeVars
    BY <1>2 DEF WorkerRuns
  <2>2. \/ UNCHANGED <<bcrVars, ledger, delistStatus>>
        \/ WorkerForwards /\ UNCHANGED <<ledger, delistStatus>>
        \/ FlipDelist /\ UNCHANGED <<bcrVars, ledger>>
    <3>1. CASE StartWorker \/ TimerFires \/ FlipDelistThrows \/ TickThrows
      BY <3>1 DEF StartWorker, TimerFires, FlipDelistThrows, TickThrows
    <3>2. CASE Poll \/ \E p \in Position : SkipSettled(p) \/ ReserveEvent(p)
      BY <3>2 DEF Poll, SkipSettled, ReserveEvent
    <3>3. CASE WorkerForwards
      BY <3>3 DEF WorkerForwards, ForwardRetirement, ForwardDelist
    <3>4. CASE ForwardFails \/ FlipDelist
      BY <3>4 DEF ForwardFails, FlipDelist
    <3>5. CASE ApplyIssuanceStateTransition \/ MarkProcessed \/ MarkFailedPermanent
               \/ MarkForRetry \/ PersistCursor
      BY <3>5 DEF ApplyIssuanceStateTransition, MarkProcessed, MarkFailedPermanent,
         MarkForRetry, PersistCursor
    <3> QED
      BY <1>2, <3>1, <3>2, <3>3, <3>4, <3>5 DEF WorkerRuns, TickStep, WorkerForwards
  <2> QED
    BY <2>1, <2>2
<1>3. CASE ProcessCrash
  BY <1>3 DEF ProcessCrash, Crash
<1>4. ASSUME NEW r \in Request, HandlerStep(r)
      PROVE  /\ UNCHANGED token \/ MarkIssuanceFailed(r) \/ PersistMint(r)
             /\ UNCHANGED contracts \/ Deploys(r) \/ Burn(r)
             /\ \/ UNCHANGED <<ledger, burntBy>>
                \/ Burn(r) /\ (BurnSucceeds(r) \/ BurnReplyLost(r))
             /\ \/ UNCHANGED bcrVars
                \/ LockAccepted(r) \/ ConfirmAccepted(r)
                \/ ReleaseLock(r) \/ NotifyAccepted(r)
             /\ UNCHANGED delistStatus \/ SaveDelist(r)
             /\ UNCHANGED retirement \/ CreateRetirement(r) \/ SaveRetirement(r)
             /\ UNCHANGED delistTx \/ SaveDelist(r)
             /\ lost' = lost \/ (lost' = lost + 1 /\ lost < MaxLost)
             /\ throws' = throws \/ (throws' = throws + 1 /\ throws < MaxThrows)
  <2>1. CASE LockAccepted(r) \/ ConfirmAccepted(r) \/ ReleaseLock(r) \/ NotifyAccepted(r)
    BY <2>1 DEF LockAccepted, ConfirmAccepted, ReleaseLock, NotifyAccepted, RegistryOnly
  <2>2. CASE RegistryRefuses(r) \/ Begins(r)
    BY <2>2 DEF Begins, BeginTokenize, BeginRetire, BeginDelist, RegistryRefuses,
       RegistryOnly
  <2>3. CASE DeploySucceeds(r) \/ DeployReplyLost(r)
    BY <2>3 DEF DeploySucceeds, DeployReplyLost, Deploys, ChainOnly
  <2>4. CASE DeployFails(r) \/ BurnFails(r)
    BY <2>4 DEF DeployFails, BurnFails, ChainOnly
  <2>5. CASE BurnSucceeds(r) \/ BurnReplyLost(r)
    BY <2>5 DEF BurnSucceeds, BurnReplyLost, ChainOnly
  <2>6. CASE MarkIssuanceFailed(r) \/ PersistMint(r)
    BY <2>6 DEF MarkIssuanceFailed, PersistMint, RowsOnly
  <2>7. CASE CreateRetirement(r) \/ SaveRetirement(r)
    BY <2>7 DEF CreateRetirement, SaveRetirement, RowsOnly
  <2>8. CASE SaveDelist(r)
    BY <2>8 DEF SaveDelist, RowsOnly
  <2>9. CASE RequestThrows(r)
    BY <2>9 DEF RequestThrows
  <2> QED
    BY <1>4, <2>1, <2>2, <2>3, <2>4, <2>5, <2>6, <2>7, <2>8, <2>9
       DEF HandlerStep, TokenizeStep, BurnStep, Begins
<1>5. CASE \E r \in Request : HandlerStep(r)
  BY <1>4, <1>5
<1> QED
  BY <1>1, <1>2, <1>3, <1>5 DEF BridgeNext, HandlerStep

(* The ledger and its burners grow by one, together.                        *)
LEMMA BurnFacts ==
    ASSUME BridgeTypeOK, NEW r \in Request, Burn(r)
    PROVE  LET n == Len(ledger) IN
           /\ Len(burntBy) = n /\ Len(ledger') = n + 1 /\ Len(burntBy') = n + 1
           /\ burntBy' \in Seq(Request)
           /\ \A p \in 1..n : ledger'[p] = ledger[p] /\ burntBy'[p] = burntBy[p]
           /\ ledger'[n + 1] = BurnOf(r) /\ burntBy'[n + 1] = r
<1>1. ledger \in Seq(LedgerEntry) /\ burntBy \in Seq(Request) /\ Len(burntBy) = Len(ledger)
  BY DEF BridgeTypeOK, TypeOK
<1>2. ledger' = Append(ledger, BurnOf(r)) /\ burntBy' = Append(burntBy, r)
  BY DEF Burn
<1> HIDE DEF BurnOf
<1> QED
  BY <1>1, <1>2

LEMMA BridgeTypeStep ==
    ASSUME Inv, BridgeTypeOK, HandlerInv, TokenInv, [BridgeNext]_allVars
    PROVE  BridgeTypeOK'
<1>1. TypeOK'
  BY IsWorkerStep, TypeStep
<1>2. req' \in [Request -> Locals] /\ \A r \in Request : req[r] \in Locals
  BY KeptStep DEF BridgeTypeOK, Locals
<1>3. (token \in [Issuance -> [status : {"none", "MINTED", "FAILED"},
                               contract : Contract \cup {NoContract},
                               serial : Request \cup {NoSerial}]])'
  <2> DEFINE Row == [status : {"none", "MINTED", "FAILED"},
                     contract : Contract \cup {NoContract},
                     serial : Request \cup {NoSerial}]
  <2>1. token \in [Issuance -> Row]
    BY DEF BridgeTypeOK
  <2>2. ASSUME NEW r \in Request, MarkIssuanceFailed(r) PROVE token' \in [Issuance -> Row]
    <3>1. token' = [token EXCEPT ![req[r].issuance] =
                      [token[req[r].issuance] EXCEPT !.status = "FAILED", !.serial = r]]
      BY <2>2 DEF MarkIssuanceFailed
    <3>2. ASSUME NEW t \in Row
          PROVE  [t EXCEPT !.status = "FAILED", !.serial = r] \in Row
      OBVIOUS
    <3> QED
      BY <2>1, <3>1, <3>2
  <2>3. ASSUME NEW r \in Request, PersistMint(r) PROVE token' \in [Issuance -> Row]
    <3>1. [status |-> "MINTED", contract |-> req[r].contract, serial |-> r] \in Row
      BY <1>2 DEF Locals
    <3> QED
      BY <2>1, <2>3, <3>1 DEF PersistMint
  <2> QED
    BY <2>1, <2>2, <2>3, Effects
<1>4. (retirement \in [Issuance \X Kyc ->
            [status : {"none", "INITIATED", "CHAIN_BURNED", "FAILED"},
             tx : 0..MaxLedger]])'
  <2> DEFINE Row == [status : {"none", "INITIATED", "CHAIN_BURNED", "FAILED"},
                     tx : 0..MaxLedger]
  <2>1. retirement \in [Issuance \X Kyc -> Row]
    BY DEF BridgeTypeOK
  <2>2. ASSUME NEW t \in Row, NEW st \in {"none", "INITIATED", "CHAIN_BURNED", "FAILED"}
        PROVE  [t EXCEPT !.status = st] \in Row
    OBVIOUS
  <2>3. ASSUME NEW r \in Request, NEW st \in {"none", "INITIATED", "CHAIN_BURNED", "FAILED"},
               retirement' = [retirement EXCEPT ![RowOf(r)].status = st]
        PROVE  retirement' \in [Issuance \X Kyc -> Row]
    <3>1. retirement' = [retirement EXCEPT ![RowOf(r)] =
                           [retirement[RowOf(r)] EXCEPT !.status = st]]
      BY <2>3
    <3> QED
      BY <2>1, <2>2, <3>1
  <2>4. ASSUME NEW r \in Request
        PROVE  [status |-> "CHAIN_BURNED", tx |-> req[r].tx] \in Row
    BY <1>2 DEF Locals
  <2>5. ASSUME NEW r \in Request, CreateRetirement(r) \/ SaveRetirement(r)
        PROVE  retirement' \in [Issuance \X Kyc -> Row]
    <3>1. \/ retirement' = [retirement EXCEPT ![RowOf(r)].status = "INITIATED"]
          \/ retirement' = [retirement EXCEPT ![RowOf(r)].status = "FAILED"]
          \/ retirement' = [retirement EXCEPT ![RowOf(r)] =
                              [status |-> "CHAIN_BURNED", tx |-> req[r].tx]]
          \/ UNCHANGED retirement
      BY <2>5 DEF CreateRetirement, SaveRetirement
    <3> QED
      BY <2>1, <2>3, <2>4, <3>1
  <2> QED
    BY <2>1, <2>5, Effects
<1>5. (delistTx \in [Issuance -> 0..MaxLedger])'
  BY <1>2, Effects DEF BridgeTypeOK, SaveDelist, Locals
<1>6. (contracts \in [Contract -> {"none", "live", "burnt"}])'
  BY <1>2, Effects DEF BridgeTypeOK, Deploys, Burn, Locals
<1>7. (burntBy \in Seq(Request) /\ Len(burntBy) = Len(ledger))'
  BY Effects, BurnFacts DEF BridgeTypeOK
<1>8. (lost \in 0..MaxLost /\ throws \in 0..MaxThrows)'
  BY Effects, BridgeAssumption DEF BridgeTypeOK
<1> QED
  BY <1>1, <1>2, <1>3, <1>4, <1>5, <1>6, <1>7, <1>8 DEF BridgeTypeOK, Locals
-----------------------------------------------------------------------------
(* A stored tokenization and its contract are never given up.               *)
LEMMA MintedKept ==
    ASSUME BridgeTypeOK, HandlerInv, TokenInv, [BridgeNext]_allVars,
           NEW s \in Request, Minted(s)
    PROVE  /\ Minted(s)' /\ req'[s].contract = req[s].contract
           /\ req[s].contract \in Contract /\ req[s].contract[1] = s
           /\ req[s].pc \in {"notify", "done"}
<1>1. Kept(s) /\ HandlerOK(s)
  BY KeptStep DEF HandlerInv
<1> QED
  BY <1>1 DEF Kept, Minted, HandlerOK, Deployed

(* A tokenization comes to know its contract when the chain deployed it.    *)
LEMMA DeployedBefore ==
    ASSUME BridgeTypeOK, HandlerInv, TokenInv, [BridgeNext]_allVars,
           NEW q \in Request, Deployed(q)'
    PROVE  \/ Deployed(q) /\ req'[q].contract = req[q].contract
           \/ /\ Deploys(q) /\ req'[q].pc = "persist"
              /\ req'[q].contract = <<q, req[q].attempt>>
<1>1. Kept(q) /\ req \in [Request -> Locals] /\ req[q] \in Locals /\ HandlerOK(q)
  BY KeptStep DEF BridgeTypeOK, Locals, HandlerInv
<1>2. CASE Deployed(q)
  BY <1>1, <1>2 DEF Kept
<1> SUFFICES ASSUME ~Deployed(q)
             PROVE  /\ Deploys(q) /\ req'[q].pc = "persist"
                    /\ req'[q].contract = <<q, req[q].attempt>>
  BY <1>2
<1>3. ~UNCHANGED req[q]
  BY DEF Deployed
<1>4. ~ProcessCrash
  BY CrashFacts DEF Deployed
<1>5. HandlerStep(q)
  <2>1. PICK r \in Request : HandlerStep(r)
    BY <1>3, <1>4 DEF BridgeNext, HandlerStep, WorkerRuns, bridgeVars, allVars
  <2> QED
    BY <1>3, <2>1, LocalsType
<1>6. ~Begins(q)
  <2> SUFFICES ASSUME Begins(q) PROVE FALSE
    OBVIOUS
  <2>1. PICK x \in Locals, i \in Issuance :
          /\ req' = [req EXCEPT ![q] = x]
          /\ \/ Loaded(x, "lock", "tokenize", i, NoKyc, NoContract, q)
             \/ \E label, op, k, c, s :
                  op # "tokenize" /\ Loaded(x, label, op, i, k, c, s)
    BY BeginFacts
  <2>2. req'[q] = x
    BY <1>1, <2>1
  <2> QED
    BY <2>1, <2>2 DEF Loaded, Deployed
<1>7. ~Moves(q)
  BY <1>1, GotoFacts DEF Moves, Deployed
<1>8. ~Retries(q)
  BY <1>1 DEF Retries, Deployed, Locals
<1>9. Learns(q) /\ req[q].pc = "deploy"
  <2>1. Learns(q)
    BY <1>5, <1>6, <1>7, <1>8, HandlerMoves
  <2>2. req[q].pc # "burn"
    BY <1>1, <2>1 DEF Learns, Deployed, Locals
  <2> QED
    BY <2>1, <2>2 DEF Learns
<1>10. DeploySucceeds(q)
  <2>1. req'[q].pc = "persist"
    BY <1>1, <1>9 DEF Learns, Locals
  <2>3. ~Goto(q, "unlock") /\ ~Goto(q, "done")
    BY <1>1, <2>1 DEF Goto, Locals
  <2>4. ~DeployFails(q) /\ ~RequestThrows(q)
    BY <2>3 DEF DeployFails, RequestThrows
  <2>5. ~DeployReplyLost(q)
    BY <1>8, <1>9, <2>3 DEF DeployReplyLost, RetryOrThrow, Retries
  <2>6. DeploySucceeds(q) \/ DeployFails(q) \/ DeployReplyLost(q) \/ RequestThrows(q)
    BY <1>5, <1>9 DEF HandlerStep, TokenizeStep, BurnStep, BeginTokenize,
       LockAccepted, ConfirmAccepted, RegistryRefuses, AfterRefusal, ReleaseLock,
       MarkIssuanceFailed, PersistMint, NotifyAccepted, BeginRetire,
       CreateRetirement, BeginDelist, BurnSucceeds, BurnFails, BurnReplyLost, Burn,
       SaveRetirement, SaveDelist
  <2> QED
    BY <2>4, <2>5, <2>6
<1> QED
  BY <1>1, <1>9, <1>10 DEF DeploySucceeds, Deploys, ChainOnly, Locals

LEMMA TokenStep ==
    ASSUME BridgeTypeOK, HandlerInv, TokenInv, [BridgeNext]_allVars
    PROVE  TokenInv'
<1> SUFFICES ASSUME NEW i \in Issuance, token'[i].status = "MINTED"
             PROVE  \E s \in Request :
                      /\ token'[i].serial = s /\ Minted(s)'
                      /\ token'[i].contract = req'[s].contract
  BY DEF TokenInv, Minted, Deployed
<1>1. req \in [Request -> Locals]
  BY DEF BridgeTypeOK, Locals
<1>2. CASE token'[i] = token[i]
  <2>1. PICK s \in Request : /\ token[i].serial = s /\ Minted(s)
                             /\ token[i].contract = req[s].contract
    BY <1>2 DEF TokenInv
  <2> QED
    BY <1>2, <2>1, MintedKept
<1>3. ASSUME NEW r \in Request, MarkIssuanceFailed(r) PROVE token'[i] = token[i]
  BY <1>3 DEF MarkIssuanceFailed, BridgeTypeOK
<1>4. ASSUME NEW r \in Request, PersistMint(r), req[r].issuance = i
      PROVE  /\ token'[i].serial = r /\ Minted(r)'
             /\ token'[i].contract = req'[r].contract
  <2>1. /\ token'[i].serial = r /\ token'[i].contract = req[r].contract
        /\ req[r].pc = "persist" /\ Goto(r, "notify")
    BY <1>4 DEF PersistMint, BridgeTypeOK
  <2>2. /\ req'[r].pc = "notify" /\ req'[r].op = req[r].op
        /\ req'[r].contract = req[r].contract
    BY <1>1, <2>1, GotoFacts
  <2>3. req[r].op = "tokenize" /\ req[r].contract # NoContract
    BY <2>1 DEF HandlerInv, HandlerOK, TokenizePc
  <2> QED
    BY <2>1, <2>2, <2>3 DEF Minted, Deployed
<1>5. ASSUME NEW r \in Request, PersistMint(r), req[r].issuance # i
      PROVE  token'[i] = token[i]
  BY <1>5 DEF PersistMint, BridgeTypeOK
<1> QED
  BY <1>2, <1>3, <1>4, <1>5, Effects

(* A burn is of a contract a tokenization has stored.                       *)
LEMMA BurnTarget ==
    ASSUME HandlerInv, NEW r \in Request, req[r].op \in {"retire", "delist"}
    PROVE  \E s \in Request :
              /\ req[r].serial = s /\ Minted(s) /\ req[r].contract = req[s].contract
              /\ req[s].contract \in Contract /\ req[s].contract[1] = s
<1>1. HandlerOK(r)
  BY DEF HandlerInv
<1>2. PICK s \in Request : /\ req[r].serial = s /\ Minted(s)
                           /\ req[r].contract = req[s].contract
  BY <1>1 DEF HandlerOK
<1>3. HandlerOK(s)
  BY DEF HandlerInv
<1> QED
  BY <1>2, <1>3 DEF HandlerOK, Minted

LEMMA ContractStep ==
    ASSUME BridgeTypeOK, HandlerInv, TokenInv, ContractInv, [BridgeNext]_allVars
    PROVE  ContractInv'
<1>1. ASSUME NEW c \in Contract PROVE c[1] \in Request
  BY DEF Contract
<1>2. contracts \in [Contract -> {"none", "live", "burnt"}]
  BY DEF BridgeTypeOK
<1>3. ASSUME NEW r \in Request, Burn(r)
      PROVE  /\ contracts' = [contracts EXCEPT ![req[r].contract] = "burnt"]
             /\ \E s \in Request :
                  /\ Minted(s) /\ req[r].contract = req[s].contract
                  /\ req[s].contract \in Contract /\ req[s].contract[1] = s
  BY <1>3, BurnTarget DEF Burn, HandlerInv, HandlerOK, BurnPc
<1>4. ASSUME NEW r \in Request, Deploys(r)
      PROVE  /\ contracts' = [contracts EXCEPT ![<<r, req[r].attempt>>] = "live"]
             /\ ~Deployed(r)
             /\ <<r, req[r].attempt>> \in Contract
  BY <1>4 DEF Deploys, HandlerInv, HandlerOK, BridgeTypeOK, Contract
<1>5. ASSUME NEW c \in Contract, contracts'[c] = "burnt"
      PROVE  Minted(c[1])' /\ c = req'[c[1]].contract
  <2>1. PICK s \in Request : s = c[1]
    BY <1>1
  <2>2. Minted(s) /\ c = req[s].contract
    <3>1. CASE contracts[c] = "burnt"
      BY <2>1, <3>1 DEF ContractInv
    <3>2. CASE contracts[c] # "burnt"
      <4>1. PICK r \in Request : Burn(r)
        BY <1>2, <1>4, <1>5, <3>2, Effects
      <4>2. c = req[r].contract
        BY <1>2, <1>3, <1>5, <3>2, <4>1
      <4> QED
        BY <1>3, <2>1, <4>1, <4>2
    <3> QED
      BY <3>1, <3>2
  <2> QED
    BY <2>1, <2>2, MintedKept
<1>6. ASSUME NEW q \in Request, Deployed(q)'
      PROVE  contracts'[req'[q].contract] \in {"live", "burnt"}
  <2>1. CASE Deployed(q) /\ req'[q].contract = req[q].contract
    <3>1. /\ contracts[req[q].contract] \in {"live", "burnt"}
          /\ req[q].contract \in Contract
      BY <2>1 DEF ContractInv, HandlerInv, HandlerOK
    <3>2. PICK c \in Contract : c = req[q].contract
      BY <3>1
    <3>3. UNCHANGED contracts \/ \E r \in Request : Deploys(r) \/ Burn(r)
      BY Effects
    <3>4. contracts'[c] \in {"live", "burnt"}
      BY <1>2, <1>3, <1>4, <3>1, <3>2, <3>3
    <3> QED
      BY <2>1, <3>2, <3>4
  <2>2. CASE Deploys(q) /\ req'[q].contract = <<q, req[q].attempt>>
    BY <1>2, <1>4, <2>2
  <2> QED
    BY <1>6, <2>1, <2>2, DeployedBefore
<1>7. ASSUME lost' = 0, NEW c \in Contract, contracts'[c] = "live"
      PROVE  Deployed(c[1])' /\ c = req'[c[1]].contract
  <2>1. lost = 0 /\ lost' = lost
    BY <1>7, Effects DEF BridgeTypeOK
  <2>2. PICK s \in Request : s = c[1]
    BY <1>1
  <2>3. CASE contracts[c] = "live"
    <3>1. Deployed(s) /\ c = req[s].contract
      BY <2>1, <2>2, <2>3 DEF ContractInv
    <3>2. Kept(s)
      BY KeptStep
    <3> QED
      BY <2>2, <3>1, <3>2 DEF Kept, Deployed
  <2>4. CASE contracts[c] # "live"
    <3>1. PICK r \in Request : Deploys(r) /\ c = <<r, req[r].attempt>>
      BY <1>2, <1>3, <1>4, <1>7, <2>4, Effects
    <3>2. req' = [req EXCEPT ![r].pc = "persist", ![r].contract = <<r, req[r].attempt>>]
      BY <2>1, <3>1 DEF Deploys, BridgeTypeOK
    <3>3. req[r] \in Locals /\ r \in DOMAIN req /\ req[r].op = "tokenize"
      BY <3>1 DEF BridgeTypeOK, Locals, Deploys, HandlerInv, HandlerOK, TokenizePc
    <3>4. req'[r].op = "tokenize" /\ req'[r].contract = c
      BY <3>1, <3>2, <3>3 DEF Locals
    <3> QED
      BY <2>2, <3>1, <3>4 DEF Deployed, NoContract
  <2> QED
    BY <2>3, <2>4
<1> QED
  BY <1>5, <1>6, <1>7 DEF ContractInv
-----------------------------------------------------------------------------
(* The end of the ledger is the only entry whose burner can still change,   *)
(* and a burnt contract stays burnt.                                        *)
LEMMA BurntStays ==
    ASSUME BridgeTypeOK, HandlerInv, TokenInv, ContractInv, [BridgeNext]_allVars,
           NEW c \in Contract, contracts[c] = "burnt"
    PROVE  contracts'[c] = "burnt"
<1>1. ASSUME NEW r \in Request, Deploys(r) PROVE c # <<r, req[r].attempt>>
  <2>1. CASE c = <<r, req[r].attempt>>
    <3>1. Minted(r)
      BY <2>1 DEF ContractInv
    <3> QED
      BY <1>1, <3>1, MintedKept DEF Deploys
  <2> QED
    BY <2>1
<1>2. UNCHANGED contracts \/ \E r \in Request : Deploys(r) \/ Burn(r)
  BY Effects
<1> QED
  BY <1>1, <1>2 DEF Deploys, Burn, BridgeTypeOK

(* A call that burned goes on to write down the outcome.                    *)
LEMMA BurnerKept ==
    ASSUME BridgeTypeOK, HandlerInv, TokenInv, [BridgeNext]_allVars,
           NEW b \in Request, req[b].op \in {"retire", "delist"},
           req[b].pc \in BurnPc \cup {"done"}
    PROVE  /\ req'[b].op = req[b].op /\ req'[b].issuance = req[b].issuance
           /\ req'[b].kyc = req[b].kyc /\ req'[b].serial = req[b].serial
           /\ req'[b].contract = req[b].contract
           /\ req'[b].pc \in BurnPc \cup {"done"}
           /\ BurnOf(b)' = BurnOf(b)
<1>1. Kept(b) /\ req \in [Request -> Locals] /\ req[b] \in Locals
  BY KeptStep DEF BridgeTypeOK, Locals
<1>2. /\ req'[b].op = req[b].op /\ req'[b].issuance = req[b].issuance
      /\ req'[b].kyc = req[b].kyc /\ req'[b].serial = req[b].serial
      /\ req'[b].contract = req[b].contract
  BY <1>1 DEF Kept
<1>3. req'[b].pc \in BurnPc \cup {"done"}
  <2>1. CASE UNCHANGED req[b]
    BY <2>1
  <2>2. CASE ProcessCrash
    BY <2>2, CrashFacts DEF InFlight
  <2>3. CASE Begins(b)
    BY <2>3, BeginFacts DEF BurnPc
  <2>4. CASE Moves(b)
    <3>1. PICK label \in RequestPc : <<req[b].pc, label>> \in Edges /\ Goto(b, label)
      BY <2>4 DEF Moves
    <3>2. label \in BurnPc \cup {"done"}
      BY <3>1 DEF Edges, BurnPc
    <3> QED
      BY <1>1, <3>1, <3>2, GotoFacts
  <2>5. CASE Learns(b)
    BY <1>1, <2>5 DEF Learns, BurnPc, Locals
  <2>6. CASE Retries(b)
    BY <1>1, <2>6 DEF Retries, Locals
  <2>7. CASE \E r \in Request : HandlerStep(r)
    BY <2>1, <2>3, <2>4, <2>5, <2>6, <2>7, LocalsType, HandlerMoves
  <2> QED
    BY <2>1, <2>2, <2>7 DEF BridgeNext, HandlerStep, WorkerRuns, bridgeVars, allVars
<1> QED
  BY <1>2, <1>3 DEF BurnOf

LEMMA LedgerStep ==
    ASSUME BridgeTypeOK, HandlerInv, TokenInv, ContractInv, LedgerInv,
           [BridgeNext]_allVars
    PROVE  LedgerInv'
<1> DEFINE Entry(p) ==
      /\ req[burntBy[p]].op \in {"retire", "delist"}
      /\ req[burntBy[p]].pc \in BurnPc \cup {"done"}
      /\ ledger[p] = BurnOf(burntBy[p])
      /\ contracts[req[burntBy[p]].contract] = "burnt"
<1>1. Len(ledger) \in Nat /\ burntBy \in Seq(Request) /\ Len(burntBy) = Len(ledger)
  BY DEF BridgeTypeOK, TypeOK
<1>2. ASSUME NEW p \in 1..Len(ledger), ledger'[p] = ledger[p], burntBy'[p] = burntBy[p]
      PROVE  Entry(p)'
  <2>1. PICK b \in Request : b = burntBy[p]
    BY <1>1
  <2>2. /\ req[b].op \in {"retire", "delist"} /\ req[b].pc \in BurnPc \cup {"done"}
        /\ ledger[p] = BurnOf(b) /\ contracts[req[b].contract] = "burnt"
    BY <2>1 DEF LedgerInv
  <2>3. PICK c \in Contract : c = req[b].contract
    BY <2>2, BurnTarget
  <2>4. contracts'[c] = "burnt"
    BY <2>2, <2>3, BurntStays
  <2>5. ledger'[p] = BurnOf(b)'
    BY <1>2, <2>2, BurnerKept
  <2>6. ledger'[p] = BurnOf(burntBy[p])'
    BY <1>2, <2>1, <2>5 DEF BurnOf
  <2> QED
    BY <1>2, <2>1, <2>2, <2>3, <2>4, <2>6, BurnerKept
<1>3. CASE UNCHANGED <<ledger, burntBy>>
  BY <1>2, <1>3 DEF LedgerInv
<1>4. ASSUME NEW r \in Request, Burn(r) PROVE LedgerInv'
  <2>1. req[r].op \in {"retire", "delist"} /\ req[r].pc \in BurnPc
    BY <1>4 DEF Burn, HandlerInv, HandlerOK, BurnPc
  <2>2. PICK c \in Contract : c = req[r].contract
    BY <2>1, BurnTarget
  <2>3. contracts'[c] = "burnt"
    BY <1>4, <2>2 DEF Burn, BridgeTypeOK
  <2>4. ledger'[Len(ledger) + 1] = BurnOf(r) /\ burntBy'[Len(ledger) + 1] = r
    BY <1>4, BurnFacts
  <2>5. /\ req'[r].op = req[r].op /\ req'[r].contract = req[r].contract
        /\ req'[r].pc \in BurnPc \cup {"done"}
        /\ BurnOf(r)' = BurnOf(r)
    BY <2>1, BurnerKept
  <2>6. ledger'[Len(ledger) + 1] = BurnOf(r)'
    BY <2>4, <2>5
  <2>7. ASSUME NEW p, p = Len(ledger) + 1 PROVE Entry(p)'
    BY <2>1, <2>2, <2>3, <2>4, <2>5, <2>6, <2>7 DEF BurnOf
  <2>8. ASSUME NEW p \in 1..(Len(ledger) + 1) PROVE Entry(p)'
    BY <1>1, <1>2, <1>4, <2>7, BurnFacts
  <2>9. Len(ledger') = Len(ledger) + 1
    BY <1>4, BurnFacts
  <2> QED
    BY <2>8, <2>9 DEF LedgerInv
<1> QED
  BY <1>3, <1>4, Effects
-----------------------------------------------------------------------------
(* The burn in the worker's hand is of a stored tokenization's contract.    *)
LEMMA EventBurn ==
    ASSUME Inv, BridgeTypeOK, HandlerInv, LedgerInv, pc \in InEvent
    PROVE  \E s \in Request :
              /\ ledger[event].serial = s /\ ledger[event].lock = s
              /\ Minted(s) /\ contracts[req[s].contract] = "burnt"
              /\ req[s].contract \in Contract /\ req[s].contract[1] = s
<1>1. event \in 1..Len(ledger)
  BY EventFacts, WorkerAssumption DEF Inv, TypeOK, Position
<1>2. PICK b \in Request : b = burntBy[event]
  BY <1>1 DEF BridgeTypeOK
<1>3. /\ req[b].op \in {"retire", "delist"} /\ ledger[event] = BurnOf(b)
      /\ contracts[req[b].contract] = "burnt"
  BY <1>1, <1>2 DEF LedgerInv
<1>4. ledger[event].serial = req[b].serial /\ ledger[event].lock = req[b].serial
  BY <1>3 DEF BurnOf
<1> QED
  BY <1>3, <1>4, BurnTarget

(* A handler is past its lock, or past its confirmation, only by the        *)
(* registry's ok:true.                                                      *)
LEMMA RegistryGates ==
    ASSUME BridgeTypeOK, HandlerInv, TokenInv, [BridgeNext]_allVars, NEW q \in Request
    PROVE  /\ req'[q].pc = "confirm" => req[q].pc = "confirm" \/ LockAccepted(q)
           /\ req'[q].pc \in {"deploy", "unlock", "persist"} =>
                 req[q].pc \in {"deploy", "unlock", "persist"} \/ ConfirmAccepted(q)
<1>1. req \in [Request -> Locals] /\ req[q] \in Locals
  BY DEF BridgeTypeOK, Locals
<1>2. CASE UNCHANGED req[q]
  BY <1>2
<1>3. CASE ProcessCrash
  BY <1>3, CrashFacts DEF InFlight
<1>4. CASE Begins(q)
  BY <1>1, <1>4, BeginFacts DEF Loaded
<1>5. CASE Learns(q)
  BY <1>1, <1>5 DEF Learns, Locals
<1>6. CASE Retries(q)
  BY <1>1, <1>6 DEF Retries, Locals
<1>7. CASE HandlerStep(q) /\ Moves(q)
  <2>1. PICK label \in RequestPc : <<req[q].pc, label>> \in Edges /\ Goto(q, label)
    BY <1>7 DEF Moves
  <2>2. req'[q].pc = label
    BY <1>1, <2>1, GotoFacts
  <2>3. CASE label \notin {"confirm", "deploy"}
    BY <2>1, <2>2, <2>3 DEF Edges
  <2>4. CASE label = "confirm"
    <3>1. req[q].pc = "lock"
      BY <2>1, <2>4 DEF Edges
    <3>2. LockAccepted(q) \/ RegistryRefuses(q)
      BY <1>7, <3>1 DEF HandlerStep, TokenizeStep, BurnStep, RequestThrows,
         BeginTokenize, ConfirmAccepted, DeploySucceeds, DeployFails,
         DeployReplyLost, ReleaseLock, MarkIssuanceFailed, PersistMint,
         NotifyAccepted, BeginRetire, CreateRetirement, BeginDelist, BurnSucceeds,
         BurnFails, BurnReplyLost, Burn, SaveRetirement, SaveDelist
    <3>3. ~RegistryRefuses(q)
      BY <1>1, <2>2, <2>4, <3>1 DEF RegistryRefuses, AfterRefusal, Goto, Locals
    <3> QED
      BY <2>2, <2>4, <3>2, <3>3
  <2>5. CASE label = "deploy"
    <3>1. req[q].pc = "confirm"
      BY <2>1, <2>5 DEF Edges
    <3>2. ConfirmAccepted(q) \/ RegistryRefuses(q)
      BY <1>7, <3>1 DEF HandlerStep, TokenizeStep, BurnStep, RequestThrows,
         BeginTokenize, LockAccepted, DeploySucceeds, DeployFails,
         DeployReplyLost, ReleaseLock, MarkIssuanceFailed, PersistMint,
         NotifyAccepted, BeginRetire, CreateRetirement, BeginDelist, BurnSucceeds,
         BurnFails, BurnReplyLost, Burn, SaveRetirement, SaveDelist
    <3>3. ~RegistryRefuses(q)
      BY <1>1, <2>2, <2>5, <3>1 DEF RegistryRefuses, AfterRefusal, Goto, Locals
    <3> QED
      BY <2>2, <2>5, <3>2, <3>3
  <2> QED
    BY <2>3, <2>4, <2>5
<1>8. CASE \E r \in Request : HandlerStep(r)
  BY <1>2, <1>4, <1>5, <1>6, <1>7, <1>8, LocalsType, HandlerMoves
<1> QED
  BY <1>2, <1>3, <1>8 DEF BridgeNext, HandlerStep, WorkerRuns, bridgeVars, allVars

LEMMA LockStep ==
    ASSUME Inv, BridgeTypeOK, HandlerInv, TokenInv, ContractInv, LedgerInv, LockInv,
           [BridgeNext]_allVars
    PROVE  LockInv'
<1> SUFFICES ASSUME NEW q \in Request PROVE LockOK(q)'
  BY DEF LockInv
<1> USE DEF bcrVars
<1>1. LockOK(q) /\ HandlerOK(q)
  BY DEF LockInv, HandlerInv
<1>2. /\ vccStatus \in [Request -> VccStatus] /\ lockState \in [Request -> LockState]
      /\ lockSerial \in [Request -> Request \cup {NoSerial}]
  BY BridgeAssumption DEF BridgeTypeOK, TypeOK, BcrTypeOK
<1>3. req \in [Request -> Locals] /\ req[q] \in Locals
  BY DEF BridgeTypeOK, Locals
(* a known contract was live before if it is live now, or has just been deployed *)
<1>4. ASSUME Deployed(q)'
      PROVE  \/ Deployed(q) /\ (contracts'[req'[q].contract] = "live" =>
                                  contracts[req[q].contract] = "live")
             \/ req[q].pc = "deploy" /\ UNCHANGED bcrVars
  <2>1. CASE Deployed(q) /\ req'[q].contract = req[q].contract
    <3>1. PICK c \in Contract : c = req[q].contract
      BY <1>1, <2>1 DEF HandlerOK
    <3>2. contracts[c] \in {"live", "burnt"}
      BY <2>1, <3>1 DEF ContractInv
    <3> QED
      BY <2>1, <3>1, <3>2, BurntStays
  <2> QED
    BY <1>4, <2>1, DeployedBefore DEF Deploys
<1>5. CASE UNCHANGED bcrVars
  <2>1. req'[q].pc = "confirm" => InLockMap(q) /\ vccStatus[q] = "locked"
    BY <1>1, <1>2, <1>5, RegistryGates DEF LockOK, LockAccepted, LockVCC
  <2>2. req'[q].pc \in {"deploy", "unlock", "persist"} =>
          lockState[q] = "confirmed" /\ vccStatus[q] = "locked"
    BY <1>1, <1>2, <1>5, RegistryGates DEF LockOK, ConfirmAccepted, ConfirmLock
  <2> QED
    BY <1>1, <1>4, <1>5, <2>1, <2>2 DEF LockOK, InLockMap
<1>6. ASSUME NEW r \in Request, LockAccepted(r) PROVE LockOK(q)'
  <2>1. req[r].pc = "lock" /\ LockVCC(r, r) /\ Goto(r, "confirm")
    BY <1>6 DEF LockAccepted
  <2>2. CASE q = r
    <3>1. req'[q].pc = "confirm" /\ req'[q].op = req[q].op /\ req'[q].contract = req[q].contract
      BY <1>3, <2>1, <2>2, GotoFacts
    <3>2. ~Deployed(q)'
      BY <1>1, <2>1, <2>2, <3>1 DEF HandlerOK, Deployed
    <3> QED
      BY <1>2, <2>1, <2>2, <3>1, <3>2 DEF LockOK, LockVCC, InLockMap
  <2>3. CASE q # r
    <3>1. req'[q] = req[q]
      BY <1>3, <2>1, <2>3, GotoFacts
    <3> QED
      BY <1>1, <1>2, <1>4, <2>1, <2>3, <3>1 DEF LockOK, LockVCC, InLockMap, Deployed
  <2> QED
    BY <2>2, <2>3
<1>7. ASSUME NEW r \in Request, ConfirmAccepted(r) PROVE LockOK(q)'
  <2>1. req[r].pc = "confirm" /\ ConfirmLock(r) /\ Goto(r, "deploy")
    BY <1>7 DEF ConfirmAccepted
  <2>2. CASE q = r
    <3>1. req'[q].pc = "deploy" /\ req'[q].op = req[q].op /\ req'[q].contract = req[q].contract
      BY <1>3, <2>1, <2>2, GotoFacts
    <3>2. ~Deployed(q)'
      BY <1>1, <2>1, <2>2, <3>1 DEF HandlerOK, Deployed
    <3> QED
      BY <1>1, <1>2, <2>1, <2>2, <3>1, <3>2 DEF LockOK, ConfirmLock, InLockMap
  <2>3. CASE q # r
    <3>1. req'[q] = req[q]
      BY <1>3, <2>1, <2>3, GotoFacts
    <3> QED
      BY <1>1, <1>2, <1>4, <2>1, <2>3, <3>1 DEF LockOK, ConfirmLock, InLockMap, Deployed
  <2> QED
    BY <2>2, <2>3
(* an unlock frees the VCC of the lock's own serial *)
<1>8. ASSUME NEW r \in Request, UnlockVCC(r)
      PROVE  /\ vccStatus' = [vccStatus EXCEPT ![r] = "free"]
             /\ lockState' = [lockState EXCEPT ![r] = "deleted"]
             /\ UNCHANGED lockSerial /\ lockSerial[r] = r
  BY <1>8 DEF UnlockVCC, CanUnlock, InLockMap, LockInv, LockOK
<1>9. ASSUME NEW r \in Request, ReleaseLock(r) PROVE LockOK(q)'
  <2>1. req[r].pc = "unlock" /\ UnlockVCC(r) /\ Goto(r, "markFailed")
    BY <1>9 DEF ReleaseLock
  <2>2. CASE q = r
    <3>1. req'[q].pc = "markFailed" /\ req'[q].op = req[q].op /\ req'[q].contract = req[q].contract
      BY <1>3, <2>1, <2>2, GotoFacts
    <3>2. ~Deployed(q)'
      BY <1>1, <2>1, <2>2, <3>1 DEF HandlerOK, Deployed
    <3> QED
      BY <1>1, <1>2, <1>8, <2>1, <2>2, <3>1, <3>2 DEF LockOK
  <2>3. CASE q # r
    <3>1. req'[q] = req[q]
      BY <1>3, <2>1, <2>3, GotoFacts
    <3>2. vccStatus'[q] = vccStatus[q] /\ lockState'[q] = lockState[q] /\ UNCHANGED lockSerial
      BY <1>2, <1>8, <2>1, <2>3
    <3> QED
      BY <1>1, <1>4, <3>1, <3>2, <2>1 DEF LockOK, InLockMap, Deployed
  <2> QED
    BY <2>2, <2>3
<1>10. ASSUME NEW r \in Request, NotifyAccepted(r) PROVE LockOK(q)'
  <2>1. req[r].pc = "notify" /\ NotifyMint(r, r) /\ Goto(r, "done")
    BY <1>10 DEF NotifyAccepted
  <2>2. CASE q = r
    <3>1. req'[q].pc = "done"
      BY <1>3, <2>1, <2>2, GotoFacts
    <3> QED
      BY <1>1, <1>2, <1>4, <2>1, <2>2, <3>1 DEF LockOK, NotifyMint
  <2>3. CASE q # r
    <3>1. req'[q] = req[q]
      BY <1>3, <2>1, <2>3, GotoFacts
    <3> QED
      BY <1>1, <1>2, <1>4, <2>1, <2>3, <3>1 DEF LockOK, NotifyMint, InLockMap, Deployed
  <2> QED
    BY <2>2, <2>3
<1>11. ASSUME WorkerForwards, UNCHANGED bridgeVars PROVE LockOK(q)'
  <2>1. PICK s \in Request :
          /\ ledger[event].serial = s /\ ledger[event].lock = s
          /\ Minted(s) /\ contracts[req[s].contract] = "burnt"
    BY <1>11, EventBurn DEF WorkerForwards, ForwardRetirement, ForwardDelist, InEvent
  <2>2. req' = req /\ contracts' = contracts
    BY <1>11 DEF bridgeVars
  <2>3. RetireVCC(s) \/ UnlockVCC(s)
    BY <1>11, <2>1 DEF WorkerForwards, ForwardRetirement, ForwardDelist
  <2>4. /\ lockSerial' = lockSerial
        /\ q # s => vccStatus'[q] = vccStatus[q] /\ lockState'[q] = lockState[q]
        /\ vccStatus'[s] # "absent"
        /\ lockState'[s] # lockState[s] => lockSerial[s] = s
    BY <1>2, <1>8, <2>3 DEF RetireVCC
  <2>5. CASE q = s
    BY <1>1, <2>1, <2>2, <2>4, <2>5 DEF LockOK, Minted, Deployed
  <2>6. CASE q # s
    BY <1>1, <2>2, <2>4, <2>6 DEF LockOK, InLockMap, Deployed
  <2> QED
    BY <2>5, <2>6
<1> QED
  BY <1>5, <1>6, <1>7, <1>9, <1>10, <1>11, Effects
-----------------------------------------------------------------------------
LEMMA HandlerLeavesWorker ==
    ASSUME NEW r \in Request, HandlerStep(r)
    PROVE  WorkerUnchanged
<1>1. CASE \/ Begins(r) \/ LockAccepted(r) \/ ConfirmAccepted(r) \/ RegistryRefuses(r)
           \/ ReleaseLock(r) \/ NotifyAccepted(r)
  BY <1>1 DEF Begins, BeginTokenize, BeginRetire, BeginDelist, LockAccepted,
     ConfirmAccepted, RegistryRefuses, ReleaseLock, NotifyAccepted, RegistryOnly
<1>2. CASE \/ DeploySucceeds(r) \/ DeployFails(r) \/ DeployReplyLost(r)
           \/ BurnSucceeds(r) \/ BurnFails(r) \/ BurnReplyLost(r)
  BY <1>2 DEF DeploySucceeds, DeployFails, DeployReplyLost, BurnSucceeds, BurnFails,
     BurnReplyLost, ChainOnly
<1>3. CASE \/ MarkIssuanceFailed(r) \/ PersistMint(r) \/ CreateRetirement(r)
           \/ SaveRetirement(r) \/ SaveDelist(r)
  BY <1>3 DEF MarkIssuanceFailed, PersistMint, CreateRetirement, SaveRetirement,
     SaveDelist, RowsOnly
<1>4. CASE RequestThrows(r)
  BY <1>4 DEF RequestThrows
<1> QED
  BY <1>1, <1>2, <1>3, <1>4 DEF HandlerStep, TokenizeStep, BurnStep, Begins

(* The freed VCC of a delist can be locked again only by the call that drew *)
(* its serial, and that call is past its lock.                              *)
LEMMA DelistStep ==
    ASSUME Inv, BridgeTypeOK, HandlerInv, TokenInv, LedgerInv, LockInv, DelistInv,
           [BridgeNext]_allVars
    PROVE  DelistInv'
<1> USE DEF DelistInv
<1> DEFINE InHand == {"flipDelist", "mirror", "processed"}
<1>1. TypeOK /\ TickInv
  BY DEF Inv
<1>2. vccStatus \in [Request -> VccStatus]
  BY BridgeAssumption DEF TypeOK, BcrTypeOK, BridgeTypeOK
<1>3. CASE pc' \notin InHand
  BY <1>3
(* the worker goes on with its burn, or nothing happens *)
<1>4. ASSUME UNCHANGED <<ledger, event>> /\ vccStatus' = vccStatus, pc \in InHand,
             pc' = "flipDelist" => pc = "flipDelist"
      PROVE  DelistInv'
  BY <1>4 DEF IsRetirement
<1>5. CASE WorkerRuns
  <2>1. CASE ForwardRetirement
    BY <2>1 DEF ForwardRetirement, tickVars, chainVars
  <2>2. CASE ForwardDelist
    <3>1. PICK s \in Request : ledger[event].serial = s /\ ledger[event].lock = s
      BY <2>2, EventBurn DEF ForwardDelist, InEvent
    <3>2. vccStatus'[s] = "free"
      BY <1>2, <2>2, <3>1 DEF ForwardDelist, UnlockVCC, CanUnlock, InLockMap, LockInv, LockOK
    <3>3. UNCHANGED <<ledger, event>> /\ ~IsRetirement(ledger[event])
      BY <2>2 DEF ForwardDelist, tickVars, chainVars
    <3> QED
      BY <3>1, <3>2, <3>3 DEF IsRetirement
  <2>3. CASE FlipDelist \/ FlipDelistThrows \/ ApplyIssuanceStateTransition
    BY <1>4, <2>3 DEF FlipDelist, FlipDelistThrows, ApplyIssuanceStateTransition,
       chainVars, tickVars, bcrVars
  <2>4. CASE \/ StartWorker \/ TimerFires \/ TickThrows \/ Poll \/ ForwardFails
             \/ \E p \in Position : SkipSettled(p) \/ ReserveEvent(p)
             \/ MarkProcessed \/ MarkFailedPermanent \/ MarkForRetry \/ PersistCursor
    <3>1. pc' \notin InHand \/ StartWorker
      BY <2>4 DEF TimerFires, TickThrows, EndTick, Poll, ForwardFails, SkipSettled,
         ReserveEvent, MarkProcessed, MarkFailedPermanent, MarkForRetry, PersistCursor
    <3>2. StartWorker /\ pc' \in InHand => DelistInv'
      BY <1>4 DEF StartWorker, chainVars, tickVars, bcrVars
    <3> QED
      BY <1>3, <3>1, <3>2
  <2> QED
    BY <1>5, <2>1, <2>2, <2>3, <2>4 DEF WorkerRuns, TickStep
<1>6. CASE ProcessCrash
  BY <1>6 DEF ProcessCrash, Crash
<1>7. CASE UNCHANGED allVars
  BY <1>3, <1>4, <1>7 DEF allVars, vars
<1>8. ASSUME NEW r \in Request, HandlerStep(r), pc' \in InHand
      PROVE  DelistInv'
  <2>1. pc' = pc /\ event' = event
    BY <1>8, HandlerLeavesWorker DEF WorkerUnchanged, tickVars
  <2>2. ledger'[event] = ledger[event]
    BY <1>1, <1>8, <2>1, EventFacts, IsWorkerStep, LedgerGrows DEF InEvent, Position, TypeOK
  <2>3. PICK s \in Request : ledger[event].serial = s /\ Minted(s)
    BY <1>8, <2>1, EventBurn DEF InEvent
  <2>4. vccStatus[s] = "free" => vccStatus'[s] = "free"
    <3>1. req[s].pc # "lock"
      BY <2>3 DEF Minted
    <3>2. ASSUME NEW q \in Request,
                 LockAccepted(q) \/ ConfirmAccepted(q) \/ ReleaseLock(q) \/ NotifyAccepted(q)
          PROVE  vccStatus[s] = "free" => vccStatus'[s] = "free"
      BY <1>2, <3>1, <3>2 DEF LockAccepted, LockVCC, ConfirmAccepted, ConfirmLock,
         ReleaseLock, UnlockVCC, NotifyAccepted, NotifyMint
    <3>3. UNCHANGED bcrVars \/ ~UNCHANGED pc
            \/ \E q \in Request : LockAccepted(q) \/ ConfirmAccepted(q)
                                  \/ ReleaseLock(q) \/ NotifyAccepted(q)
      BY Effects DEF WorkerForwards, ForwardRetirement, ForwardDelist
    <3> QED
      BY <2>1, <3>2, <3>3 DEF bcrVars
  <2> QED
    BY <2>1, <2>2, <2>3, <2>4 DEF IsRetirement
<1> QED
  BY <1>3, <1>5, <1>6, <1>7, <1>8 DEF BridgeNext, HandlerStep

LEMMA UnlockedStep ==
    ASSUME Inv, BridgeTypeOK, HandlerInv, TokenInv, ContractInv, LedgerInv, DelistInv,
           UnlockedIsBurnt, [BridgeNext]_allVars
    PROVE  UnlockedIsBurnt'
<1> DEFINE Burnt(p) ==
      /\ ~IsRetirement(ledger[p]) /\ lockState[ledger[p].lock] = "deleted"
      /\ \E c \in Contract : c[1] = ledger[p].serial /\ contracts[c] = "burnt"
<1>1. TypeOK /\ TickInv /\ AcceptedInv /\ [Next]_vars
  BY IsWorkerStep DEF Inv
<1>2. ASSUME NEW p \in bcrAccepted
      PROVE  /\ p \in 1..Len(ledger) /\ ledger'[p] = ledger[p]
             /\ ~IsRetirement(ledger[p]) => ledger[p].lock \in Lock
  BY <1>1, LedgerGrows, WorkerAssumption
     DEF AcceptedInv, IsBurn, BurnEntry, IsBurnEntry, EntryType
<1>3. bcrAccepted \subseteq bcrAccepted'
  <2>1. CASE WorkerRuns \/ ProcessCrash
    BY <2>1 DEF WorkerRuns, ProcessCrash, Crash, StartWorker, TimerFires, TickStep,
       FlipDelistThrows, TickThrows, Poll, SkipSettled, ReserveEvent,
       ForwardRetirement, ForwardDelist, ForwardFails, FlipDelist,
       ApplyIssuanceStateTransition, MarkProcessed, MarkFailedPermanent,
       MarkForRetry, PersistCursor
  <2>2. ASSUME NEW r \in Request, HandlerStep(r) PROVE bcrAccepted' = bcrAccepted
    BY <2>2, HandlerLeavesWorker DEF WorkerUnchanged
  <2> QED
    BY <2>1, <2>2 DEF BridgeNext, HandlerStep, allVars, vars
<1>4. ASSUME NEW l \in Lock, lockState[l] = "deleted" PROVE lockState'[l] = "deleted"
  BY <1>1, <1>4, RegistrySteps, RegistryIsFinal DEF TypeOK, bcrVars
(* what makes a row BCR_UNLOCKED stays true *)
<1>5. ASSUME NEW p \in bcrAccepted, Burnt(p) PROVE p \in bcrAccepted' /\ Burnt(p)'
  <2>1. PICK c \in Contract : c[1] = ledger[p].serial /\ contracts[c] = "burnt"
    BY <1>5
  <2>2. contracts'[c] = "burnt" /\ c[1] = ledger'[p].serial
    BY <1>2, <2>1, BurntStays
  <2>3. ~IsRetirement(ledger'[p]) /\ lockState'[ledger'[p].lock] = "deleted"
    BY <1>2, <1>4, <1>5
  <2> QED
    BY <1>3, <2>2, <2>3 DEF IsRetirement
(* a new one is the burn in the worker's hand *)
<1>6. ASSUME FlipDelist
      PROVE  event \in bcrAccepted /\ Burnt(event)
  <2>1. PICK s \in Request :
          /\ ledger[event].serial = s /\ contracts[req[s].contract] = "burnt"
          /\ req[s].contract \in Contract /\ req[s].contract[1] = s
    BY <1>6, EventBurn DEF FlipDelist, InEvent
  <2>2. event \in bcrAccepted /\ Shown(event) /\ ~IsRetirement(ledger[event])
    BY <1>1, <1>6 DEF FlipDelist, AcceptedInv, DelistInv
  <2> QED
    BY <2>1, <2>2 DEF Shown
<1>7. ASSUME NEW i \in Issuance, delistStatus'[i] = "BCR_UNLOCKED"
      PROVE  \E p \in bcrAccepted : ledger[p].issuance = i /\ Burnt(p)
  <2>1. CASE delistStatus[i] = "BCR_UNLOCKED"
    BY <2>1 DEF UnlockedIsBurnt
  <2>2. CASE delistStatus[i] # "BCR_UNLOCKED"
    <3>1. ASSUME NEW r \in Request PROVE ~SaveDelist(r)
      BY <1>1, <1>7, <2>2 DEF SaveDelist, TypeOK
    <3>2. FlipDelist
      BY <1>7, <2>2, <3>1, Effects
    <3>3. i = ledger[event].issuance
      BY <1>1, <1>7, <2>2, <3>2 DEF FlipDelist, TypeOK
    <3> QED
      BY <1>6, <3>2, <3>3
  <2> QED
    BY <2>1, <2>2
<1>8. ASSUME NEW i \in Issuance, delistStatus'[i] = "BCR_UNLOCKED"
      PROVE  \E p \in bcrAccepted' : ledger'[p].issuance = i /\ Burnt(p)'
  <2>1. PICK p \in bcrAccepted : ledger[p].issuance = i /\ Burnt(p)
    BY <1>7, <1>8
  <2>2. p \in bcrAccepted' /\ Burnt(p)' /\ ledger'[p].issuance = i
    BY <1>2, <1>5, <2>1
  <2> QED
    BY <2>2
<1> QED
  BY <1>8 DEF UnlockedIsBurnt
-----------------------------------------------------------------------------
LEMMA BridgeInvInit == BridgeInit => BridgeInv
<1> SUFFICES ASSUME BridgeInit PROVE BridgeInv
  OBVIOUS
<1>1. Inv
  BY InvInit DEF BridgeInit
<1>2. ledger = <<>> /\ burntBy = <<>> /\ Len(ledger) = 0
  BY DEF BridgeInit, Init
<1>3. \A r \in Request : /\ req[r].pc = "new" /\ req[r].op = "none"
                         /\ ~Deployed(r)
  BY DEF BridgeInit, NewRequest, Deployed
<1>4. NewRequest \in Locals
  <2>1. 1 \in 1..MaxAttempts /\ 0 \in 0..MaxLedger
    BY BridgeAssumption, WorkerAssumption
  <2> QED
    BY <2>1 DEF NewRequest, Locals, RequestPc
<1>5. BridgeTypeOK
  <2>1. TypeOK /\ req \in [Request -> Locals]
    BY <1>1, <1>4 DEF Inv, BridgeInit
  <2>2. 0 \in 0..MaxLedger /\ 0 \in 0..MaxLost /\ 0 \in 0..MaxThrows
    BY BridgeAssumption, WorkerAssumption
  <2>3. token \in [Issuance -> [status : {"none", "MINTED", "FAILED"},
                                contract : Contract \cup {NoContract},
                                serial : Request \cup {NoSerial}]]
    BY DEF BridgeInit
  <2>4. retirement \in [Issuance \X Kyc ->
            [status : {"none", "INITIATED", "CHAIN_BURNED", "FAILED"},
             tx : 0..MaxLedger]]
    BY <2>2 DEF BridgeInit
  <2>5. delistTx \in [Issuance -> 0..MaxLedger]
        /\ contracts \in [Contract -> {"none", "live", "burnt"}]
        /\ lost \in 0..MaxLost /\ throws \in 0..MaxThrows
    BY <2>2 DEF BridgeInit
  <2>6. burntBy \in Seq(Request) /\ Len(burntBy) = Len(ledger)
    BY <1>2
  <2> QED
    BY <2>1, <2>3, <2>4, <2>5, <2>6 DEF BridgeTypeOK, Locals
<1>6. HandlerInv
  BY <1>3 DEF HandlerInv, HandlerOK, TokenizePc, BurnPc
<1>7. TokenInv
  BY DEF BridgeInit, TokenInv
<1>8. LedgerInv
  BY <1>2 DEF LedgerInv
<1>9. ContractInv
  BY <1>3 DEF BridgeInit, ContractInv
<1>10. LockInv
  BY <1>3, BridgeAssumption DEF BridgeInit, Init, BcrInit, LockInv, LockOK
<1>11. DelistInv /\ UnlockedIsBurnt
  BY DEF BridgeInit, Init, DelistInv, UnlockedIsBurnt
<1> QED
  BY <1>1, <1>5, <1>6, <1>7, <1>8, <1>9, <1>10, <1>11 DEF BridgeInv

LEMMA BridgeInvStep == BridgeInv /\ [BridgeNext]_allVars => BridgeInv'
<1> SUFFICES ASSUME BridgeInv, [BridgeNext]_allVars PROVE BridgeInv'
  OBVIOUS
<1>1. Inv /\ BridgeTypeOK /\ HandlerInv /\ TokenInv /\ LedgerInv /\ ContractInv
      /\ LockInv /\ DelistInv /\ UnlockedIsBurnt
  BY DEF BridgeInv
<1>2. Inv'
  BY <1>1, IsWorkerStep, InvStep
<1> QED
  BY <1>1, <1>2, BridgeTypeStep, HandlerInvStep, TokenStep, LedgerStep, ContractStep,
     LockStep, DelistStep, UnlockedStep DEF BridgeInv

(* The inductive invariant behind the theorems about the bridge.            *)
THEOREM BridgeInvariance == BridgeSpec => []BridgeInv
<1>1. BridgeInit => BridgeInv
  BY BridgeInvInit
<1>2. BridgeInv /\ [BridgeNext]_allVars => BridgeInv'
  BY BridgeInvStep
<1> QED
  BY <1>1, <1>2, PTL DEF BridgeSpec

(* Rows, tokens, contracts and handler locals keep their types, for any     *)
(* number of requests, lost replies and exceptions.                         *)
THEOREM BridgeTypeCorrect == BridgeSpec => []BridgeTypeOK
BY BridgeInvariance, PTL DEF BridgeInv

(* The handlers of tokenization.service.ts, retirement.service.ts and       *)
(* delist-initiator.service.ts are the environment the events worker is     *)
(* proved correct in: every theorem about the worker holds next to them.    *)
THEOREM BridgeImplementsWorker == BridgeSpec => ImplementsWorker
<1>1. BridgeInit => Init
  BY DEF BridgeInit
<1>2. BridgeInv /\ [BridgeNext]_allVars => [Next]_vars
  BY IsWorkerStep DEF BridgeInv
<1> QED
  BY <1>1, <1>2, BridgeInvariance, PTL DEF BridgeSpec, SafetySpec, ImplementsWorker

(* A MINTED row of tokenizeIssuance names the contract and the serial of    *)
(* one tokenization, and the registry holds its lock while its token lives. *)
THEOREM MintedAlwaysBacked == BridgeSpec => []MintedIsBacked
<1>1. BridgeInv => MintedIsBacked
  <2> SUFFICES ASSUME BridgeInv, NEW i \in Issuance, token[i].status = "MINTED"
               PROVE  /\ token[i].serial # NoSerial
                      /\ token[i].contract[1] = token[i].serial
                      /\ contracts[token[i].contract] \in {"live", "burnt"}
                      /\ contracts[token[i].contract] = "live" =>
                            lockState[token[i].serial] = "confirmed"
                      /\ vccStatus[token[i].serial] \in
                            {"free", "locked", "tokenized", "retired"}
    BY DEF MintedIsBacked
  <2>1. PICK s \in Request : /\ token[i].serial = s /\ Minted(s)
                             /\ token[i].contract = req[s].contract
    BY DEF BridgeInv, TokenInv
  <2>2. HandlerOK(s) /\ LockOK(s) /\ Deployed(s)
    BY <2>1 DEF BridgeInv, HandlerInv, LockInv, Minted
  <2>3. s # NoSerial /\ vccStatus[s] \in VccStatus
    BY BridgeAssumption, BcrAssumption DEF BridgeInv, BridgeTypeOK, TypeOK, BcrTypeOK
  <2>4. contracts[req[s].contract] \in {"live", "burnt"}
    BY <2>2 DEF BridgeInv, ContractInv
  <2> QED
    BY <2>1, <2>2, <2>3, <2>4 DEF HandlerOK, LockOK, VccStatus
<1> QED
  BY <1>1, BridgeInvariance, PTL

(* No token is live while the registry shows its VCC as free (no double     *)
(* counting), as long as no reply of the chain was lost.                    *)
THEOREM LiveTokensAlwaysLocked == BridgeSpec => []LiveTokenIsLocked
<1>1. BridgeInv => LiveTokenIsLocked
  <2> SUFFICES ASSUME BridgeInv, lost = 0, NEW c \in Contract, contracts[c] = "live"
               PROVE  vccStatus[c[1]] \in {"locked", "tokenized", "retired"}
    BY DEF LiveTokenIsLocked
  <2>1. PICK s \in Request : s = c[1]
    BY DEF Contract
  <2>2. Deployed(s) /\ c = req[s].contract
    BY <2>1 DEF BridgeInv, ContractInv
  <2> QED
    BY <2>1, <2>2 DEF BridgeInv, LockInv, LockOK
<1> QED
  BY <1>1, BridgeInvariance, PTL

(* delistRequest is BCR_UNLOCKED only after the registry released the lock  *)
(* of a burnt token of the issuance.                                        *)
THEOREM UnlockedAlwaysBurnt == BridgeSpec => []UnlockedIsBurnt
BY BridgeInvariance, PTL DEF BridgeInv

(* applyIssuanceStateTransition takes a RETIRED issuance back to ISSUED     *)
(* only with a VCC that is free at the registry at that moment.             *)
THEOREM RetiredNeverComesBack == BridgeSpec => RetiredStaysRetired
<1> DEFINE Back == \A i \in Issuance :
          issuanceStatus[i] = "RETIRED" /\ issuanceStatus'[i] = "ISSUED" =>
              vccStatus[ledger[event].serial] = "free"
<1>1. BridgeInv /\ [BridgeNext]_allVars => [Back]_allVars
  <2> SUFFICES ASSUME BridgeInv, BridgeNext, NEW i \in Issuance,
                      issuanceStatus[i] = "RETIRED", issuanceStatus'[i] = "ISSUED"
               PROVE  vccStatus[ledger[event].serial] = "free"
    BY DEF BridgeInv
  <2>1. ApplyIssuanceStateTransition
    <3>1. ~UNCHANGED issuanceStatus
      OBVIOUS
    <3>2. ASSUME NEW r \in Request PROVE ~HandlerStep(r)
      BY <3>1, HandlerLeavesWorker DEF WorkerUnchanged
    <3>3. ~ProcessCrash
      BY <3>1 DEF ProcessCrash, Crash, mirrorVars
    <3>4. WorkerRuns
      BY <3>2, <3>3 DEF BridgeNext, HandlerStep
    <3> QED
      BY <3>1, <3>4 DEF WorkerRuns, StartWorker, TimerFires, TickStep,
         FlipDelistThrows, TickThrows, Poll, SkipSettled, ReserveEvent,
         ForwardRetirement, ForwardDelist, ForwardFails, FlipDelist, MarkProcessed,
         MarkFailedPermanent, MarkForRetry, PersistCursor, mirrorVars
  <2>2. pc = "mirror" /\ ~IsRetirement(ledger[event])
    BY <2>1 DEF ApplyIssuanceStateTransition, BridgeInv, Inv, TypeOK
  <2> QED
    BY <2>2 DEF BridgeInv, DelistInv
<1> QED
  BY <1>1, BridgeInvariance, PTL DEF BridgeSpec, RetiredStaysRetired
-----------------------------------------------------------------------------
(* At most one burn per retirement.                                         *)

(* A call is between its create and its last write because it was, or       *)
(* because it created the row just now.                                     *)
LEMMA RetiringBefore ==
    ASSUME BridgeTypeOK, HandlerInv, TokenInv, [BridgeNext]_allVars,
           NEW r \in Request, Retiring(r)'
    PROVE  /\ req[r].op = "retire" /\ RowOf(r)' = RowOf(r)
           /\ req[r].issuance \in Issuance /\ req[r].kyc \in Kyc
           /\ \/ Retiring(r)
              \/ CreateRetirement(r) /\ retirement[RowOf(r)].status = "none"
           /\ req'[r].pc = "save" =>
                 \/ req[r].pc = "save" /\ req'[r].tx = req[r].tx
                 \/ BurnSucceeds(r)
<1>1. /\ req \in [Request -> Locals] /\ req[r] \in Locals
      /\ HandlerOK(r) /\ Kept(r)
  BY KeptStep DEF BridgeTypeOK, Locals, HandlerInv
<1> USE DEF Retiring, BurnPc
<1>2. ~Begins(r)
  <2> SUFFICES ASSUME Begins(r) PROVE FALSE
    OBVIOUS
  <2>1. PICK x \in Locals, i \in Issuance :
          /\ req' = [req EXCEPT ![r] = x]
          /\ \/ \E op, k, c, s : op # "retire" /\ \E label : Loaded(x, label, op, i, k, c, s)
             \/ \E op, k, c, s : Loaded(x, "create", op, i, k, c, s)
    BY BeginFacts
  <2>2. req'[r] = x
    BY <1>1, <2>1
  <2> QED
    BY <2>1, <2>2 DEF Loaded
<1>3. CASE UNCHANGED req[r]
  BY <1>1, <1>3 DEF RowOf, HandlerOK
<1>4. ~ProcessCrash \/ UNCHANGED req[r]
  BY <1>1, CrashFacts DEF InFlight
<1>5. CASE ~UNCHANGED req[r]
  <2>1. PICK x \in Request : HandlerStep(x)
    BY <1>4, <1>5 DEF BridgeNext, HandlerStep, WorkerRuns, bridgeVars, allVars
  <2>2. HandlerStep(r)
    BY <1>5, <2>1, LocalsType
  <2>3. CASE Learns(r)
    <3>1. req[r].pc = "burn" /\ req'[r].pc = "save"
      BY <1>1, <2>3 DEF Learns, Locals
    <3>2. BurnSucceeds(r)
      <4>1. ~Goto(r, "saveFailed") /\ ~Retries(r)
        BY <1>1, <3>1 DEF Goto, Retries, Locals
      <4>2. ~BurnFails(r) /\ ~BurnReplyLost(r)
        BY <3>1, <4>1 DEF BurnFails, BurnReplyLost, RetryOrThrow, Retries
      <4> QED
        BY <2>2, <3>1, <4>2 DEF HandlerStep, TokenizeStep, BurnStep, BeginTokenize,
           LockAccepted, ConfirmAccepted, RegistryRefuses, AfterRefusal,
           DeploySucceeds, DeployFails, DeployReplyLost, ReleaseLock,
           MarkIssuanceFailed, PersistMint, NotifyAccepted, BeginRetire,
           CreateRetirement, BeginDelist, SaveRetirement, SaveDelist, RequestThrows
    <3> QED
      BY <1>1, <3>1, <3>2 DEF Kept, HandlerOK, RowOf
  <2>4. CASE Retries(r)
    <3>1. req'[r].pc = req[r].pc /\ req'[r].tx = req[r].tx
      BY <1>1, <2>4 DEF Retries, Locals
    <3> QED
      BY <1>1, <2>4, <3>1 DEF Retries, Kept, HandlerOK, RowOf
  <2>5. CASE Moves(r)
    <3>1. PICK label \in RequestPc : <<req[r].pc, label>> \in Edges /\ Goto(r, label)
      BY <2>5 DEF Moves
    <3>2. req'[r].pc = label
      BY <1>1, <3>1, GotoFacts
    <3>3. \/ req[r].pc = "create" /\ label = "burn"
          \/ req[r].pc = "burn" /\ label = "saveFailed"
      BY <3>1, <3>2 DEF Edges
    <3>4. CASE req[r].pc = "create" /\ label = "burn"
      <4>1. CreateRetirement(r) \/ RequestThrows(r)
        BY <2>2, <3>4 DEF HandlerStep, TokenizeStep, BurnStep, BeginTokenize,
           LockAccepted, ConfirmAccepted, RegistryRefuses, AfterRefusal,
           DeploySucceeds, DeployFails, DeployReplyLost, ReleaseLock,
           MarkIssuanceFailed, PersistMint, NotifyAccepted, BeginRetire,
           BeginDelist, BurnSucceeds, BurnFails, BurnReplyLost, Burn,
           SaveRetirement, SaveDelist
      <4>2. ~Goto(r, "done")
        BY <1>1, <3>2, <3>4 DEF Goto, Locals
      <4>3. CreateRetirement(r) /\ retirement[RowOf(r)].status = "none"
        BY <4>1, <4>2 DEF CreateRetirement, RequestThrows
      <4> QED
        BY <1>1, <3>2, <3>4, <4>3 DEF Kept, HandlerOK, RowOf
    <3>5. CASE req[r].pc = "burn" /\ label = "saveFailed"
      BY <1>1, <3>2, <3>5 DEF Kept, HandlerOK, RowOf
    <3> QED
      BY <3>3, <3>4, <3>5
  <2> QED
    BY <1>2, <2>2, <2>3, <2>4, <2>5, HandlerMoves
<1> QED
  BY <1>3, <1>5

(* A call that burned is about to save, or over.                            *)
LEMMA BurnerIsOver ==
    ASSUME BridgeTypeOK, HandlerInv, TokenInv, [BridgeNext]_allVars,
           NEW b \in Request, req[b].op \in {"retire", "delist"},
           req[b].pc \in {"save", "done"}
    PROVE  req'[b].pc \in {"save", "done"}
<1>1. req \in [Request -> Locals] /\ req[b] \in Locals
  BY DEF BridgeTypeOK, Locals
<1>2. CASE UNCHANGED req[b]
  BY <1>2
<1>3. CASE ProcessCrash
  BY <1>3, CrashFacts DEF InFlight
<1>4. ~Begins(b) /\ ~Learns(b) /\ ~Retries(b)
  BY BeginFacts DEF Learns, Retries
<1>5. CASE Moves(b)
  <2>1. PICK label \in RequestPc : <<req[b].pc, label>> \in Edges /\ Goto(b, label)
    BY <1>5 DEF Moves
  <2> QED
    BY <1>1, <2>1, GotoFacts DEF Edges
<1>6. CASE \E r \in Request : HandlerStep(r)
  BY <1>2, <1>4, <1>5, <1>6, LocalsType, HandlerMoves
<1> QED
  BY <1>2, <1>3, <1>6 DEF BridgeNext, HandlerStep, WorkerRuns, bridgeVars, allVars

(* A row that is not "none" is written only by a call that retires it.      *)
LEMMA RowWritten ==
    ASSUME BridgeTypeOK, HandlerInv, [BridgeNext]_allVars,
           NEW ik \in Issuance \X Kyc, retirement'[ik] # retirement[ik]
    PROVE  \/ /\ retirement[ik].status = "none" /\ retirement'[ik].status = "INITIATED"
              /\ \E x \in Request : CreateRetirement(x) /\ RowOf(x) = ik
           \/ \E x \in Request :
                /\ Retiring(x) /\ RowOf(x) = ik
                /\ SaveRetirement(x) /\ Goto(x, "done")
                /\ \/ req[x].pc = "save" /\ retirement'[ik] =
                         [status |-> "CHAIN_BURNED", tx |-> req[x].tx]
                   \/ req[x].pc = "saveFailed" /\ retirement'[ik].status = "FAILED"
<1>1. retirement \in [Issuance \X Kyc ->
            [status : {"none", "INITIATED", "CHAIN_BURNED", "FAILED"},
             tx : 0..MaxLedger]]
  BY DEF BridgeTypeOK
<1>2. PICK x \in Request : CreateRetirement(x) \/ SaveRetirement(x)
  BY Effects
<1>3. RowOf(x) = ik
  BY <1>1, <1>2 DEF CreateRetirement, SaveRetirement
<1> HIDE DEF RowOf
<1>4. CASE CreateRetirement(x)
  BY <1>1, <1>3, <1>4 DEF CreateRetirement
<1>5. CASE SaveRetirement(x)
  BY <1>1, <1>3, <1>5 DEF SaveRetirement, Retiring, BurnPc
<1> QED
  BY <1>2, <1>4, <1>5

LEMMA RetirementStep ==
    ASSUME BridgeInv, RetirementInv, [BridgeNext]_allVars
    PROVE  RetirementInv'
<1> SUFFICES ASSUME lost' = 0 PROVE RetirementInv'
  BY DEF RetirementInv
<1>1. /\ BridgeTypeOK /\ HandlerInv /\ TokenInv /\ LedgerInv
      /\ lost = 0 /\ lost' = lost
  BY Effects DEF BridgeInv, BridgeTypeOK
<1>2. /\ \A r \in Request : RetiringOK(r)
      /\ \A r, q \in Request : Retiring(r) /\ Retiring(q) /\ SameRow(r, q) => r = q
      /\ \A p \in 1..Len(ledger) : BurnOK(p)
      /\ \A p, q \in 1..Len(ledger) : SameRow(burntBy[p], burntBy[q]) => p = q
      /\ \A r \in Request, p \in 1..Len(ledger) :
            Retiring(r) /\ SameRow(r, burntBy[p]) => r = burntBy[p]
      /\ \A ik \in Issuance \X Kyc :
            retirement[ik].status = "CHAIN_BURNED" =>
                \E p \in 1..Len(ledger) :
                    req[burntBy[p]].op = "retire" /\ RowOf(burntBy[p]) = ik
  BY <1>1 DEF RetirementInv
<1> DEFINE n == Len(ledger)
           Old == 1..n
<1>3. /\ n \in Nat /\ burntBy \in Seq(Request) /\ Len(burntBy) = n
      /\ \A p \in Old : burntBy[p] \in Request
  BY <1>1 DEF BridgeTypeOK, TypeOK
(* the one new burn, if any, is answered and saved by its call *)
<1>4. /\ \A p \in Old : burntBy'[p] = burntBy[p]
      /\ \/ Len(ledger') = n
         \/ \E r \in Request :
               /\ Len(ledger') = n + 1 /\ burntBy'[n + 1] = r
               /\ req[r].pc = "burn" /\ req'[r].pc = "save" /\ req'[r].tx = n + 1
               /\ req'[r].op = req[r].op /\ RowOf(r)' = RowOf(r)
               /\ UNCHANGED retirement
  <2>1. CASE UNCHANGED <<ledger, burntBy>>
    BY <2>1
  <2>2. ASSUME NEW r \in Request, Burn(r), BurnSucceeds(r) \/ BurnReplyLost(r)
        PROVE  /\ \A p \in Old : burntBy'[p] = burntBy[p]
               /\ Len(ledger') = n + 1 /\ burntBy'[n + 1] = r
               /\ req[r].pc = "burn" /\ req'[r].pc = "save" /\ req'[r].tx = n + 1
               /\ req'[r].op = req[r].op /\ RowOf(r)' = RowOf(r)
               /\ UNCHANGED retirement
    <3>1. BurnSucceeds(r)
      BY <1>1, <2>2 DEF BurnReplyLost
    <3>2. req[r] \in Locals /\ req \in [Request -> Locals] /\ req[r].pc = "burn"
      BY <1>1, <2>2 DEF BridgeTypeOK, Locals, Burn
    <3>3. /\ req'[r].pc = "save" /\ req'[r].tx = n + 1 /\ req'[r].op = req[r].op
          /\ req'[r].issuance = req[r].issuance /\ req'[r].kyc = req[r].kyc
      BY <3>1, <3>2 DEF BurnSucceeds, Locals
    <3> QED
      BY <1>1, <2>2, <3>1, <3>2, <3>3, BurnFacts
         DEF RowOf, BurnSucceeds, ChainOnly, rowsOfBridge
  <2> QED
    BY <2>1, <2>2, Effects
(* the calls that burned keep their row *)
<1>5. ASSUME NEW p \in Old, NEW b \in Request, b = burntBy[p]
      PROVE  /\ req[b].op \in {"retire", "delist"} /\ req[b].pc \in {"save", "done"}
             /\ req'[b].op = req[b].op /\ RowOf(b)' = RowOf(b)
             /\ req'[b].pc \in {"save", "done"}
             /\ req[b].op = "retire" =>
                   /\ RowOf(b) \in Issuance \X Kyc
                   /\ \/ retirement[RowOf(b)].status = "INITIATED"
                      \/ /\ retirement[RowOf(b)].status = "CHAIN_BURNED"
                         /\ retirement[RowOf(b)].tx = p
  <2>1. /\ req[b].op \in {"retire", "delist"} /\ req[b].pc \in {"save", "done"}
        /\ BurnOK(p) /\ HandlerOK(b)
    BY <1>1, <1>2, <1>5 DEF LedgerInv, BurnOK, HandlerInv
  <2>2. /\ req'[b].op = req[b].op /\ RowOf(b)' = RowOf(b)
        /\ req'[b].pc \in {"save", "done"}
    BY <1>1, <2>1, BurnerKept, BurnerIsOver DEF RowOf, BurnPc
  <2> QED
    BY <1>5, <2>1, <2>2 DEF BurnOK, HandlerOK, RowOf
<1>6. ASSUME NEW r \in Request, Retiring(r)'
      PROVE  /\ req[r].op = "retire" /\ RowOf(r)' = RowOf(r)
             /\ RowOf(r) \in Issuance \X Kyc
             /\ \/ Retiring(r) /\ retirement[RowOf(r)].status = "INITIATED"
                \/ CreateRetirement(r) /\ retirement[RowOf(r)].status = "none"
  BY <1>1, <1>2, <1>6, RetiringBefore DEF RowOf, RetiringOK
(* a row in progress is saved only by its own call *)
<1>7. ASSUME NEW ik \in Issuance \X Kyc, retirement[ik].status # "none",
             retirement'[ik] # retirement[ik]
      PROVE  \E x \in Request :
                /\ Retiring(x) /\ RowOf(x) = ik /\ req[x].op = "retire"
                /\ req'[x].pc = "done"
                /\ \/ req[x].pc = "save" /\ retirement'[ik] =
                         [status |-> "CHAIN_BURNED", tx |-> req[x].tx]
                   \/ req[x].pc = "saveFailed" /\ retirement'[ik].status = "FAILED"
  <2>1. PICK x \in Request :
          /\ Retiring(x) /\ RowOf(x) = ik /\ Goto(x, "done")
          /\ \/ req[x].pc = "save" /\ retirement'[ik] =
                   [status |-> "CHAIN_BURNED", tx |-> req[x].tx]
             \/ req[x].pc = "saveFailed" /\ retirement'[ik].status = "FAILED"
    BY <1>1, <1>7, RowWritten
  <2>2. req'[x].pc = "done"
    BY <1>1, <2>1 DEF Goto, BridgeTypeOK
  <2> QED
    BY <2>1, <2>2 DEF Retiring
<1> USE DEF SameRow
<1>8. ASSUME NEW r \in Request PROVE RetiringOK(r)'
  <2>1. Retiring(r)' => retirement'[RowOf(r)].status = "INITIATED"
    <3> SUFFICES ASSUME Retiring(r)' PROVE retirement'[RowOf(r)].status = "INITIATED"
      OBVIOUS
    <3>1. CASE Retiring(r) /\ retirement[RowOf(r)].status = "INITIATED"
      BY <1>2, <1>6, <1>7, <3>1 DEF Retiring, BurnPc
    <3>2. CASE CreateRetirement(r) /\ retirement[RowOf(r)].status = "none"
      BY <1>1, <1>6, <3>2 DEF CreateRetirement, BridgeTypeOK, RowOf
    <3> QED
      BY <1>6, <3>1, <3>2
  <2>2. Retiring(r)' /\ req'[r].pc = "save" =>
          req'[r].tx \in 1..Len(ledger') /\ burntBy'[req'[r].tx] = r
    <3> SUFFICES ASSUME Retiring(r)', req'[r].pc = "save"
                 PROVE  req'[r].tx \in 1..Len(ledger') /\ burntBy'[req'[r].tx] = r
      OBVIOUS
    <3>1. CASE req[r].pc = "save" /\ req'[r].tx = req[r].tx
      <4>1. req[r].tx \in Old /\ burntBy[req[r].tx] = r
        BY <1>2, <1>6, <3>1 DEF RetiringOK, Retiring, BurnPc
      <4> QED
        BY <1>3, <1>4, <3>1, <4>1
    <3>2. CASE BurnSucceeds(r)
      <4>1. req'[r].tx = n + 1
        BY <1>1, <3>2 DEF BurnSucceeds, BridgeTypeOK
      <4>2. Burn(r)
        BY <3>2 DEF BurnSucceeds
      <4> QED
        BY <1>1, <1>3, <4>1, <4>2, BurnFacts
    <3> QED
      BY <1>1, <3>1, <3>2, RetiringBefore
  <2> QED
    BY <1>6, <2>1, <2>2 DEF RetiringOK
<1>9. ASSUME NEW r \in Request, NEW q \in Request,
             Retiring(r)', Retiring(q)', SameRow(r, q)'
      PROVE  r = q
  <2>1. RowOf(r) = RowOf(q) /\ SameRow(r, q)
    BY <1>6, <1>9
  <2>2. CASE Retiring(r) /\ Retiring(q)
    BY <1>2, <2>1, <2>2
  <2>3. ASSUME CreateRetirement(r), CreateRetirement(q) PROVE r = q
    BY <1>1, <2>3 DEF CreateRetirement, Goto, BridgeTypeOK
  <2> QED
    BY <1>6, <1>9, <2>1, <2>2, <2>3
<1>10. ASSUME NEW p \in Old PROVE BurnOK(p)'
  <2>1. PICK b \in Request : b = burntBy[p]
    BY <1>3
  <2>2. burntBy'[p] = b
    BY <1>4, <2>1
  <2>3. ASSUME req[b].op = "retire"
        PROVE  \/ retirement'[RowOf(b)].status = "INITIATED"
               \/ retirement'[RowOf(b)].status = "CHAIN_BURNED" /\ retirement'[RowOf(b)].tx = p
    <3>1. CASE retirement'[RowOf(b)] = retirement[RowOf(b)]
      BY <1>5, <2>1, <2>3, <3>1
    <3>2. CASE retirement'[RowOf(b)] # retirement[RowOf(b)]
      <4>1. PICK ik \in Issuance \X Kyc : ik = RowOf(b)
        BY <1>5, <2>1, <2>3
      <4>2. PICK x \in Request :
                /\ Retiring(x) /\ RowOf(x) = ik /\ req[x].op = "retire"
                /\ \/ req[x].pc = "save" /\ retirement'[ik] =
                         [status |-> "CHAIN_BURNED", tx |-> req[x].tx]
                   \/ req[x].pc = "saveFailed"
        BY <1>5, <1>7, <2>1, <2>3, <3>2, <4>1
      <4>3. x = b
        BY <1>2, <2>1, <2>3, <4>1, <4>2
      <4>4. req[x].pc = "save" /\ req[x].tx \in Old /\ burntBy[req[x].tx] = b
        BY <1>2, <1>5, <2>1, <4>2, <4>3 DEF RetiringOK
      <4>5. req[x].tx = p
        BY <1>2, <2>1, <2>3, <4>4
      <4> QED
        BY <4>1, <4>2, <4>4, <4>5
    <3> QED
      BY <3>1, <3>2
  <2> QED
    BY <1>5, <2>1, <2>2, <2>3 DEF BurnOK, RowOf
<1>11. ASSUME NEW p \in 1..Len(ledger'), p \notin Old, NEW b \in Request, b = burntBy'[p]
       PROVE  /\ p = n + 1 /\ UNCHANGED retirement
              /\ req[b].pc = "burn" /\ req'[b].pc = "save" /\ req'[b].tx = p
              /\ req'[b].op = req[b].op /\ RowOf(b)' = RowOf(b)
  BY <1>3, <1>4, <1>11
<1>12. ASSUME NEW p \in 1..Len(ledger') PROVE BurnOK(p)' /\ burntBy'[p] \in Request
  <2>1. CASE p \in Old
    BY <1>3, <1>4, <1>10, <2>1
  <2>2. CASE p \notin Old
    <3>1. PICK b \in Request : b = burntBy'[p]
      BY <1>3, <1>4, <2>2
    <3>2. req[b].op = "retire" => retirement'[RowOf(b)].status = "INITIATED"
      BY <1>2, <1>11, <2>2, <3>1 DEF RetiringOK, Retiring, BurnPc
    <3> QED
      BY <1>11, <2>2, <3>1, <3>2 DEF BurnOK, RowOf
  <2> QED
    BY <2>1, <2>2
<1>13. ASSUME NEW r \in Request, NEW p \in Old, NEW b \in Request, b = burntBy[p],
              req[r].pc = "burn", req[r].op = "retire", req[b].op = "retire",
              RowOf(r) = RowOf(b)
       PROVE  FALSE
  <2>1. Retiring(r) /\ r = b
    BY <1>2, <1>13 DEF Retiring, BurnPc
  <2> QED
    BY <1>5, <1>13, <2>1
<1>14. ASSUME NEW p \in 1..Len(ledger'), NEW q \in 1..Len(ledger'),
              NEW b \in Request, NEW c \in Request,
              b = burntBy'[p], c = burntBy'[q], SameRow(b, c)'
       PROVE  p = q
  <2>1. CASE p \in Old /\ q \in Old
    BY <1>2, <1>4, <1>5, <1>14, <2>1
  <2>2. CASE p \notin Old /\ q \in Old
    <3>1. /\ req[b].pc = "burn" /\ req[b].op = "retire" /\ RowOf(b)' = RowOf(b)
      BY <1>11, <1>14, <2>2
    <3>2. c = burntBy[q] /\ req[c].op = "retire" /\ RowOf(c)' = RowOf(c)
      BY <1>4, <1>5, <1>14, <2>2
    <3> QED
      BY <1>13, <1>14, <2>2, <3>1, <3>2
  <2>3. CASE p \in Old /\ q \notin Old
    <3>1. /\ req[c].pc = "burn" /\ req[c].op = "retire" /\ RowOf(c)' = RowOf(c)
      BY <1>11, <1>14, <2>3
    <3>2. b = burntBy[p] /\ req[b].op = "retire" /\ RowOf(b)' = RowOf(b)
      BY <1>4, <1>5, <1>14, <2>3
    <3> QED
      BY <1>13, <1>14, <2>3, <3>1, <3>2
  <2>4. CASE p \notin Old /\ q \notin Old
    BY <1>11, <1>14, <2>4
  <2> QED
    BY <2>1, <2>2, <2>3, <2>4
<1>15. ASSUME NEW r \in Request, NEW p \in 1..Len(ledger'), NEW b \in Request,
              b = burntBy'[p], Retiring(r)', SameRow(r, b)'
       PROVE  r = b
  <2>1. CASE p \in Old
    BY <1>2, <1>4, <1>5, <1>6, <1>15, <2>1
  <2>2. CASE p \notin Old
    <3>1. /\ req[b].pc = "burn" /\ req'[b].pc = "save" /\ req'[b].op = "retire"
      BY <1>3, <1>4, <1>15, <2>2
    <3> QED
      BY <1>9, <1>15, <3>1 DEF Retiring, BurnPc
  <2> QED
    BY <2>1, <2>2
<1>16. ASSUME NEW ik \in Issuance \X Kyc, retirement'[ik].status = "CHAIN_BURNED"
       PROVE  \E p \in 1..Len(ledger') :
                 req'[burntBy'[p]].op = "retire" /\ RowOf(burntBy[p])' = ik
  <2>1. \E p \in Old, b \in Request :
           b = burntBy[p] /\ req[b].op = "retire" /\ RowOf(b) = ik
    <3>1. CASE retirement'[ik] = retirement[ik]
      BY <1>2, <1>3, <1>16, <3>1
    <3>2. CASE retirement'[ik] # retirement[ik]
      <4>1. retirement[ik].status # "none"
        <5>1. retirement[ik].status = "none" =>
                retirement'[ik].status = "INITIATED"
                \/ \E x \in Request : Retiring(x) /\ RowOf(x) = ik
          BY <1>1, <3>2, RowWritten
        <5>2. ASSUME NEW x \in Request, Retiring(x), RowOf(x) = ik
              PROVE  retirement[ik].status = "INITIATED"
          BY <1>2, <5>2 DEF RetiringOK
        <5> QED
          BY <1>16, <5>1, <5>2
      <4>2. PICK x \in Request :
              /\ Retiring(x) /\ RowOf(x) = ik /\ req[x].op = "retire"
              /\ req[x].pc = "save"
        BY <1>7, <1>16, <3>2, <4>1
      <4> QED
        BY <1>2, <4>2 DEF RetiringOK
    <3> QED
      BY <3>1, <3>2
  <2>2. PICK p \in Old, b \in Request :
           b = burntBy[p] /\ req[b].op = "retire" /\ RowOf(b) = ik
    BY <2>1
  <2>3. burntBy'[p] = b /\ req'[b].op = "retire" /\ RowOf(b)' = ik
    BY <1>4, <1>5, <2>2
  <2>4. RowOf(burntBy[p])' = ik
    BY <2>3 DEF RowOf
  <2> QED
    BY <1>3, <1>4, <2>3, <2>4
<1> QED
  BY <1>8, <1>9, <1>12, <1>14, <1>15, <1>16 DEF RetirementInv, RowOf

(* retireToken burns at most once per issuance and kycVerificationId, and   *)
(* its row says whether it did, for any number of calls and any order of    *)
(* them, as long as no reply of the chain was lost.                         *)
THEOREM RetirementsBurnOnce == BridgeSpec => []OneBurnPerRetirement
<1>1. BridgeInit => RetirementInv
  <2> SUFFICES ASSUME BridgeInit PROVE RetirementInv
    OBVIOUS
  <2>1. Len(ledger) = 0
    BY DEF BridgeInit, Init
  <2>2. \A r \in Request : ~Retiring(r)
    BY DEF BridgeInit, NewRequest, Retiring
  <2>3. \A ik \in Issuance \X Kyc : retirement[ik].status = "none"
    BY DEF BridgeInit
  <2> QED
    BY <2>1, <2>2, <2>3 DEF RetirementInv, RetiringOK
<1>2. BridgeInv /\ RetirementInv /\ [BridgeNext]_allVars => RetirementInv'
  BY RetirementStep
<1>3. BridgeInv /\ RetirementInv => OneBurnPerRetirement
  <2> SUFFICES ASSUME BridgeInv, RetirementInv, lost = 0,
                      NEW i \in Issuance, NEW k \in Kyc
               PROVE  LET row == retirement[<<i, k>>] IN
                      /\ Cardinality(RetirementBurns(i, k)) <= 1
                      /\ row.status \in {"none", "FAILED"} => RetirementBurns(i, k) = {}
                      /\ row.status = "CHAIN_BURNED" => RetirementBurns(i, k) = {row.tx}
    BY DEF OneBurnPerRetirement
  <2> DEFINE S == RetirementBurns(i, k)
             row == retirement[<<i, k>>]
  <2>1. /\ Len(ledger) \in Nat
        /\ \A p \in 1..Len(ledger) : burntBy[p] \in Request
    BY DEF BridgeInv, BridgeTypeOK, TypeOK
  <2>2. ASSUME NEW p \in 1..Len(ledger)
        PROVE  p \in S <=> req[burntBy[p]].op = "retire" /\ RowOf(burntBy[p]) = <<i, k>>
    BY DEF RetirementBurns, RowOf
  <2>3. S \subseteq 1..Len(ledger)
    BY DEF RetirementBurns
  <2>4. ASSUME NEW p \in S, NEW q \in S PROVE p = q
    <3>1. SameRow(burntBy[p], burntBy[q])
      BY <2>2, <2>3 DEF SameRow
    <3> QED
      BY <2>3, <3>1 DEF RetirementInv
  <2>5. ASSUME NEW p \in S
        PROVE  row.status = "INITIATED" \/ (row.status = "CHAIN_BURNED" /\ row.tx = p)
    <3>1. BurnOK(p)
      BY <2>3 DEF RetirementInv
    <3> QED
      BY <2>2, <2>3, <3>1 DEF BurnOK
  <2>6. row.status = "CHAIN_BURNED" => \E p \in S : TRUE
    <3>1. <<i, k>> \in Issuance \X Kyc
      OBVIOUS
    <3> QED
      BY <2>2, <3>1 DEF RetirementInv
  <2> HIDE DEF S
  <2>7. Cardinality(S) <= 1
    <3>1. CASE S = {}
      BY <3>1, FS_EmptySet
    <3>2. CASE S # {}
      <4>1. PICK p \in S : TRUE
        BY <3>2
      <4>2. S = {p}
        BY <2>4, <4>1
      <4> QED
        <5>1. Cardinality(S) = 1
          BY <4>2, FS_Singleton
        <5> QED
          BY <5>1
    <3> QED
      BY <3>1, <3>2
  <2>8. row.status = "CHAIN_BURNED" => S = {row.tx}
    BY <2>4, <2>5, <2>6
  <2>9. row.status \in {"none", "FAILED"} => S = {}
    BY <2>5
  <2> QED
    BY <2>7, <2>8, <2>9 DEF S
<1> QED
  BY <1>1, <1>2, <1>3, BridgeInvariance, PTL DEF BridgeSpec

(* Next to the handlers, too, every burn on the ledger is settled at most   *)
(* once, for good and in order, the cursor never passes an open one, and    *)
(* our rows never run ahead of the registry.                                *)
THEOREM BridgeSettlesBurns ==
    BridgeSpec => ImplementsBurnSettlement /\ []CursorSafe /\ []RegistryFirst
BY BridgeImplementsWorker, Refinement, CursorIsSafe, RegistryGoesFirst, PTL DEF ImplementsWorker
=============================================================================
