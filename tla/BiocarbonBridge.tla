---------------------------- MODULE BiocarbonBridge ----------------------------
(***************************************************************************)
(* The two-way bridge between the BioCarbon Registry and the Aurigraph     *)
(* chain: the request handlers tokenizeIssuance, retireToken and           *)
(* delistIssuance interleaved with the events worker of EventsWorker, over *)
(* one database, one registry and one chain.  The handlers are the         *)
(* environment EventsWorker assumes; ImplementsWorker checks that they     *)
(* are.                                                                    *)
(*                                                                         *)
(* A request is one call of a handler and does one operation.  Every call  *)
(* of tokenizeIssuance draws a fresh bcrSerialId and is given a fresh      *)
(* bcrLockId, which are stored and read as a pair: the request that drew   *)
(* them stands for both (Serial and Lock are Request).  One action is the  *)
(* code between two awaits.                                                *)
(***************************************************************************)
EXTENDS EventsWorker, FiniteSets

CONSTANTS
    Request,             \* calls of the handlers
    Kyc, NoKyc,          \* approved kycVerificationIds
    MaxAttempts,         \* DEFAULT_MAX_RETRIES of callWithRetry
    MaxLost,             \* bound: chain calls applied whose reply is lost
    MaxThrows            \* bound: exceptions out of a handler

ASSUME BridgeAssumption ==
    /\ Serial = Request
    /\ Lock = Request
    /\ \A i \in Issuance, r \in Request, b \in BOOLEAN :   \* what BurnOf lists
          [type |-> "burn", issuance |-> i, serial |-> r, lock |-> r,
           retiredFor |-> b, retiredBy |-> b] \in LedgerEntry
    /\ MaxAttempts \in Nat \ {0}
    /\ MaxLost \in Nat
    /\ MaxThrows \in Nat

(* A contract is the attempt of a request that deployed it.                 *)
Contract == Request \X (1..MaxAttempts)
NoContract == <<>>

VARIABLES
    \* database rows
    token,               \* Issuance.tokenizationStatus, tokenizationContractId
                         \* and the pair bcrSerialId, bcrLockId
    retirement,          \* Retirement, unique on (issuance, kyc)
    delistTx,            \* DelistRequest.txHash, 0 for null
    \* the chain
    contracts,           \* contract -> "none", "live" or "burnt"
    burntBy,             \* position in the ledger -> request that burned
    \* the handlers
    req,                 \* request -> its program counter and locals
    lost, throws         \* bounded counters

rowsOfBridge == <<token, retirement, delistTx>>
chainOfBridge == <<contracts, burntBy>>
bridgeVars == <<token, retirement, delistTx, contracts, burntBy, req, lost, throws>>
allVars == <<vars, bridgeVars>>

RequestPc == {"new", "lock", "confirm", "deploy", "unlock", "markFailed",
              "persist", "notify", "create", "burn", "save", "saveFailed", "done"}

BridgeTypeOK ==
    /\ TypeOK
    /\ token \in [Issuance -> [status : {"none", "MINTED", "FAILED"},
                               contract : Contract \cup {NoContract},
                               serial : Request \cup {NoSerial}]]
    /\ retirement \in [Issuance \X Kyc ->
            [status : {"none", "INITIATED", "CHAIN_BURNED", "FAILED"},
             tx : 0..MaxLedger]]
    /\ delistTx \in [Issuance -> 0..MaxLedger]
    /\ contracts \in [Contract -> {"none", "live", "burnt"}]
    /\ burntBy \in Seq(Request) /\ Len(burntBy) = Len(ledger)
    /\ req \in [Request ->
            [pc : RequestPc, op : {"none", "tokenize", "retire", "delist"},
             issuance : Issuance \cup {NoIssuance}, kyc : Kyc \cup {NoKyc},
             contract : Contract \cup {NoContract},
             serial : Request \cup {NoSerial},
             attempt : 1..MaxAttempts, tx : 0..MaxLedger]]
    /\ lost \in 0..MaxLost
    /\ throws \in 0..MaxThrows

NewRequest ==
    [pc |-> "new", op |-> "none", issuance |-> NoIssuance, kyc |-> NoKyc,
     contract |-> NoContract, serial |-> NoSerial, attempt |-> 1, tx |-> 0]

BridgeInit ==
    /\ Init
    /\ token = [i \in Issuance |-> [status |-> "none", contract |-> NoContract,
                                    serial |-> NoSerial]]
    /\ retirement = [ik \in Issuance \X Kyc |-> [status |-> "none", tx |-> 0]]
    /\ delistTx = [i \in Issuance |-> 0]
    /\ contracts = [c \in Contract |-> "none"]
    /\ burntBy = <<>>
    /\ req = [r \in Request |-> NewRequest]
    /\ lost = 0
    /\ throws = 0
-----------------------------------------------------------------------------
(* A handler's step leaves the worker, its cursor and its rows alone.       *)
WorkerUnchanged ==
    UNCHANGED <<oldest, cursor, rowVars, issuanceStatus, loopVars, pc, tickVars,
                bcrAccepted, faults>>

Goto(r, label) == req' = [req EXCEPT ![r].pc = label]

(* A step of handler r that changes nothing but the registry and its own pc *)
RegistryOnly ==
    /\ WorkerUnchanged
    /\ UNCHANGED <<ledger, delistStatus, rowsOfBridge, chainOfBridge, lost, throws>>

(* ... or nothing but a row of the database                                 *)
RowsOnly ==
    /\ WorkerUnchanged
    /\ UNCHANGED <<bcrVars, ledger, chainOfBridge, lost, throws>>

(* ... or nothing but the chain                                             *)
ChainOnly ==
    /\ WorkerUnchanged
    /\ UNCHANGED <<bcrVars, delistStatus, rowsOfBridge, throws>>
-----------------------------------------------------------------------------
(* tokenizeIssuance                                                         *)

(* load the issuance; a set tokenizationContractId short-circuits the call  *)
BeginTokenize(r, i) ==
    /\ req[r].pc = "new"
    /\ token[i].contract = NoContract
    /\ issuanceStatus[i] = "ISSUED"
    /\ req' = [req EXCEPT ![r] = [NewRequest EXCEPT !.pc = "lock",
                                     !.op = "tokenize", !.issuance = i,
                                     !.serial = r]]
    /\ UNCHANGED bcrVars
    /\ RegistryOnly

LockAccepted(r) ==
    /\ req[r].pc = "lock"
    /\ LockVCC(r, r)
    /\ Goto(r, "confirm")
    /\ RegistryOnly

ConfirmAccepted(r) ==
    /\ req[r].pc = "confirm"
    /\ ConfirmLock(r)
    /\ Goto(r, "deploy")
    /\ RegistryOnly

(* regression: a refused notifyMint rolls the lock back                     *)
RollbackAfterRefusal ==
    [lock |-> "done", confirm |-> "markFailed", unlock |-> "markFailed",
     notify |-> "unlock"]

(* the registry answers ok:false: no lock, no mint; a failed notifyMint is  *)
(* only recorded                                                            *)
AfterRefusal ==
    [lock |-> "done", confirm |-> "markFailed", unlock |-> "markFailed",
     notify |-> "done"]

RegistryRefuses(r) ==
    /\ req[r].pc \in DOMAIN AfterRefusal
    /\ Goto(r, AfterRefusal[req[r].pc])
    /\ UNCHANGED bcrVars
    /\ RegistryOnly

(* deployContract: the chain applied the attempt and says so                *)
DeploySucceeds(r) ==
    LET c == <<r, req[r].attempt>> IN
    /\ req[r].pc = "deploy"
    /\ contracts' = [contracts EXCEPT ![c] = "live"]
    /\ req' = [req EXCEPT ![r].pc = "persist", ![r].contract = c]
    /\ UNCHANGED <<ledger, burntBy, lost>>
    /\ ChainOnly

(* callWithRetry: an attempt answered by a 5xx is made again while the      *)
(* budget lasts; any other error, or the last 5xx, is thrown                *)
RetryOrThrow(r, handler) ==
    \/ Goto(r, handler)
    \/ /\ req[r].attempt < MaxAttempts
       /\ req' = [req EXCEPT ![r].attempt = @ + 1]

(* the chain did not apply the attempt (a retry of it is this step later)   *)
DeployFails(r) ==
    /\ req[r].pc = "deploy"
    /\ Goto(r, "unlock")
    /\ UNCHANGED <<ledger, chainOfBridge, lost>>
    /\ ChainOnly

(* it did, but the answer is an error: 5xx or a lost connection             *)
DeployReplyLost(r) ==
    /\ req[r].pc = "deploy"
    /\ lost < MaxLost
    /\ lost' = lost + 1
    /\ contracts' = [contracts EXCEPT ![<<r, req[r].attempt>>] = "live"]
    /\ RetryOrThrow(r, "unlock")
    /\ UNCHANGED <<ledger, burntBy>>
    /\ ChainOnly

(* the best-effort unlockVCC of the catch block                             *)
ReleaseLock(r) ==
    /\ req[r].pc = "unlock"
    /\ UnlockVCC(r)
    /\ Goto(r, "markFailed")
    /\ RegistryOnly

(* regression: the FAILED status is not written, only the binding           *)
MarkIssuanceBinding(r) ==
    /\ req[r].pc = "markFailed"
    /\ token' = [token EXCEPT ![req[r].issuance].serial = r]
    /\ Goto(r, "done")
    /\ UNCHANGED <<retirement, delistStatus, delistTx>>
    /\ RowsOnly

(* markIssuanceFailed: whatever the row says by now is overwritten          *)
MarkIssuanceFailed(r) ==
    /\ req[r].pc = "markFailed"
    /\ token' = [token EXCEPT ![req[r].issuance].status = "FAILED",
                              ![req[r].issuance].serial = r]
    /\ Goto(r, "done")
    /\ UNCHANGED <<retirement, delistStatus, delistTx>>
    /\ RowsOnly

PersistMint(r) ==
    /\ req[r].pc = "persist"
    /\ token' = [token EXCEPT ![req[r].issuance] =
                   [status |-> "MINTED", contract |-> req[r].contract, serial |-> r]]
    /\ Goto(r, "notify")
    /\ UNCHANGED <<retirement, delistStatus, delistTx>>
    /\ RowsOnly

NotifyAccepted(r) ==
    /\ req[r].pc = "notify"
    /\ NotifyMint(r, r)
    /\ Goto(r, "done")
    /\ RegistryOnly
-----------------------------------------------------------------------------
(* retireToken and delistIssuance                                           *)

(* the issuance as loaded: contract, serial and lock are used from here on  *)
Load(r, label, op, i, k) ==
    req' = [req EXCEPT ![r] = [NewRequest EXCEPT !.pc = label, !.op = op,
                                  !.issuance = i, !.kyc = k,
                                  !.contract = token[i].contract,
                                  !.serial = token[i].serial]]

(* verifyKyc, assertIssuanceRetirable                                       *)
BeginRetire(r, i, k) ==
    /\ req[r].pc = "new"
    /\ issuanceStatus[i] # "RETIRED"
    /\ token[i].status = "MINTED"
    /\ token[i].contract # NoContract
    /\ Load(r, "create", "retire", i, k)
    /\ UNCHANGED bcrVars
    /\ RegistryOnly

RowOf(r) == <<req[r].issuance, req[r].kyc>>

(* regression: no unique constraint behind the probe                        *)
CreateRetirementTwice(r) ==
    /\ req[r].pc = "create"
    /\ retirement' = [retirement EXCEPT ![RowOf(r)].status = "INITIATED"]
    /\ Goto(r, "burn")
    /\ UNCHANGED <<token, delistStatus, delistTx>>
    /\ RowsOnly

(* the idempotency probe and the create under the unique constraint: with a *)
(* row there, the call returns it or throws                                 *)
CreateRetirement(r) ==
    /\ req[r].pc = "create"
    /\ IF retirement[RowOf(r)].status = "none"
       THEN /\ retirement' = [retirement EXCEPT ![RowOf(r)].status = "INITIATED"]
            /\ Goto(r, "burn")
       ELSE /\ Goto(r, "done")
            /\ UNCHANGED retirement
    /\ UNCHANGED <<token, delistStatus, delistTx>>
    /\ RowsOnly

(* a DelistRequest in flight is returned, a reconciled one refused          *)
BeginDelist(r, i) ==
    /\ req[r].pc = "new"
    /\ delistStatus[i] \in {"none", "FAILED"}
    /\ token[i].status = "MINTED"
    /\ token[i].contract # NoContract
    /\ Load(r, "burn", "delist", i, NoKyc)
    /\ UNCHANGED bcrVars
    /\ RegistryOnly

(* What the public ledger lists for the burn: the metadata of the delist,   *)
(* or what the retirement puts into `reason` as JSON, which names both      *)
(* retiredFor and retiredBy, listed as the end-to-end test's chain does.    *)
BurnOf(r) ==
    [type |-> "burn", issuance |-> req[r].issuance, serial |-> req[r].serial,
     lock |-> req[r].serial, retiredFor |-> req[r].op = "retire",
     retiredBy |-> req[r].op = "retire"]

(* the chain applies a burn: nothing in the code makes it refuse a second   *)
(* burn of a contract                                                       *)
Burn(r) ==
    /\ req[r].pc = "burn"
    /\ Len(ledger) < MaxLedger
    /\ ledger' = Append(ledger, BurnOf(r))
    /\ burntBy' = Append(burntBy, r)
    /\ contracts' = [contracts EXCEPT ![req[r].contract] = "burnt"]

BurnSucceeds(r) ==
    /\ Burn(r)
    /\ req' = [req EXCEPT ![r].pc = "save", ![r].tx = Len(ledger) + 1]
    /\ UNCHANGED lost
    /\ ChainOnly

BurnFails(r) ==
    /\ req[r].pc = "burn"
    /\ Goto(r, "saveFailed")
    /\ UNCHANGED <<ledger, chainOfBridge, lost>>
    /\ ChainOnly

(* burnAsset keeps the default retry of callWithRetry                       *)
BurnReplyLost(r) ==
    /\ Burn(r)
    /\ lost < MaxLost
    /\ lost' = lost + 1
    /\ RetryOrThrow(r, "saveFailed")
    /\ ChainOnly

SaveRetirement(r) ==
    /\ req[r].op = "retire"
    /\ \/ /\ req[r].pc = "save"
          /\ retirement' = [retirement EXCEPT ![RowOf(r)] =
                              [status |-> "CHAIN_BURNED", tx |-> req[r].tx]]
       \/ /\ req[r].pc = "saveFailed"
          /\ retirement' = [retirement EXCEPT ![RowOf(r)].status = "FAILED"]
    /\ Goto(r, "done")
    /\ UNCHANGED <<token, delistStatus, delistTx>>
    /\ RowsOnly

(* regression: the initiator closes the round trip itself                   *)
SaveDelistUnlocked(r) ==
    /\ req[r].op = "delist"
    /\ req[r].pc = "save"
    /\ delistStatus' = [delistStatus EXCEPT ![req[r].issuance] = "BCR_UNLOCKED"]
    /\ delistTx' = [delistTx EXCEPT ![req[r].issuance] = req[r].tx]
    /\ Goto(r, "done")
    /\ UNCHANGED <<token, retirement>>
    /\ RowsOnly

(* the upserts: whatever the row says by now is overwritten                 *)
SaveDelist(r) ==
    /\ req[r].op = "delist"
    /\ \/ /\ req[r].pc = "save"
          /\ delistStatus' = [delistStatus EXCEPT ![req[r].issuance] = "CHAIN_BURNED"]
          /\ delistTx' = [delistTx EXCEPT ![req[r].issuance] = req[r].tx]
       \/ /\ req[r].pc = "saveFailed"
          /\ delistStatus' = [delistStatus EXCEPT ![req[r].issuance] = "FAILED"]
          /\ UNCHANGED delistTx
    /\ Goto(r, "done")
    /\ UNCHANGED <<token, retirement>>
    /\ RowsOnly
-----------------------------------------------------------------------------
InFlight(r) == req[r].pc \notin {"new", "done"}

(* an exception leaves a handler: out of a database call, or out of         *)
(* buildAssetMetadata before the deployment                                 *)
RequestThrows(r) ==
    /\ req[r].pc \in {"deploy", "markFailed", "persist", "create", "save",
                      "saveFailed"}
    /\ throws < MaxThrows
    /\ throws' = throws + 1
    /\ Goto(r, "done")
    /\ WorkerUnchanged
    /\ UNCHANGED <<bcrVars, ledger, delistStatus, rowsOfBridge, chainOfBridge, lost>>

(* the API process dies with its handlers and its worker                    *)
ProcessCrash ==
    /\ Crash
    /\ req' = [r \in Request |->
                 IF InFlight(r) THEN [req[r] EXCEPT !.pc = "done"] ELSE req[r]]
    /\ UNCHANGED <<rowsOfBridge, chainOfBridge, lost, throws>>

(* The worker's own steps; nothing in the API calls stop.                   *)
WorkerRuns ==
    /\ StartWorker \/ TimerFires \/ TickStep \/ FlipDelistThrows \/ TickThrows
    /\ UNCHANGED bridgeVars

TokenizeStep(r) ==
    \/ \E i \in Issuance : BeginTokenize(r, i)
    \/ LockAccepted(r) \/ ConfirmAccepted(r) \/ RegistryRefuses(r)
    \/ DeploySucceeds(r) \/ DeployFails(r) \/ DeployReplyLost(r)
    \/ ReleaseLock(r) \/ MarkIssuanceFailed(r)
    \/ PersistMint(r) \/ NotifyAccepted(r)

BurnStep(r) ==
    \/ \E i \in Issuance, k \in Kyc : BeginRetire(r, i, k)
    \/ CreateRetirement(r)
    \/ \E i \in Issuance : BeginDelist(r, i)
    \/ BurnSucceeds(r) \/ BurnFails(r) \/ BurnReplyLost(r)
    \/ SaveRetirement(r) \/ SaveDelist(r)

BridgeNext ==
    \/ WorkerRuns
    \/ ProcessCrash
    \/ \E r \in Request : TokenizeStep(r) \/ BurnStep(r) \/ RequestThrows(r)

BridgeSpec == BridgeInit /\ [][BridgeNext]_allVars
-----------------------------------------------------------------------------
(* The handlers do to the worker's registry, ledger and rows only what      *)
(* EventsWorker assumes of its environment.                                 *)
ImplementsWorker == SafetySpec

(* A MINTED issuance names a contract that was deployed under the confirmed *)
(* lock of the serial in the same row, however concurrent tokenizations of  *)
(* the issuance succeed and fail (B5, B6): what retireToken and             *)
(* delistIssuance burn is the token of the VCC they then name.              *)
MintedIsBacked ==
    \A i \in Issuance :
        LET t == token[i] IN
        t.status = "MINTED" =>
            /\ t.serial # NoSerial /\ t.contract[1] = t.serial
            /\ contracts[t.contract] \in {"live", "burnt"}
            /\ contracts[t.contract] = "live" => lockState[t.serial] = "confirmed"
            /\ vccStatus[t.serial] \in {"free", "locked", "tokenized", "retired"}

(* While a token is live its VCC is not free at the registry - no double    *)
(* counting across the bridge - as long as the chain answered every call it *)
(* applied.                                                                 *)
LiveTokenIsLocked ==
    lost = 0 =>
        \A c \in Contract :
            contracts[c] = "live" =>
                vccStatus[c[1]] \in {"locked", "tokenized", "retired"}

RetirementBurns(i, k) ==
    {p \in 1..Len(ledger) :
        LET b == req[burntBy[p]] IN b.op = "retire" /\ b.issuance = i /\ b.kyc = k}

(* However many calls carry the same kycVerificationId, they burn at most   *)
(* once, and the row tells whether they did (idempotency of retireToken).   *)
OneBurnPerRetirement ==
    lost = 0 =>
        \A i \in Issuance, k \in Kyc :
            LET row == retirement[<<i, k>>] IN
            /\ Cardinality(RetirementBurns(i, k)) <= 1
            /\ row.status \in {"none", "FAILED"} => RetirementBurns(i, k) = {}
            /\ row.status = "CHAIN_BURNED" => RetirementBurns(i, k) = {row.tx}

(* A DelistRequest is BCR_UNLOCKED only if the registry released the lock   *)
(* of a burnt token of the issuance.                                        *)
UnlockedIsBurnt ==
    \A i \in Issuance :
        delistStatus[i] = "BCR_UNLOCKED" =>
            \E p \in bcrAccepted :
                /\ ledger[p].issuance = i /\ ~IsRetirement(ledger[p])
                /\ lockState[ledger[p].lock] = "deleted"
                /\ \E c \in Contract : c[1] = ledger[p].serial /\ contracts[c] = "burnt"

(* A RETIRED issuance becomes ISSUED again only for another VCC, one the    *)
(* registry has just freed: a retired credit does not come back.            *)
RetiredStaysRetired ==
    [][\A i \in Issuance :
          issuanceStatus[i] = "RETIRED" /\ issuanceStatus'[i] = "ISSUED" =>
              vccStatus[ledger[event].serial] = "free"]_allVars
-----------------------------------------------------------------------------
(* What the documentation says and the code does not do.                    *)

(* "Idempotent: re-calling this with an issuance that already has           *)
(* tokenizationContractId set returns the cached values" and B7, "One VCC = *)
(* one token (1:1)": but two calls that both load the row before either     *)
(* persists draw two serials and deploy two tokens for one issuance.        *)
OneLiveToken ==
    \A c, d \in Contract :
        /\ contracts[c] = "live" /\ contracts[d] = "live"
        /\ req[c[1]].issuance = req[d[1]].issuance
        => c = d

(* "The events worker will reconcile to BCR_UNLOCKED asynchronously"        *)
(* (delistIssuance): but when it gets to the burn before the upsert, it     *)
(* flips no row, and the upsert then leaves CHAIN_BURNED for good.          *)
DelistReconciled ==
    \A i \in Issuance :
        delistStatus[i] = "CHAIN_BURNED" =>
            ~(delistTx[i] # 0 /\ rowStatus[delistTx[i]] = "PROCESSED")

(* "On chain failure -> status=FAILED, throw underlying error (no BCR-side  *)
(* side-effect, the chain didn't move)" (retireToken): but the chain may    *)
(* have applied the burn whose reply was lost.                              *)
FailedMeansNotBurnt ==
    \A i \in Issuance, k \in Kyc :
        retirement[<<i, k>>].status = "FAILED" => RetirementBurns(i, k) = {}
=============================================================================
