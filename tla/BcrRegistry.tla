----------------------------- MODULE BcrRegistry -----------------------------
(***************************************************************************)
(* The BioCarbon Registry as the API sees it: the state machine of         *)
(* MockBcrAdapter (services/registries/bcr/mock-bcr-adapter.ts), two maps  *)
(* from ids to records.  An adapter call never throws: it returns ok:true  *)
(* after its transition or ok:false with nothing changed, so every         *)
(* operation here is the ok:true step and its guard is the condition under *)
(* which the adapter accepts.  Ids are UUIDs drawn by the caller or by the *)
(* adapter: a lock id is used once.                                        *)
(***************************************************************************)
EXTENDS Naturals

CONSTANTS
    Serial,             \* bcrSerialId values
    Lock,               \* bcrLockId values
    NoSerial,           \* "this lock binds nothing"
    UnlocksTokenized    \* does unlockVCC accept a tokenized VCC?  The mock
                        \* does not (FALSE); the registry the delist flow is
                        \* written for, and the adapter of the end-to-end
                        \* test, do (TRUE)

ASSUME BcrAssumption ==
    /\ NoSerial \notin Serial
    /\ UnlocksTokenized \in BOOLEAN

VARIABLES
    vccStatus,          \* vccs: serial -> status
    lockState,          \* locks: lock id -> never issued, in the map, deleted
    lockSerial          \* the serial a lock in the map binds

bcrVars == <<vccStatus, lockState, lockSerial>>

VccStatus == {"absent", "free", "locked", "tokenized", "retired"}
LockState == {"fresh", "unconfirmed", "confirmed", "deleted"}

BcrTypeOK ==
    /\ vccStatus \in [Serial -> VccStatus]
    /\ lockState \in [Lock -> LockState]
    /\ lockSerial \in [Lock -> Serial \cup {NoSerial}]

BcrInit ==
    /\ vccStatus = [s \in Serial |-> "absent"]
    /\ lockState = [l \in Lock |-> "fresh"]
    /\ lockSerial = [l \in Lock |-> NoSerial]

InLockMap(l) == lockState[l] \in {"unconfirmed", "confirmed"}

(* free (or unknown) -> locked, under a new unconfirmed lock *)
LockVCC(s, l) ==
    /\ vccStatus[s] \in {"absent", "free"}
    /\ lockState[l] = "fresh"
    /\ vccStatus' = [vccStatus EXCEPT ![s] = "locked"]
    /\ lockState' = [lockState EXCEPT ![l] = "unconfirmed"]
    /\ lockSerial' = [lockSerial EXCEPT ![l] = s]

ConfirmLock(l) ==
    /\ InLockMap(l)
    /\ lockState' = [lockState EXCEPT ![l] = "confirmed"]
    /\ UNCHANGED <<vccStatus, lockSerial>>

(* locked -> tokenized, only under the confirmed lock that binds it (B5) *)
NotifyMint(s, l) ==
    /\ vccStatus[s] = "locked"
    /\ lockState[l] = "confirmed"
    /\ lockSerial[l] = s
    /\ vccStatus' = [vccStatus EXCEPT ![s] = "tokenized"]
    /\ UNCHANGED <<lockState, lockSerial>>

CanUnlock(l) ==
    /\ InLockMap(l)
    /\ \/ vccStatus[lockSerial[l]] = "locked"
       \/ UnlocksTokenized /\ vccStatus[lockSerial[l]] = "tokenized"

(* locked -> free; the lock leaves the map *)
UnlockVCC(l) ==
    /\ CanUnlock(l)
    /\ vccStatus' = [vccStatus EXCEPT ![lockSerial[l]] = "free"]
    /\ lockState' = [lockState EXCEPT ![l] = "deleted"]
    /\ UNCHANGED lockSerial

(* any known VCC not yet retired -> retired, for good *)
RetireVCC(s) ==
    /\ vccStatus[s] \notin {"absent", "retired"}
    /\ vccStatus' = [vccStatus EXCEPT ![s] = "retired"]
    /\ UNCHANGED <<lockState, lockSerial>>
=============================================================================
