-------------------------------- MODULE Archival --------------------------------
(***************************************************************************)
(* The datapoints of one old monitoring period: they are moved to a blob   *)
(* store by the nightly job or by hand, and restored on request            *)
(* (archival.service.ts, retention-archival.worker.ts), while the period   *)
(* may still be OPEN and take datapoints (monitoring.service.ts).  One     *)
(* action is the code between two awaits; a transaction is one action.     *)
(***************************************************************************)
EXTENDS FiniteSets

CONSTANTS
    Datapoint,
    Archiver,            \* runs of archivePeriod that overlap
    Instant              \* bound: milliseconds in which one of them has read

ASSUME ArchivalAssumption ==
    /\ IsFiniteSet(Datapoint) /\ IsFiniteSet(Archiver)
    /\ "none" \notin Instant

VARIABLES
    added,               \* datapoints that were ever committed
    datapoints,          \* MonitoringDatapoint rows of the period
    open,                \* MonitoringPeriod.status is OPEN
    adding,              \* datapoints whose status check passed
    blob,                \* the blob store: key, an instant -> datapoints
    archive,             \* DatapointArchive, unique on the period: the blob's
                         \* key and the datapoints its checksum was taken of
    job,                 \* runs of archivePeriod
    restoring,           \* restorePeriod has read and verified the blob
    late                 \* history: added after a run had read, before the
                         \* period was archived

archivalVars == <<added, datapoints, open, adding, blob, archive, job, restoring, late>>

NoArchive == [key |-> "none", rows |-> {}]
IdleJob == [pc |-> "idle", key |-> "none", rows |-> {}]

ArchivalTypeOK ==
    /\ added \subseteq Datapoint
    /\ datapoints \subseteq added
    /\ open \in BOOLEAN
    /\ adding \subseteq Datapoint
    /\ DOMAIN blob \subseteq Instant
    /\ \A k \in DOMAIN blob : blob[k] \subseteq added
    /\ archive \in [key : DOMAIN blob \cup {"none"}, rows : SUBSET added]
    /\ job \in [Archiver -> [pc : {"idle", "read", "put", "commit"},
                             key : Instant \cup {"none"}, rows : SUBSET added]]
    /\ restoring \in BOOLEAN
    /\ late \subseteq added

ArchivalInit ==
    /\ added = {}
    /\ datapoints = {}
    /\ open = TRUE
    /\ adding = {}
    /\ blob = <<>>
    /\ archive = NoArchive
    /\ job = [a \in Archiver |-> IdleJob]
    /\ restoring = FALSE
    /\ late = {}

(* addDatapoints: the period is read OPEN, the rows are created later       *)
BeginAdd(d) ==
    /\ open
    /\ d \notin added \cup adding
    /\ adding' = adding \cup {d}
    /\ UNCHANGED <<added, datapoints, open, blob, archive, job, restoring, late>>

AddDatapoint(d) ==
    /\ d \in adding
    /\ adding' = adding \ {d}
    /\ added' = added \cup {d}
    /\ datapoints' = datapoints \cup {d}
    /\ late' = IF /\ archive = NoArchive
                  /\ \E a \in Archiver : job[a].pc \in {"put", "commit"}
               THEN late \cup {d} ELSE late
    /\ UNCHANGED <<open, blob, archive, job, restoring>>

SubmitOpenPeriod ==
    /\ open
    /\ open' = FALSE
    /\ UNCHANGED <<added, datapoints, adding, blob, archive, job, restoring, late>>

JobGoes(a, pc) == job' = [job EXCEPT ![a].pc = pc]

(* archivePeriod of a period identifyEligible found, or an administrator    *)
(* named: no archive yet, read the datapoints, put the blob, then record it *)
(* and delete the rows in one transaction.                                  *)
BeginArchive(a) ==
    /\ job[a].pc = "idle"
    /\ archive = NoArchive
    /\ JobGoes(a, "read")
    /\ UNCHANGED <<added, datapoints, open, adding, blob, archive, restoring, late>>

(* The key is the millisecond: runs that read in the same one share it; it  *)
(* is over before any of them has put its blob.                             *)
ReadDatapoints(a) ==
    /\ job[a].pc = "read"
    /\ \E k \in Instant \ DOMAIN blob :
        job' = [job EXCEPT ![a] = [pc |-> "put", key |-> k, rows |-> datapoints]]
    /\ UNCHANGED <<added, datapoints, open, adding, blob, archive, restoring, late>>

PutBlob(a) ==
    /\ job[a].pc = "put"
    /\ blob' = [k \in DOMAIN blob \cup {job[a].key} |->
                    IF k = job[a].key THEN job[a].rows ELSE blob[k]]
    /\ JobGoes(a, "commit")
    /\ UNCHANGED <<added, datapoints, open, adding, archive, restoring, late>>

(* An upsert of the archive row.                                            *)
MayRecordAgain == TRUE
MayRecord == archive = NoArchive

CommitArchive(a) ==
    /\ job[a].pc = "commit"
    /\ IF MayRecord
       THEN /\ archive' = [key |-> job[a].key, rows |-> job[a].rows]
            /\ datapoints' = {}
       ELSE UNCHANGED <<archive, datapoints>>
    /\ job' = [job EXCEPT ![a] = IdleJob]
    /\ UNCHANGED <<added, open, adding, blob, restoring, late>>

(* An await throws, or the process dies; a blob that was put stays.         *)
DropArchive(a) ==
    /\ job[a].pc # "idle"
    /\ job' = [job EXCEPT ![a] = IdleJob]
    /\ UNCHANGED <<added, datapoints, open, adding, blob, archive, restoring, late>>

(* restorePeriod: the blob's checksum must be the one of the archive; rows  *)
(* that are there are skipped, the archive row stays.                       *)
BeginRestore ==
    /\ archive # NoArchive
    /\ blob[archive.key] = archive.rows
    /\ ~restoring
    /\ restoring' = TRUE
    /\ UNCHANGED <<added, datapoints, open, adding, blob, archive, job, late>>

RestoreRows ==
    /\ restoring
    /\ datapoints' = datapoints \cup archive.rows
    /\ restoring' = FALSE
    /\ UNCHANGED <<added, open, adding, blob, archive, job, late>>

DropRestore ==
    /\ restoring
    /\ restoring' = FALSE
    /\ UNCHANGED <<added, datapoints, open, adding, blob, archive, job, late>>

ArchivalNext ==
    \/ \E d \in Datapoint : BeginAdd(d) \/ AddDatapoint(d)
    \/ SubmitOpenPeriod
    \/ \E a \in Archiver :
        \/ BeginArchive(a) \/ ReadDatapoints(a) \/ PutBlob(a) \/ CommitArchive(a)
        \/ DropArchive(a)
    \/ BeginRestore \/ RestoreRows \/ DropRestore

ArchivalSpec == ArchivalInit /\ [][ArchivalNext]_archivalVars
-----------------------------------------------------------------------------
InBlob == IF archive = NoArchive THEN {} ELSE blob[archive.key]

(* What a run has read is safe: each datapoint is a row, or in the blob the *)
(* archive names, through overlapping runs (also of one millisecond, which  *)
(* overwrite each other's blob), crashes and restores.  Those added while a *)
(* run is between its read and its delete are NeverPurged's matter.         *)
DatapointsKept ==
    added \ late \subseteq datapoints \cup InBlob

-----------------------------------------------------------------------------
(* What the comments say and the code does not do.                          *)

(* "We move cold datapoints to blob storage rather than delete": every      *)
(* datapoint that was ever committed is a row or in the blob, though the    *)
(* delete of archivePeriod takes every row of the period, read or not       *)
(* (archival.service.ts:220).                                               *)
NeverPurged ==
    added \subseteq datapoints \cup InBlob
=============================================================================
