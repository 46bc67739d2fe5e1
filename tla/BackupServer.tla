---------------------------- MODULE BackupServer ----------------------------
(***************************************************************************)
(* Disaster-recovery snapshots on the server: the backup_snapshots rows    *)
(* and their objects in the backups bucket, the workers that build and     *)
(* prune them (the daily tick of backup_scheduler.py, POST                 *)
(* /admin/backups/run, POST /admin/backups/retention/run) and the devices  *)
(* that confirm downloads (admin_backups.py, admin_devices.py).            *)
(*                                                                         *)
(* A worker moves from one commit, or one call to the object store, to     *)
(* the next; a worker may die at any of them. A deleted row stays visible  *)
(* as "ready" until the deleting transaction commits.                      *)
(*                                                                         *)
(* Snapshots are named by their sequence. No row ever gets a parent: an    *)
(* incremental build puts the parent's UUID into json.dumps, which raises. *)
(***************************************************************************)
EXTENDS Integers, FiniteSets

CONSTANTS
    MaxSnap,    \* bound on the snapshots ever started
    Workers,    \* concurrent requests and scheduler loops
    Devices,    \* desktop installations
    Keep,       \* settings.backup_retention_keep
    FullEvery   \* settings.backup_synthetic_full_every_n

ASSUME KeepAssumption == Keep \in Nat \ {0}
ASSUME MaxSnapAssumption == MaxSnap \in Nat
ASSUME FullEveryAssumption == FullEvery \in Nat \ {0}

VARIABLES
    row,        \* backup_snapshots.status, "none" before and "pruned" after
    store,      \* the objects under "<snapshot id>/"
    old,        \* snapshots created more than STALE_AFTER ago
    job,        \* what each worker is doing
    device,     \* backup_devices.status, "none" before registration
    held,       \* backup_snapshot_devices
    big         \* the documents exceed backup_incremental_threshold_bytes

vars == <<row, store, old, job, device, held, big>>

Snaps == 1 .. MaxSnap
None  == 0      \* no snapshot

Unfinished == {"pending", "uploading"}
RowStatus  == {"none", "ready", "failed", "pruned"} \cup Unfinished
Pcs == {"idle", "locked", "pending", "building", "built",
        "choosing", "deleting", "unlinking"}
Jobs == [pc : Pcs, snap : Snaps \cup {None}, parent : Snaps \cup {None},
         todo : SUBSET Snaps, gone : SUBSET Snaps]
Idle == [pc |-> "idle", snap |-> None, parent |-> None, todo |-> {}, gone |-> {}]

Ready == {s \in Snaps : row[s] = "ready"}
\* ready[:keep_count] of run_retention_once.
Newest(ready) == {s \in ready : Cardinality({t \in ready : t > s}) < Keep}
\* _latest_ready_snapshot, None when there is none.
IsLatestReady(p) ==
    IF Ready = {} THEN p = None ELSE p \in Ready /\ \A s \in Ready : s <= p

\* pg_try_advisory_xact_lock: held until the holder's first commit.
LockFree == \A w \in Workers : job[w].pc # "locked"

\* The rows a retention has deleted in a transaction it has not committed.
Deleting(w) == job[w].gone

\* A device that may still hold a copy: has_offsite_copy.
OffsiteCopy(s) == \E d \in Devices : <<s, d>> \in held /\ device[d] = "active"
----------------------------------------------------------------------------
Init ==
    /\ row    = [s \in Snaps |-> "none"]
    /\ store  = [s \in Snaps |-> "none"]
    /\ old    = {}
    /\ job    = [w \in Workers |-> Idle]
    /\ device = [d \in Devices |-> "none"]
    /\ held   = {}
    /\ big    = FALSE

\* Two hours pass over an unfinished snapshot.
GrowOld(s) ==
    /\ row[s] \in Unfinished /\ s \notin old
    /\ old' = old \cup {s}
    /\ UNCHANGED <<row, store, job, device, held, big>>

\* The documents bucket outgrows the threshold.
DocumentsGrow ==
    /\ ~big /\ big' = TRUE
    /\ UNCHANGED <<row, store, old, job, device, held>>

\* Fault: only a snapshot that had begun to upload is demoted.
DemotedWithoutPending ==
    [s \in Snaps |-> IF row[s] = "uploading" /\ s \in old THEN "failed" ELSE row[s]]
\* Fault: a demoted snapshot gets a status of its own.
DemotedToStale ==
    [s \in Snaps |-> IF row[s] \in Unfinished /\ s \in old THEN "stale" ELSE row[s]]
\* _demote_stale_snapshots.
Demoted ==
    [s \in Snaps |-> IF row[s] \in Unfinished /\ s \in old THEN "failed" ELSE row[s]]

Unstarted == {s \in Snaps : row[s] = "none"}

\* run_backup_once up to the lock; without it the tick ends here.
Begin(w) ==
    /\ job[w].pc = "idle"
    /\ row' = Demoted
    /\ IF LockFree /\ Unstarted # {}
       THEN job' = [job EXCEPT ![w].pc = "locked"]
       ELSE UNCHANGED job
    /\ UNCHANGED <<store, old, device, held, big>>

\* run_backup inserts its row and commits, and the advisory lock is gone.
Insert(w) ==
    /\ job[w].pc = "locked"
    /\ \E s \in Unstarted :
           /\ \A t \in Unstarted : s <= t
           /\ row' = [row EXCEPT ![s] = "pending"]
           /\ job' = [job EXCEPT ![w] = [job[w] EXCEPT !.pc = "pending", !.snap = s]]
    /\ UNCHANGED <<store, old, device, held, big>>

\* _build_and_upload to the postgres dump: "uploading" is committed whatever
\* the row said, the parent is chosen, the first object lands.
Upload(w) ==
    LET s == job[w].snap IN
    /\ job[w].pc = "pending"
    /\ row' = [row EXCEPT ![s] = "uploading"]
    /\ store' = [store EXCEPT ![s] = "partial"]
    /\ \E p \in Snaps \cup {None} :
           /\ IsLatestReady(p)
           /\ job' = [job EXCEPT ![w] = [job[w] EXCEPT !.pc = "building", !.parent = p]]
    /\ UNCHANGED <<old, device, held, big>>

\* _decide_incremental: no incremental is ever ready, so since_full is 0, and
\* a parent whose index cannot be read forces a full snapshot.
Incremental(w) ==
    /\ big
    /\ FullEvery > 1
    /\ job[w].parent # None
    /\ store[job[w].parent] = "whole"

\* Fault: the manifest is left to be uploaded after the row is ready.
FinishWithoutManifest(w) ==
    LET s == job[w].snap IN
    /\ job[w].pc = "building"
    /\ IF Incremental(w)
       THEN /\ row' = [row EXCEPT ![s] = "failed"]
            /\ job' = [job EXCEPT ![w] = Idle]
            /\ UNCHANGED store
       ELSE /\ row' = [row EXCEPT ![s] = "ready"]
            /\ job' = [job EXCEPT ![w] = [Idle EXCEPT !.pc = "built"]]
            /\ UNCHANGED store
    /\ UNCHANGED <<old, device, held, big>>

\* The rest of _build_and_upload when no call fails. A full snapshot becomes
\* ready whatever the row said; an incremental one raises.
Finish(w) ==
    LET s == job[w].snap IN
    /\ job[w].pc = "building"
    /\ IF Incremental(w)
       THEN /\ row' = [row EXCEPT ![s] = "failed"]
            /\ job' = [job EXCEPT ![w] = Idle]
            /\ UNCHANGED store
       ELSE /\ row' = [row EXCEPT ![s] = "ready"]
            /\ store' = [store EXCEPT ![s] = "whole"]
            /\ job' = [job EXCEPT ![w] = [Idle EXCEPT !.pc = "built"]]
    /\ UNCHANGED <<old, device, held, big>>

\* pg_dump or an upload fails: run_backup records it in the row.
BuildFails(w) ==
    /\ job[w].pc \in {"pending", "building"}
    /\ row' = [row EXCEPT ![job[w].snap] = "failed"]
    /\ job' = [job EXCEPT ![w] = Idle]
    /\ UNCHANGED <<store, old, device, held, big>>

----------------------------------------------------------------------------
\* Fault: the slice begins one too early.
CandidatesOneEarly(ready) ==
    {s \in ready : Cardinality({t \in ready : t > s}) >= Keep - 1}
\* ready[keep_count:]; without parents nothing else is protected.
Candidates(ready) == ready \ Newest(ready)

\* run_retention_once, after a build or on request: read what is ready.
RetainRead(w) ==
    /\ job[w].pc \in {"idle", "built"}
    /\ job' = [job EXCEPT ![w] =
                IF Cardinality(Ready) <= 1 THEN Idle
                ELSE [Idle EXCEPT !.pc = "choosing", !.todo = Candidates(Ready)]]
    /\ UNCHANGED <<row, store, old, device, held, big>>

\* Fault: every candidate counts as confirmed.
ConsiderUnconfirmed(w) ==
    /\ job[w].pc = "choosing" /\ job[w].todo # {}
    /\ \E s \in job[w].todo :
           /\ \A t \in job[w].todo : t <= s
           /\ job' = [job EXCEPT ![w] =
                [job[w] EXCEPT !.pc = "deleting", !.snap = s, !.todo = job[w].todo \ {s}]]
    /\ UNCHANGED <<row, store, old, device, held, big>>

\* The next candidate, newest first: skipped without an off-site copy.
Consider(w) ==
    /\ job[w].pc = "choosing" /\ job[w].todo # {}
    /\ \E s \in job[w].todo :
           /\ \A t \in job[w].todo : t <= s
           /\ job' = [job EXCEPT ![w] =
                IF OffsiteCopy(s)
                THEN [job[w] EXCEPT !.pc = "deleting", !.snap = s, !.todo = job[w].todo \ {s}]
                ELSE [job[w] EXCEPT !.todo = job[w].todo \ {s}]]
    /\ UNCHANGED <<row, store, old, device, held, big>>

DeleteObjects(w) ==
    /\ job[w].pc = "deleting"
    /\ store' = [store EXCEPT ![job[w].snap] = "none"]
    /\ job' = [job EXCEPT ![w].pc = "unlinking"]
    /\ UNCHANGED <<row, old, device, held, big>>

\* Listing fails, or deleting does half-way: the candidate is skipped.
DeleteObjectsFails(w) ==
    /\ job[w].pc = "deleting"
    /\ \E left \in {store[job[w].snap], "partial"} :
           /\ left = "partial" => store[job[w].snap] # "none"
           /\ store' = [store EXCEPT ![job[w].snap] = left]
    /\ job' = [job EXCEPT ![w] = [job[w] EXCEPT !.pc = "choosing", !.snap = None]]
    /\ UNCHANGED <<row, old, device, held, big>>

\* The audit entry and the row's deletion. They wait for another retention
\* that has deleted the row; once that has committed, the audit entry breaks
\* its foreign key and this retention is rolled back.
DeleteRow(w) ==
    LET s == job[w].snap IN
    /\ job[w].pc = "unlinking"
    /\ \A v \in Workers \ {w} : s \notin Deleting(v)
    /\ job' = [job EXCEPT ![w] =
                IF row[s] = "ready"
                THEN [job[w] EXCEPT !.pc = "choosing", !.snap = None, !.gone = job[w].gone \cup {s}]
                ELSE Idle]
    /\ UNCHANGED <<row, store, old, device, held, big>>

\* The final commit; the confirmations go with the rows.
RetainCommit(w) ==
    /\ job[w].pc = "choosing" /\ job[w].todo = {}
    /\ row' = [s \in Snaps |-> IF s \in Deleting(w) THEN "pruned" ELSE row[s]]
    /\ held' = {h \in held : h[1] \notin Deleting(w)}
    /\ job' = [job EXCEPT ![w] = Idle]
    /\ UNCHANGED <<store, old, device, big>>

\* The process dies; its transaction is rolled back and its lock released.
Die(w) ==
    /\ job[w].pc # "idle"
    /\ job' = [job EXCEPT ![w] = Idle]
    /\ UNCHANGED <<row, store, old, device, held, big>>

----------------------------------------------------------------------------
Register(d) ==
    /\ device[d] = "none"
    /\ device' = [device EXCEPT ![d] = "active"]
    /\ UNCHANGED <<row, store, old, job, held, big>>

Revoke(d) ==
    /\ device[d] = "active"
    /\ device' = [device EXCEPT ![d] = "revoked"]
    /\ UNCHANGED <<row, store, old, job, held, big>>

\* What ack_download answers: it waits for an uncommitted deletion, and then
\* finds no row.
Accepts(s, d) ==
    /\ device[d] = "active"
    /\ row[s] = "ready"
    /\ \A w \in Workers : s \notin Deleting(w)

Ack(s, d) ==
    /\ Accepts(s, d)
    /\ held' = held \cup {<<s, d>>}
    /\ UNCHANGED <<row, store, old, job, device, big>>

Build(w)  == Insert(w) \/ Upload(w) \/ Finish(w) \/ BuildFails(w)
Retain(w) == RetainRead(w) \/ Consider(w) \/ DeleteObjects(w) \/ DeleteObjectsFails(w)
             \/ DeleteRow(w) \/ RetainCommit(w)

ServerNext ==
    \/ \E w \in Workers : Begin(w) \/ Build(w)
    \/ \E w \in Workers : Retain(w)
    \/ \E w \in Workers : Die(w)
    \/ \E s \in Snaps : GrowOld(s)
    \/ DocumentsGrow
    \/ \E d \in Devices : Register(d) \/ Revoke(d)

Next == ServerNext \/ \E s \in Snaps, d \in Devices : Ack(s, d)

Spec == Init /\ [][Next]_vars

\* A build or a retention ends, or its process dies; two hours pass; and the daily
\* tick comes round however often workers are busy.
Fairness ==
    /\ \A w \in Workers :
           WF_vars(job[w].pc # "idle" /\ (Build(w) \/ Retain(w) \/ Die(w)))
    /\ \A s \in Snaps : WF_vars(GrowOld(s))
    /\ SF_vars(\E w \in Workers : Begin(w))

FairSpec == Spec /\ Fairness

----------------------------------------------------------------------------
TypeOK ==
    /\ row \in [Snaps -> RowStatus]
    /\ store \in [Snaps -> {"none", "partial", "whole"}]
    /\ old \subseteq Snaps
    /\ job \in [Workers -> Jobs]
    /\ device \in [Devices -> {"none", "active", "revoked"}]
    /\ held \subseteq Snaps \X Devices
    /\ big \in BOOLEAN

\* The newest Keep snapshots are complete in the bucket, whichever builds and
\* retentions overlapped and wherever a worker died (run_retention_once's
\* window, the order of uploads in _build_and_upload).
WindowIsWhole == \A s \in Newest(Ready) : store[s] = "whole"

\* Objects go only from a snapshot some device confirmed (condition 3 of
\* backup_retention.py).
OnlyConfirmedIsPruned ==
    \A s \in Ready : store[s] # "whole" => \E d \in Devices : <<s, d>> \in held

\* No retention, and no two of them together, takes the last good backup
\* (condition 1 of backup_retention.py).
Good == {s \in Ready : store[s] = "whole"}
GoodBackupRemains == [][Good # {} => Good' # {}]_vars

\* A snapshot whose builder died does not stay unfinished
\* (_demote_stale_snapshots).
BuildsEnd == \A s \in Snaps : row[s] \in Unfinished ~> row[s] \notin Unfinished
============================================================================
