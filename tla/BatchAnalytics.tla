---------------------------- MODULE BatchAnalytics ----------------------------
(***************************************************************************)
(* The batch job of core_app/analytics/jobs/run_analytics.py with          *)
(* utils/save_to_db.py, and the local scheduler that runs it               *)
(* (tools/local/scheduler_local.py). A run copies fru_sales_raw to a Delta *)
(* table, aggregates that table and adds a snapshot to batch_analytics,    *)
(* whose latest row /analytics serves with the row of analytics_run_status.*)
(* The Kube and the Nonkube scheduler share the three: their runs overlap. *)
(*                                                                         *)
(* A version of fru_sales_raw is a number that grows with every edit; of   *)
(* its content only the number of records matters, Counts. The aggregates  *)
(* of a snapshot stand as the version they were computed from.             *)
(***************************************************************************)
EXTENDS Naturals

CONSTANTS
    Jobs,           \* what may run the job at one time: a CronJob, a rule
    Scheduled,      \* those of them that scheduler_local.py runs
    MaxVersion,     \* bound on the edits of fru_sales_raw
    Counts,         \* the number of records of a version
    MinRows,        \* rows the job asks for: 10
    MaxAttempts,    \* max_attempts of _write_delta_overwrite_with_retry
    NoTable         \* no Delta table yet

Versions == 0..MaxVersion

ASSUME BatchAnalyticsAssumption ==
    /\ Scheduled \subseteq Jobs
    /\ MaxVersion \in Nat
    /\ Counts \in [Versions -> Nat]
    /\ MinRows \in Nat \ {0}
    /\ MaxAttempts \in Nat \ {0}
    /\ NoTable \notin Versions

VARIABLES
    raw,            \* version of fru_sales_raw
    delta,          \* version in the Delta table fru_sales
    snapshot,       \* the latest row of batch_analytics
    status,         \* analytics_run_status
    run             \* the process of each job

vars == <<raw, delta, snapshot, status, run>>

Pcs == {"idle", "read", "write", "commit", "count", "save", "saved", "unsaved",
        "verify", "raised", "exit"}

\* version is what the run has read, and then what it has aggregated; conflict:
\* another overwrite was committed during this one; error: what goes to
\* record_run_attempt, "none" for exit code 0. History: the run has added its
\* snapshot (saved), the version it began with (began), and the oldest that it or
\* a run under way then has begun with (floor).
Runs == [pc : Pcs, version : Versions, attempt : 1..MaxAttempts,
         conflict : BOOLEAN, error : {"none", "conflict", "other"},
         saved : BOOLEAN, began : Versions, floor : Versions]

Idle == [pc |-> "idle", version |-> 0, attempt |-> 1, conflict |-> FALSE,
         error |-> "none", saved |-> FALSE, began |-> 0, floor |-> 0]

NoSnapshot == [version |-> NoTable]
Snapshots == [by : Jobs, version : Versions, floor : Versions]

NoStatus == [exit |-> "never"]
Statuses == [exit : {"none", "conflict", "other"}, by : Jobs, saved : BOOLEAN]

TypeOK ==
    /\ raw \in Versions
    /\ delta \in Versions \union {NoTable}
    /\ snapshot \in Snapshots \union {NoSnapshot}
    /\ status \in Statuses \union {NoStatus}
    /\ run \in [Jobs -> Runs]

Init ==
    /\ raw = 0
    /\ delta = NoTable
    /\ snapshot = NoSnapshot
    /\ status = NoStatus
    /\ run = [j \in Jobs |-> Idle]

At(j, where) == run[j].pc = where
Active(j) == run[j].pc \notin {"idle", "exit"}
Become(j, r) == run' = [run EXCEPT ![j] = r]
Goto(j, where) == Become(j, [run[j] EXCEPT !.pc = where])

\* An exception, or the end of the process: of what it did nothing is left but
\* the error.
Leave(j, where, e) ==
    Become(j, [Idle EXCEPT !.pc = where, !.error = e,
                           !.saved = run[j].saved, !.began = run[j].began])
Raise(j, e) == Leave(j, "raised", e)
Finish(j, e) == Leave(j, "exit", e)

\* record_run_attempt: one row for every job, and a failure to write it is
\* swallowed.
Record(j, e) ==
    \/ status' = [exit |-> e, by |-> j, saved |-> run[j].saved]
    \/ UNCHANGED status

----------------------------------------------------------------------------
\* The /rawdata endpoints change the records meanwhile.
Edit ==
    /\ raw < MaxVersion
    /\ raw' = raw + 1
    /\ UNCHANGED <<delta, snapshot, status, run>>

Start(j) ==
    /\ At(j, "idle")
    /\ \E f \in {raw} \union {run[g].began : g \in {k \in Jobs : Active(k)}} :
        /\ f <= raw
        /\ \A g \in Jobs : Active(g) => f <= run[g].began
        /\ Become(j, [Idle EXCEPT !.pc = "read", !.began = raw, !.floor = f])
    /\ UNCHANGED <<raw, delta, snapshot, status>>

\* Mutant: an existing Delta table is used as it is.
ReadRaw_Existing(j) ==
    /\ At(j, "read")
    /\ Counts[raw] >= MinRows
    /\ Become(j, [run[j] EXCEPT
            !.version = raw, !.pc = IF delta = NoTable THEN "write" ELSE "count"])
    /\ UNCHANGED <<raw, delta, snapshot, status>>

ReadRaw(j) ==
    /\ At(j, "read")
    /\ Counts[raw] >= MinRows
    /\ Become(j, [run[j] EXCEPT !.version = raw, !.pc = "write"])
    /\ UNCHANGED <<raw, delta, snapshot, status>>

TooFewRows(j) ==
    /\ At(j, "read")
    /\ Counts[raw] < MinRows
    /\ Raise(j, "other")
    /\ UNCHANGED <<raw, delta, snapshot, status>>

----------------------------------------------------------------------------
\* The overwrite is a transaction of Delta: it fails when another one was
\* committed since it began.

BeginWrite(j) ==
    /\ At(j, "write")
    /\ Become(j, [run[j] EXCEPT !.pc = "commit", !.conflict = FALSE])
    /\ UNCHANGED <<raw, delta, snapshot, status>>

CommitWrite(j) ==
    /\ At(j, "commit")
    /\ ~run[j].conflict
    /\ delta' = run[j].version
    /\ run' = [g \in Jobs |->
            IF g = j THEN [run[g] EXCEPT !.pc = "count"]
            ELSE [run[g] EXCEPT !.conflict = @ \/ At(g, "commit")]]
    /\ UNCHANGED <<raw, snapshot, status>>

\* The rows are not read again.
RetryWrite(j) ==
    /\ At(j, "commit")
    /\ run[j].conflict
    /\ run[j].attempt < MaxAttempts
    /\ Become(j, [run[j] EXCEPT !.pc = "write", !.attempt = @ + 1])
    /\ UNCHANGED <<raw, delta, snapshot, status>>

GiveUpWrite(j) ==
    /\ At(j, "commit")
    /\ run[j].conflict
    /\ run[j].attempt = MaxAttempts
    /\ Raise(j, "conflict")
    /\ UNCHANGED <<raw, delta, snapshot, status>>

\* What is aggregated is read back from the Delta table, whoever wrote it.
Aggregate(j) ==
    /\ At(j, "count")
    /\ Become(j, [run[j] EXCEPT !.version = delta, !.attempt = 1, !.pc = "save"])
    /\ UNCHANGED <<raw, delta, snapshot, status>>

\* The database cannot be reached in five attempts, Spark or the self-check's
\* query fails.
JobRaises(j) ==
    /\ run[j].pc \in {"read", "commit", "count", "verify"}
    /\ Raise(j, "other")
    /\ UNCHANGED <<raw, delta, snapshot, status>>

----------------------------------------------------------------------------
\* save_analytics_to_db and verify_saved_total_records.

Save(j) ==
    /\ At(j, "save")
    /\ snapshot' = [by |-> j, version |-> run[j].version, floor |-> run[j].floor]
    /\ Become(j, [run[j] EXCEPT !.pc = "saved", !.saved = TRUE])
    /\ UNCHANGED <<raw, delta, status>>

\* Mutant: it returns True.
SaveFails_True(j) ==
    /\ At(j, "save")
    /\ Goto(j, "saved")
    /\ UNCHANGED <<raw, delta, snapshot, status>>

SaveFails(j) ==
    /\ At(j, "save")
    /\ Goto(j, "unsaved")
    /\ UNCHANGED <<raw, delta, snapshot, status>>

RecordSaved(j) ==
    /\ At(j, "saved")
    /\ Record(j, "none")
    /\ Goto(j, "verify")
    /\ UNCHANGED <<raw, delta, snapshot>>

\* Mutant: the self-check whatever save_analytics_to_db returned.
RecordUnsaved_Verify(j) ==
    /\ At(j, "unsaved")
    /\ Record(j, "other")
    /\ Goto(j, "verify")
    /\ UNCHANGED <<raw, delta, snapshot>>

\* The exception ends here: False is returned, and the process exits with 0.
RecordUnsaved(j) ==
    /\ At(j, "unsaved")
    /\ Record(j, "other")
    /\ Finish(j, "none")
    /\ UNCHANGED <<raw, delta, snapshot>>

\* The latest row is compared, whoever added it.
Verified(j) ==
    /\ snapshot # NoSnapshot
    /\ Counts[snapshot.version] = Counts[run[j].version]

SelfCheck(j) ==
    /\ At(j, "verify")
    /\ Verified(j)
    /\ Finish(j, "none")
    /\ UNCHANGED <<raw, delta, snapshot, status>>

SelfCheckFails(j) ==
    /\ At(j, "verify")
    /\ ~Verified(j)
    /\ Raise(j, "other")
    /\ UNCHANGED <<raw, delta, snapshot, status>>

----------------------------------------------------------------------------
\* The end of the process.

RecordRaise(j) ==
    /\ At(j, "raised")
    /\ Record(j, run[j].error)
    /\ Finish(j, run[j].error)
    /\ UNCHANGED <<raw, delta, snapshot>>

\* The container is stopped, or runs out of memory.
Killed(j) ==
    /\ Active(j)
    /\ Finish(j, "other")
    /\ UNCHANGED <<raw, delta, snapshot, status>>

Exit(j) ==
    /\ At(j, "exit")
    /\ j \notin Scheduled
    /\ Become(j, Idle)
    /\ UNCHANGED <<raw, delta, snapshot, status>>

\* _run_analytics_job: only the exit code tells the scheduler how the run went,
\* and the end of stderr may show another error than the one that was raised.
SchedulerRecords(j) ==
    /\ At(j, "exit")
    /\ j \in Scheduled
    /\ \E e \in {run[j].error, "other"} :
        /\ (e = "none") <=> (run[j].error = "none")
        /\ Record(j, e)
    /\ Become(j, Idle)
    /\ UNCHANGED <<raw, delta, snapshot>>

JobStep(j) ==
    \/ ReadRaw(j) \/ TooFewRows(j)
    \/ BeginWrite(j) \/ CommitWrite(j) \/ RetryWrite(j) \/ GiveUpWrite(j)
    \/ Aggregate(j) \/ JobRaises(j)
    \/ Save(j) \/ SaveFails(j) \/ RecordSaved(j) \/ RecordUnsaved(j)
    \/ SelfCheck(j) \/ SelfCheckFails(j)
    \/ RecordRaise(j) \/ Exit(j) \/ SchedulerRecords(j)

Next == Edit \/ \E j \in Jobs : Start(j) \/ JobStep(j) \/ Killed(j)

Spec == Init /\ [][Next]_vars

----------------------------------------------------------------------------
\* build_run_status_ui: the severity /analytics reports with a snapshot that is
\* fresh (younger than two and a half intervals) or not.
Severity(fresh) ==
    IF status.exit = "other" \/ (status.exit = "conflict" /\ ~fresh) THEN "error"
    ELSE IF status.exit = "conflict" \/ ~fresh THEN "warning"
    ELSE "ok"

\* However the runs overlap and retry, and whoever wrote the Delta table last,
\* the snapshot on show is at least as new as the records were when its run, or
\* one that was under way then, began.
SnapshotIsRecent ==
    snapshot # NoSnapshot => snapshot.floor <= snapshot.version

\* A table that has been emptied (fewer than 10 records) never gets to replace
\* the snapshot, even when another run aggregates what this one has written.
SnapshotHasRows == snapshot # NoSnapshot => Counts[snapshot.version] >= MinRows

\* Whichever of the overlapping runs wrote what another one aggregated, the
\* snapshot it makes is neither an old one nor one of an emptied table.
SnapshotIsSound == SnapshotIsRecent /\ SnapshotHasRows

\* A fresh snapshot is shown without a warning only when the attempt recorded
\* last did add one, unless it is the local scheduler that recorded it.
OkMeansSaved ==
    status # NoStatus /\ Severity(TRUE) = "ok" => status.saved \/ status.by \in Scheduled

\* tools/cloud_shared/analytics_run_status.py:4 "so the UI can surface stale
\* snapshots and last Spark/scheduler errors": without the exception above. The
\* local scheduler takes the exit code 0 of a run that could not save for a
\* success, and clears the error that save_analytics_to_db recorded.
ErrorIsSurfaced == status # NoStatus /\ Severity(TRUE) = "ok" => status.saved

\* The self-check of run_analytics.py never fails on the snapshot of its own
\* run: only another job's, added in between, can fail it.
OwnCheckHolds ==
    [][\A j \in Jobs : SelfCheckFails(j) => run[j].saved /\ snapshot.by # j]_vars
=============================================================================
