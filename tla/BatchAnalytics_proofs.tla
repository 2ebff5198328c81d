------------------------ MODULE BatchAnalytics_proofs ------------------------
(***************************************************************************)
(* What the batch job keeps for any number of overlapping runs, edits of   *)
(* the records and attempts at the overwrite.                              *)
(*                                                                         *)
(* That the snapshot is recent does not follow from what its own run read, *)
(* for the run aggregates whatever is in the Delta table. Overlap is the   *)
(* strengthening: a run under way began no earlier than the floor of every *)
(* other one, so whichever of them overwrites the table keeps it above the *)
(* floors of all (RunOk at "count").                                       *)
(***************************************************************************)
EXTENDS BatchAnalytics, TLAPS

DeltaOk == delta # NoTable => Counts[delta] >= MinRows

StatusOk == status # NoStatus /\ status.exit = "none" =>
    status.saved \/ status.by \in Scheduled

Overlap == \A j, g \in Jobs : Active(j) /\ Active(g) => run[j].floor <= run[g].began

RunOk(j) ==
    /\ Active(j) => run[j].began <= raw
    /\ run[j].pc \in {"write", "commit"} =>
        run[j].began <= run[j].version /\ Counts[run[j].version] >= MinRows
    /\ run[j].pc = "count" => delta # NoTable /\ run[j].floor <= delta
    /\ run[j].pc = "save" =>
        run[j].floor <= run[j].version /\ Counts[run[j].version] >= MinRows
    /\ run[j].pc \in {"saved", "verify"} =>
        /\ run[j].saved
        /\ snapshot # NoSnapshot
        /\ snapshot.by = j => snapshot.version = run[j].version
    /\ run[j].pc = "raised" => run[j].error # "none"

IInv ==
    /\ TypeOK
    /\ DeltaOk
    /\ SnapshotIsRecent
    /\ SnapshotHasRows
    /\ StatusOk
    /\ Overlap
    /\ \A j \in Jobs : RunOk(j)

LEMMA IdleRun == Idle \in Runs
  BY BatchAnalyticsAssumption DEF Idle, Runs, Pcs, Versions

LEMMA RunNat ==
    ASSUME TypeOK, NEW j \in Jobs
    PROVE  run[j].version \in Nat /\ run[j].began \in Nat /\ run[j].floor \in Nat
  <1>1. run[j] \in Runs
    BY DEF TypeOK
  <1> QED BY <1>1 DEF Runs, Versions

LEMMA InitInv == Init => IInv
  <1> SUFFICES ASSUME Init PROVE IInv
    OBVIOUS
  <1>1. TypeOK
    BY IdleRun, BatchAnalyticsAssumption DEF Init, TypeOK, Versions
  <1>2. DeltaOk /\ SnapshotIsRecent /\ SnapshotHasRows /\ StatusOk
    BY DEF Init, DeltaOk, SnapshotIsRecent, SnapshotHasRows, StatusOk
  <1>3. \A j \in Jobs : run[j].pc = "idle"
    BY DEF Init, Idle
  <1>4. Overlap /\ \A j \in Jobs : RunOk(j)
    BY <1>3 DEF Overlap, RunOk, Active
  <1> QED BY <1>1, <1>2, <1>4 DEF IInv

----------------------------------------------------------------------------
\* One job moves on.

LEMMA Moved ==
    ASSUME TypeOK, NEW j \in Jobs, NEW r \in Runs, Become(j, r)
    PROVE  /\ run' \in [Jobs -> Runs]
           /\ run'[j] = r
           /\ \A g \in Jobs \ {j} : run'[g] = run[g]
  BY DEF Become, TypeOK

\* A step of one run that only moves that run, and perhaps records something,
\* leaves the others as they are.
LEMMA MoveInv ==
    ASSUME IInv, NEW j \in Jobs, NEW r \in Runs, Become(j, r),
           UNCHANGED <<raw, delta, snapshot>>,
           status' \in Statuses \union {NoStatus}, StatusOk',
           r.pc \notin {"idle", "exit"} =>
               Active(j) /\ r.began = run[j].began /\ r.floor <= run[j].floor,
           RunOk(j)'
    PROVE  IInv'
  <1>1. TypeOK'
    BY Moved DEF IInv, TypeOK
  <1>2. DeltaOk' /\ SnapshotIsRecent' /\ SnapshotHasRows'
    BY DEF IInv, DeltaOk, SnapshotIsRecent, SnapshotHasRows
  <1>3. ASSUME NEW g \in Jobs PROVE RunOk(g)'
    <2>1. CASE g # j
      <3>1. run'[g] = run[g]
        BY <2>1, Moved DEF IInv
      <3> QED BY <3>1 DEF IInv, RunOk, Active
    <2> QED BY <2>1
  <1>4. Overlap'
    <2>1. SUFFICES ASSUME NEW g \in Jobs, NEW k \in Jobs, Active(g)', Active(k)'
                   PROVE  run'[g].floor <= run'[k].began
      BY DEF Overlap
    <2>2. \A h \in Jobs : Active(h)' =>
              Active(h) /\ run'[h].began = run[h].began /\ run'[h].floor <= run[h].floor
      <3>1. ASSUME NEW h \in Jobs, h # j
            PROVE  run'[h] = run[h] /\ run[h].floor \in Nat
        BY <3>1, Moved, RunNat DEF IInv
      <3>2. run'[j] = r
        BY Moved DEF IInv
      <3> QED BY <3>1, <3>2 DEF Active
    <2>3. run[g].floor <= run[k].began
      BY <2>1, <2>2 DEF IInv, Overlap
    <2>4. run[g].floor \in Nat /\ run[k].began \in Nat
      BY RunNat DEF IInv
    <2>5. run'[g].floor \in Nat
      <3>1. run'[g] \in Runs
        BY <1>1 DEF TypeOK
      <3> QED BY <3>1 DEF Runs, Versions
    <2>6. run'[g].floor <= run[g].floor
      BY <2>1, <2>2
    <2>7. run'[k].began = run[k].began
      BY <2>1, <2>2
    <2> QED BY <2>3, <2>4, <2>5, <2>6, <2>7
  <1> QED BY <1>1, <1>2, <1>3, <1>4 DEF IInv

LEMMA RecordKeeps ==
    ASSUME IInv, NEW j \in Jobs, NEW e \in {"none", "conflict", "other"}, Record(j, e),
           e = "none" => run[j].saved \/ j \in Scheduled
    PROVE  status' \in Statuses \union {NoStatus} /\ StatusOk'
  BY DEF IInv, TypeOK, Record, Statuses, Runs, StatusOk

\* Also where a run has been left, by an exception or at its end.
LEMMA LeaveInv ==
    ASSUME IInv, NEW j \in Jobs, NEW e \in {"none", "conflict", "other"},
           NEW where \in {"raised", "exit"}, Leave(j, where, e), Active(j),
           where = "raised" => e # "none",
           UNCHANGED <<raw, delta, snapshot>>,
           status' \in Statuses \union {NoStatus}, StatusOk'
    PROVE  IInv'
  <1> DEFINE r == [Idle EXCEPT !.pc = where, !.error = e, !.saved = run[j].saved,
                               !.began = run[j].began]
  <1>1. r \in Runs /\ r.pc = where /\ r.error = e /\ r.began = run[j].began /\ r.floor = 0
    BY IdleRun DEF IInv, TypeOK, Runs, Idle, Pcs
  <1>2. Become(j, r)
    BY DEF Leave
  <1>3. run'[j] = r
    BY <1>1, <1>2, Moved DEF IInv
  <1>4. run[j].floor \in Nat /\ run[j].began <= raw
    BY RunNat DEF IInv, RunOk
  <1>5. RunOk(j)'
    BY <1>1, <1>3, <1>4 DEF RunOk
  <1>6. r.floor <= run[j].floor
    BY <1>1, <1>4
  <1> HIDE DEF r
  <1> QED BY <1>1, <1>2, <1>5, <1>6, MoveInv

----------------------------------------------------------------------------
\* The steps.

LEMMA EditInv == ASSUME IInv, Edit PROVE IInv'
  <1>1. TypeOK'
    BY BatchAnalyticsAssumption DEF IInv, TypeOK, Edit, Versions
  <1>2. DeltaOk' /\ SnapshotIsRecent' /\ SnapshotHasRows' /\ StatusOk' /\ Overlap'
    BY DEF IInv, Edit, DeltaOk, SnapshotIsRecent, SnapshotHasRows, StatusOk, Overlap, Active
  <1>3. ASSUME NEW j \in Jobs PROVE RunOk(j)'
    <2>1. run[j].began \in Nat /\ raw \in Nat
      BY RunNat DEF IInv, TypeOK, Versions
    <2>2. Active(j) => run[j].began <= raw + 1
      BY <2>1 DEF IInv, RunOk
    <2> QED BY <2>2 DEF IInv, Edit, RunOk, Active
  <1> QED BY <1>1, <1>2, <1>3 DEF IInv

LEMMA StartInv == ASSUME IInv, NEW j \in Jobs, Start(j) PROVE IInv'
  <1>1. PICK f \in {raw} \union {run[g].began : g \in {k \in Jobs : Active(k)}} :
            /\ f <= raw
            /\ \A g \in Jobs : Active(g) => f <= run[g].began
            /\ Become(j, [Idle EXCEPT !.pc = "read", !.began = raw, !.floor = f])
    BY DEF Start
  <1> DEFINE r == [Idle EXCEPT !.pc = "read", !.began = raw, !.floor = f]
  <1>2. f \in Versions
    BY DEF IInv, TypeOK, Runs
  <1>3. r \in Runs /\ r.pc = "read" /\ r.began = raw /\ r.floor = f
    BY <1>2, IdleRun DEF IInv, TypeOK, Runs, Idle, Pcs
  <1>4. /\ run' \in [Jobs -> Runs]
        /\ run'[j] = r
        /\ \A g \in Jobs \ {j} : run'[g] = run[g]
    BY <1>1, <1>3, Moved DEF IInv
  <1> HIDE DEF r
  <1>5. UNCHANGED <<raw, delta, snapshot, status>> /\ raw \in Nat
    BY BatchAnalyticsAssumption DEF Start, IInv, TypeOK, Versions
  <1>6. TypeOK' /\ DeltaOk' /\ SnapshotIsRecent' /\ SnapshotHasRows' /\ StatusOk'
    BY <1>4, <1>5 DEF IInv, TypeOK, DeltaOk, SnapshotIsRecent, SnapshotHasRows, StatusOk
  <1>7. ASSUME NEW g \in Jobs PROVE RunOk(g)'
    <2>1. CASE g # j
      <3>1. run'[g] = run[g]
        BY <1>4, <2>1
      <3> QED BY <1>5, <3>1 DEF IInv, RunOk, Active
    <2>2. CASE g = j
      BY <1>3, <1>4, <1>5, <2>2 DEF RunOk
    <2> QED BY <2>1, <2>2
  <1>8. Overlap'
    <2>1. SUFFICES ASSUME NEW g \in Jobs, NEW k \in Jobs, Active(g)', Active(k)'
                   PROVE  run'[g].floor <= run'[k].began
      BY DEF Overlap
    <2>2. ASSUME NEW h \in Jobs, h # j, Active(h)'
          PROVE  /\ run'[h] = run[h] /\ Active(h)
                 /\ run[h].floor \in Nat /\ run[h].began \in Nat
                 /\ run[h].floor <= run[h].began /\ run[h].began <= raw
      <3>1. run'[h] = run[h]
        BY <1>4, <2>2
      <3>2. Active(h)
        BY <2>2, <3>1 DEF Active
      <3> QED BY <3>1, <3>2, RunNat DEF IInv, RunOk, Overlap
    <2>3. CASE g = j /\ k = j
      BY <1>1, <1>3, <1>4, <2>3
    <2>4. CASE g = j /\ k # j
      BY <1>1, <1>3, <1>4, <2>1, <2>2, <2>4
    <2>5. CASE g # j /\ k = j
      <3>1. run[g].floor <= raw
        BY <1>5, <2>1, <2>2, <2>5
      <3> QED BY <1>3, <1>4, <2>1, <2>2, <2>5, <3>1
    <2>6. CASE g # j /\ k # j
      BY <2>1, <2>2, <2>6 DEF IInv, Overlap
    <2> QED BY <2>3, <2>4, <2>5, <2>6
  <1> QED BY <1>6, <1>7, <1>8 DEF IInv

LEMMA CommitInv == ASSUME IInv, NEW j \in Jobs, CommitWrite(j) PROVE IInv'
  <1>1. \A g \in Jobs : /\ run'[g] \in Runs
                        /\ run'[g].pc = IF g = j THEN "count" ELSE run[g].pc
                        /\ run'[g].version = run[g].version
                        /\ run'[g].began = run[g].began
                        /\ run'[g].floor = run[g].floor
                        /\ run'[g].error = run[g].error
                        /\ run'[g].saved = run[g].saved
    BY ZenonT(60) DEF CommitWrite, IInv, TypeOK, Runs, Pcs, At
  <1>2. run' \in [Jobs -> Runs]
    BY <1>1 DEF CommitWrite
  <1>3. delta' = run[j].version /\ UNCHANGED <<raw, snapshot, status>>
    BY DEF CommitWrite
  <1>4. /\ run[j].version \in Versions /\ run[j].version # NoTable
        /\ Active(j) /\ run[j].began <= run[j].version
        /\ Counts[run[j].version] >= MinRows
    BY BatchAnalyticsAssumption DEF CommitWrite, IInv, TypeOK, Runs, RunOk, At, Active
  <1>5. TypeOK' /\ DeltaOk' /\ SnapshotIsRecent' /\ SnapshotHasRows' /\ StatusOk'
    BY <1>2, <1>3, <1>4 DEF IInv, TypeOK, DeltaOk, SnapshotIsRecent, SnapshotHasRows, StatusOk
  <1>6. Overlap'
    <2>1. \A g \in Jobs : Active(g)' => Active(g)
      BY <1>1, <1>4 DEF Active
    <2> QED BY <1>1, <2>1 DEF IInv, Overlap
  <1>7. ASSUME NEW g \in Jobs PROVE RunOk(g)'
    <2>1. Active(g) => run[g].floor <= run[j].version
      <3>1. Active(g) => run[g].floor <= run[j].began
        BY <1>4 DEF IInv, Overlap
      <3>2. run[g].floor \in Nat /\ run[j].began \in Nat /\ run[j].version \in Nat
        BY RunNat DEF IInv
      <3> QED BY <1>4, <3>1, <3>2
    <2>2. run'[g].pc = "count" => run'[g].floor <= delta' /\ delta' # NoTable
      BY <1>1, <1>3, <1>4, <2>1 DEF Active
    <2>3. RunOk(g)
      BY DEF IInv
    <2> QED BY <1>1, <1>3, <1>4, <2>2, <2>3 DEF RunOk, Active
  <1> QED BY <1>2, <1>5, <1>6, <1>7 DEF IInv

LEMMA WriteInv ==
    ASSUME IInv, NEW j \in Jobs,
           ReadRaw(j) \/ BeginWrite(j) \/ RetryWrite(j) \/ Aggregate(j)
    PROVE  IInv'
  <1>1. PICK r \in Runs :
            /\ Become(j, r) /\ r.pc \in {"write", "commit", "save"}
            /\ r.began = run[j].began /\ r.floor = run[j].floor
            /\ r.pc # "save" => r.began <= r.version
            /\ r.pc = "save" => r.floor <= r.version
            /\ Counts[r.version] >= MinRows
    <2>1. run[j] \in Runs /\ RunOk(j)
      BY DEF IInv, TypeOK
    <2>2. CASE ReadRaw(j)
      <3> DEFINE r == [run[j] EXCEPT !.version = raw, !.pc = "write"]
      <3>1. r \in Runs /\ r.pc = "write" /\ r.version = raw /\ r.began = run[j].began
            /\ r.floor = run[j].floor
        BY <2>1 DEF IInv, TypeOK, Runs, Pcs
      <3>2. Become(j, r) /\ Counts[raw] >= MinRows /\ Active(j)
        BY <2>2 DEF ReadRaw, At, Active
      <3> HIDE DEF r
      <3> QED BY <2>1, <3>1, <3>2 DEF RunOk
    <2>3. CASE BeginWrite(j)
      <3> DEFINE r == [run[j] EXCEPT !.pc = "commit", !.conflict = FALSE]
      <3>1. r \in Runs /\ r.pc = "commit" /\ r.version = run[j].version
            /\ r.began = run[j].began /\ r.floor = run[j].floor
        BY <2>1 DEF Runs, Pcs
      <3>2. Become(j, r) /\ run[j].pc = "write"
        BY <2>3 DEF BeginWrite, At
      <3> HIDE DEF r
      <3> QED BY <2>1, <3>1, <3>2 DEF RunOk
    <2>4. CASE RetryWrite(j)
      <3> DEFINE r == [run[j] EXCEPT !.pc = "write", !.attempt = @ + 1]
      <3>1. run[j].attempt + 1 \in 1..MaxAttempts
        BY <2>1, <2>4, BatchAnalyticsAssumption DEF RetryWrite, Runs
      <3>2. r \in Runs /\ r.pc = "write" /\ r.version = run[j].version
            /\ r.began = run[j].began /\ r.floor = run[j].floor
        BY <2>1, <3>1 DEF Runs, Pcs
      <3>3. Become(j, r) /\ run[j].pc = "commit"
        BY <2>4 DEF RetryWrite, At
      <3> HIDE DEF r
      <3> QED BY <2>1, <3>2, <3>3 DEF RunOk
    <2>5. CASE Aggregate(j)
      <3> DEFINE r == [run[j] EXCEPT !.version = delta, !.attempt = 1, !.pc = "save"]
      <3>1. delta \in Versions /\ run[j].floor <= delta /\ Counts[delta] >= MinRows
        BY <2>1, <2>5 DEF Aggregate, At, RunOk, IInv, TypeOK, DeltaOk
      <3>2. 1 \in 1..MaxAttempts
        BY BatchAnalyticsAssumption
      <3>3. r \in Runs /\ r.pc = "save" /\ r.version = delta
            /\ r.began = run[j].began /\ r.floor = run[j].floor
        BY <2>1, <3>1, <3>2 DEF Runs, Pcs
      <3>4. Become(j, r)
        BY <2>5 DEF Aggregate
      <3> HIDE DEF r
      <3> QED BY <3>1, <3>3, <3>4
    <2> QED BY <2>2, <2>3, <2>4, <2>5
  <1>2. Active(j) /\ UNCHANGED <<raw, delta, snapshot, status>>
    BY DEF ReadRaw, BeginWrite, RetryWrite, Aggregate, At, Active
  <1>3. run'[j] = r
    BY <1>1, Moved DEF IInv
  <1>4. RunOk(j)'
    <2>1. run[j].began <= raw
      BY <1>2 DEF IInv, RunOk
    <2> QED BY <1>1, <1>2, <1>3, <2>1 DEF RunOk
  <1>5. status' \in Statuses \union {NoStatus} /\ StatusOk' /\ r.floor <= run[j].floor
    BY <1>1, <1>2, RunNat DEF IInv, TypeOK, StatusOk
  <1> QED BY <1>1, <1>2, <1>4, <1>5, MoveInv

LEMMA SaveInv == ASSUME IInv, NEW j \in Jobs, Save(j) PROVE IInv'
  <1> DEFINE r == [run[j] EXCEPT !.pc = "saved", !.saved = TRUE]
  <1>1. run[j] \in Runs
    BY DEF IInv, TypeOK
  <1>2. r \in Runs
    BY <1>1 DEF Runs, Pcs
  <1>3. /\ r.pc = "saved" /\ r.saved /\ r.version = run[j].version
        /\ r.began = run[j].began /\ r.floor = run[j].floor
    BY <1>1 DEF Runs
  <1>4. /\ Become(j, r) /\ Active(j) /\ UNCHANGED <<raw, delta, status>>
        /\ snapshot' = [by |-> j, version |-> run[j].version, floor |-> run[j].floor]
    BY DEF Save, At, Active
  <1> HIDE DEF r
  <1>5. /\ run' \in [Jobs -> Runs]
        /\ run'[j] = r
        /\ \A g \in Jobs \ {j} : run'[g] = run[g]
    BY <1>2, <1>4, Moved DEF IInv
  <1>6. snapshot' \in Snapshots /\ snapshot' # NoSnapshot
    BY <1>1, <1>4 DEF Snapshots, Runs, NoSnapshot
  <1>7. run[j].floor <= run[j].version /\ Counts[run[j].version] >= MinRows
    BY DEF Save, At, IInv, RunOk
  <1>8. TypeOK' /\ DeltaOk' /\ StatusOk'
    BY <1>4, <1>5, <1>6 DEF IInv, TypeOK, DeltaOk, StatusOk
  <1>9. SnapshotIsRecent' /\ SnapshotHasRows'
    BY <1>4, <1>7 DEF SnapshotIsRecent, SnapshotHasRows
  <1>10. Overlap'
    <2>1. \A g \in Jobs : /\ Active(g)' => Active(g)
                          /\ run'[g].floor = run[g].floor
                          /\ run'[g].began = run[g].began
      BY <1>3, <1>4, <1>5 DEF Active
    <2> QED BY <2>1 DEF IInv, Overlap
  <1>11. ASSUME NEW g \in Jobs PROVE RunOk(g)'
    <2>1. CASE g # j
      <3>1. run'[g] = run[g] /\ RunOk(g)
        BY <1>5, <2>1 DEF IInv
      <3>2. snapshot'.by # g /\ snapshot' # NoSnapshot
        BY <1>4, <1>6, <2>1
      <3> QED BY <1>4, <3>1, <3>2 DEF RunOk, Active
    <2>2. CASE g = j
      <3>1. run[j].began <= raw
        BY <1>4 DEF IInv, RunOk
      <3>2. snapshot'.version = run'[j].version
        BY <1>3, <1>4, <1>5
      <3> QED BY <1>3, <1>4, <1>5, <1>6, <2>2, <3>1, <3>2 DEF RunOk
    <2> QED BY <2>1, <2>2
  <1> QED BY <1>5, <1>8, <1>9, <1>10, <1>11 DEF IInv

LEMMA AfterSaveInv ==
    ASSUME IInv, NEW j \in Jobs, SaveFails(j) \/ RecordSaved(j)
    PROVE  IInv'
  <1>1. PICK where \in {"unsaved", "verify"} :
            /\ Goto(j, where)
            /\ where = "verify" => At(j, "saved")
    BY DEF SaveFails, RecordSaved
  <1> DEFINE r == [run[j] EXCEPT !.pc = where]
  <1>2. run[j] \in Runs
    BY DEF IInv, TypeOK
  <1>3. r \in Runs
    BY <1>2 DEF Runs, Pcs
  <1>4. /\ r.pc = where /\ r.version = run[j].version /\ r.saved = run[j].saved
        /\ r.began = run[j].began /\ r.floor = run[j].floor
    BY <1>2 DEF Runs
  <1>5. Active(j) /\ UNCHANGED <<raw, delta, snapshot>>
    BY DEF SaveFails, RecordSaved, At, Active
  <1>6. Become(j, r)
    BY <1>1 DEF Goto
  <1> HIDE DEF r
  <1>7. run'[j] = r
    BY <1>3, <1>6, Moved DEF IInv
  <1>8. RunOk(j)'
    BY <1>1, <1>4, <1>5, <1>7 DEF IInv, RunOk, At
  <1>9. status' \in Statuses \union {NoStatus} /\ StatusOk'
    <2>1. CASE SaveFails(j)
      BY <2>1 DEF SaveFails, IInv, TypeOK, StatusOk
    <2>2. CASE RecordSaved(j)
      <3>1. run[j].saved
        BY <2>2 DEF RecordSaved, At, IInv, RunOk
      <3> QED BY <2>2, <3>1, RecordKeeps DEF RecordSaved
    <2> QED BY <2>1, <2>2
  <1>10. r.floor <= run[j].floor
    BY <1>4, RunNat DEF IInv
  <1> QED BY <1>3, <1>4, <1>5, <1>6, <1>8, <1>9, <1>10, MoveInv

LEMMA LeavesInv ==
    ASSUME IInv, NEW j \in Jobs,
           \/ TooFewRows(j) \/ GiveUpWrite(j) \/ JobRaises(j) \/ SelfCheckFails(j)
           \/ SelfCheck(j) \/ Killed(j) \/ RecordUnsaved(j) \/ RecordRaise(j)
    PROVE  IInv'
  <1>1. CASE TooFewRows(j) \/ GiveUpWrite(j) \/ JobRaises(j) \/ SelfCheckFails(j)
    <2>1. PICK e \in {"conflict", "other"} : Leave(j, "raised", e)
      BY <1>1 DEF TooFewRows, GiveUpWrite, JobRaises, SelfCheckFails, Raise
    <2>2. Active(j) /\ UNCHANGED <<raw, delta, snapshot, status>>
      BY <1>1 DEF TooFewRows, GiveUpWrite, JobRaises, SelfCheckFails, At, Active
    <2>3. status' \in Statuses \union {NoStatus} /\ StatusOk'
      BY <2>2 DEF IInv, TypeOK, StatusOk
    <2> QED BY <2>1, <2>2, <2>3, LeaveInv
  <1>2. CASE SelfCheck(j) \/ Killed(j)
    <2>1. PICK e \in {"none", "other"} : Leave(j, "exit", e)
      BY <1>2 DEF SelfCheck, Killed, Finish
    <2>2. Active(j) /\ UNCHANGED <<raw, delta, snapshot, status>>
      BY <1>2 DEF SelfCheck, Killed, At, Active
    <2>3. status' \in Statuses \union {NoStatus} /\ StatusOk'
      BY <2>2 DEF IInv, TypeOK, StatusOk
    <2> QED BY <2>1, <2>2, <2>3, LeaveInv
  <1>3. CASE RecordUnsaved(j)
    <2>1. Leave(j, "exit", "none") /\ Active(j) /\ UNCHANGED <<raw, delta, snapshot>>
      BY <1>3 DEF RecordUnsaved, Finish, At, Active
    <2>2. status' \in Statuses \union {NoStatus} /\ StatusOk'
      BY <1>3, RecordKeeps DEF RecordUnsaved
    <2> QED BY <2>1, <2>2, LeaveInv
  <1>4. CASE RecordRaise(j)
    <2>1. /\ Leave(j, "exit", run[j].error) /\ Active(j)
          /\ UNCHANGED <<raw, delta, snapshot>>
      BY <1>4 DEF RecordRaise, Finish, At, Active
    <2>2. run[j].error \in {"none", "conflict", "other"} /\ run[j].error # "none"
      BY <1>4 DEF RecordRaise, At, IInv, TypeOK, Runs, RunOk
    <2>3. status' \in Statuses \union {NoStatus} /\ StatusOk'
      BY <1>4, <2>2, RecordKeeps DEF RecordRaise
    <2> QED BY <2>1, <2>2, <2>3, LeaveInv
  <1> QED BY <1>1, <1>2, <1>3, <1>4

LEMMA EndInv ==
    ASSUME IInv, NEW j \in Jobs, Exit(j) \/ SchedulerRecords(j)
    PROVE  IInv'
  <1>1. Become(j, Idle) /\ UNCHANGED <<raw, delta, snapshot>>
    BY DEF Exit, SchedulerRecords
  <1>2. Idle.pc = "idle"
    BY DEF Idle
  <1>3. RunOk(j)'
    <2>1. run'[j].pc = "idle"
      BY <1>1, <1>2, IdleRun, Moved DEF IInv
    <2> QED BY <2>1 DEF RunOk, Active
  <1>4. status' \in Statuses \union {NoStatus} /\ StatusOk'
    <2>1. CASE Exit(j)
      BY <2>1 DEF Exit, IInv, TypeOK, StatusOk
    <2>2. CASE SchedulerRecords(j)
      <3>1. PICK e \in {run[j].error, "other"} : Record(j, e)
        BY <2>2 DEF SchedulerRecords
      <3>2. e \in {"none", "conflict", "other"} /\ j \in Scheduled
        BY <2>2 DEF SchedulerRecords, IInv, TypeOK, Runs
      <3> QED BY <3>1, <3>2, RecordKeeps
    <2> QED BY <2>1, <2>2
  <1> QED BY <1>1, <1>2, <1>3, <1>4, IdleRun, MoveInv

LEMMA StepInv == IInv /\ [Next]_vars => IInv'
  <1> SUFFICES ASSUME IInv, [Next]_vars PROVE IInv'
    OBVIOUS
  <1>1. CASE UNCHANGED vars
    BY <1>1 DEF IInv, vars, TypeOK, DeltaOk, SnapshotIsRecent, SnapshotHasRows, StatusOk,
                Overlap, RunOk, Active
  <1>2. CASE Edit
    BY <1>2, EditInv
  <1>3. ASSUME NEW j \in Jobs, Start(j) \/ JobStep(j) \/ Killed(j)
        PROVE  IInv'
    BY <1>3, StartInv, CommitInv, WriteInv, SaveInv, AfterSaveInv, LeavesInv, EndInv DEF JobStep
  <1> QED BY <1>1, <1>2, <1>3 DEF Next

LEMMA Invariance == Spec => []IInv
  BY InitInv, StepInv, PTL DEF Spec

----------------------------------------------------------------------------
\* The model's variables keep their types.
THEOREM TypeCorrect == Spec => []TypeOK
  BY Invariance, PTL DEF IInv

\* Whatever runs overlap, conflict and overwrite each other's table, the snapshot
\* on show is at least as new as the records were when the oldest run under way
\* with its own began.
THEOREM SnapshotsAreRecent == Spec => []SnapshotIsRecent
  BY Invariance, PTL DEF IInv

\* No snapshot is made of a table that has been emptied.
THEOREM SnapshotsHaveRows == Spec => []SnapshotHasRows
  BY Invariance, PTL DEF IInv

\* Both together: what the panel shows of a snapshot is recent and has rows.
THEOREM SnapshotsAreSound == Spec => []SnapshotIsSound
  BY SnapshotsAreRecent, SnapshotsHaveRows, PTL DEF SnapshotIsSound

\* A fresh snapshot shows without a warning only after an attempt that saved one,
\* or one that the local scheduler recorded.
THEOREM OkIsSaved == Spec => []OkMeansSaved
  <1>1. IInv => OkMeansSaved
    <2>1. TypeOK => (status # NoStatus => status.exit \in {"none", "conflict", "other"})
      BY DEF TypeOK, Statuses
    <2> QED BY <2>1 DEF IInv, StatusOk, OkMeansSaved, Severity
  <1> QED BY <1>1, Invariance, PTL

\* Where no job is run by the local scheduler, as in the clouds, it shows so only
\* after an attempt that saved: the model-checked exception is the scheduler's.
THEOREM ErrorsSurface == ASSUME Scheduled = {} PROVE Spec => []ErrorIsSurfaced
  <1>1. OkMeansSaved => ErrorIsSurfaced
    BY DEF OkMeansSaved, ErrorIsSurfaced
  <1> QED BY <1>1, OkIsSaved, PTL

\* The self-check of a run never fails on the snapshot the run has added.
THEOREM OwnChecksHold == Spec => OwnCheckHolds
  <1>1. IInv /\ [Next]_vars =>
            [\A j \in Jobs : SelfCheckFails(j) => run[j].saved /\ snapshot.by # j]_vars
    <2> SUFFICES ASSUME IInv, NEW j \in Jobs, SelfCheckFails(j)
                 PROVE  run[j].saved /\ snapshot.by # j
      OBVIOUS
    <2>1. At(j, "verify") /\ ~Verified(j)
      BY DEF SelfCheckFails
    <2> QED BY <2>1 DEF At, Verified, IInv, RunOk
  <1> QED BY <1>1, Invariance, PTL DEF Spec, OwnCheckHolds
=============================================================================
