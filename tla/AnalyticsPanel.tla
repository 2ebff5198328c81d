---------------------------- MODULE AnalyticsPanel ----------------------------
(***************************************************************************)
(* components/BatchAnalyticsPanel.tsx of core_app/frontend and GET         *)
(* /analytics (core_app/backend/api/app.py), which it asks when it opens,  *)
(* at every interval and when its button is pressed. The panel is one      *)
(* function component, so what it has fetched goes when it is closed.      *)
(*                                                                         *)
(* JavaScript runs one handler at a time, and React batches what a handler *)
(* sets up to its next await: each such piece is an action. Nothing keeps  *)
(* requests apart: the interval asks while an earlier one is under way.    *)
(*                                                                         *)
(* A snapshot is its rank among the rows of batch_analytics, 0 for none;   *)
(* which of the many failures an answer stands for is left out, as the     *)
(* panel treats them alike.                                                *)
(***************************************************************************)
EXTENDS Naturals, Sequences, SequencesExt

CONSTANTS
    MaxSnapshot,    \* bound on the rows of batch_analytics
    MaxGets,        \* bound on the requests under way at one time
    MaxFaults,      \* bound on what fails while the panel is open
    NoData

ASSUME AnalyticsAssumption == MaxSnapshot \in Nat /\ MaxGets \in Nat \ {0}

VARIABLES
    batch,          \* the latest snapshot and the row of analytics_run_status
    panel,          \* the state of the component
    gets,           \* its requests under way, in the order they were sent
    faults,
    newest          \* history: the latest snapshot it has shown

analyticsVars == <<batch, panel, gets, faults, newest>>

Batch == [snapshot : 0..MaxSnapshot, status : {"never", "ok", "failed"}]

\* overlapped (history): another answer arrived while this one was under way.
Gets == [pc : {"sent", "row", "answered", "failed"}, answer : Batch, overlapped : BOOLEAN]

AnalyticsTypeOK ==
    /\ batch \in Batch
    /\ panel.data \in Batch \union {NoData}
    /\ \A i \in DOMAIN gets : gets[i] \in Gets
    /\ Len(gets) <= MaxGets
    /\ panel.data # NoData => panel.hasLoaded /\ ~panel.error /\ panel.data.snapshot > 0
    /\ ~panel.mounted => gets = <<>>

NoBatch == [snapshot |-> 0, status |-> "never"]
Sent == [pc |-> "sent", answer |-> NoBatch, overlapped |-> FALSE]
Closed == [mounted |-> FALSE, data |-> NoData, loading |-> FALSE, refreshing |-> FALSE,
           error |-> FALSE, hasLoaded |-> FALSE]

AnalyticsClosed ==
    /\ batch = NoBatch
    /\ panel = Closed
    /\ gets = <<>>
    /\ faults = 0
    /\ newest = 0

\* The component is mounted: its effect asks for the first time and sets the
\* interval. What the jobs did while nobody looked is chosen here.
OpenAnalytics ==
    /\ batch' \in {b \in Batch : b.snapshot < MaxSnapshot}
    /\ panel' = [Closed EXCEPT !.mounted = TRUE, !.loading = TRUE]
    /\ gets' = <<Sent>>
    /\ UNCHANGED <<faults, newest>>

\* It is unmounted: the interval is cleared, and answers still to come are
\* dropped.
CloseAnalytics ==
    /\ batch' = NoBatch
    /\ panel' = Closed
    /\ gets' = <<>>
    /\ faults' = 0
    /\ newest' = 0

----------------------------------------------------------------------------
\* The batch job adds a row, and records its attempt in a transaction of its own
\* (save_analytics_to_db).
SnapshotAdded ==
    /\ panel.mounted
    /\ batch.snapshot < MaxSnapshot
    /\ batch' = [batch EXCEPT !.snapshot = @ + 1]
    /\ UNCHANGED <<panel, gets, faults, newest>>

\* (record_run_attempt). A bound: after a success no other attempt follows.
AttemptRecorded ==
    /\ panel.mounted
    /\ batch.status # "ok"
    /\ \E s \in {"ok", "failed"} \ {batch.status} : batch' = [batch EXCEPT !.status = s]
    /\ UNCHANGED <<panel, gets, faults, newest>>

----------------------------------------------------------------------------
\* get_analytics: two reads on two connections.

\* Mutant: without ORDER BY created_at DESC.
ReadSnapshot_AnyRow(i) ==
    /\ gets[i].pc = "sent"
    /\ \E n \in 0..batch.snapshot :
        /\ n = 0 <=> batch.snapshot = 0
        /\ gets' = [gets EXCEPT ![i].answer.snapshot = n,
                                ![i].pc = IF n = 0 THEN "failed" ELSE "row"]
    /\ UNCHANGED <<batch, panel, faults, newest>>

\* Without a row the answer is an error, sent with 200.
ReadSnapshot(i) ==
    /\ gets[i].pc = "sent"
    /\ gets' = [gets EXCEPT ![i].answer.snapshot = batch.snapshot,
                            ![i].pc = IF batch.snapshot = 0 THEN "failed" ELSE "row"]
    /\ UNCHANGED <<batch, panel, faults, newest>>

ReadStatus(i) ==
    /\ gets[i].pc = "row"
    /\ gets' = [gets EXCEPT ![i].answer.status = batch.status, ![i].pc = "answered"]
    /\ UNCHANGED <<batch, panel, faults, newest>>

\* fetch_run_status returns None for whatever goes wrong: the answer is then the
\* one of a job that never ran.
StatusUnread(i) ==
    /\ gets[i].pc = "row"
    /\ faults < MaxFaults
    /\ faults' = faults + 1
    /\ gets' = [gets EXCEPT ![i].pc = "answered"]
    /\ UNCHANGED <<batch, panel, newest>>

\* No connection, a variable that is not set (500), the page that the CDN serves
\* instead of an answer, or none at all.
GetFails(i) ==
    /\ gets[i].pc \in {"sent", "row"}
    /\ faults < MaxFaults
    /\ faults' = faults + 1
    /\ gets' = [gets EXCEPT ![i].pc = "failed"]
    /\ UNCHANGED <<batch, panel, newest>>

----------------------------------------------------------------------------
\* fetchAnalytics, up to its await: hasLoadedRef tells the first load from
\* another, and the last error goes.
FetchAnalytics ==
    /\ Len(gets) < MaxGets
    /\ panel' = [panel EXCEPT !.loading = @ \/ ~panel.hasLoaded,
                              !.refreshing = @ \/ panel.hasLoaded, !.error = FALSE]
    /\ gets' = Append(gets, Sent)
    /\ UNCHANGED <<batch, faults, newest>>

\* Mutant: the interval asks only until something is on show.
Poll_UntilLoaded ==
    /\ panel.mounted
    /\ panel.data = NoData
    /\ FetchAnalytics

\* setInterval(fetchAnalytics, pollIntervalMs).
Poll ==
    /\ panel.mounted
    /\ FetchAnalytics

\* What is rendered has the button with data or with an error, and it is disabled
\* while refreshing.
Reload ==
    /\ panel.mounted
    /\ panel.data # NoData \/ (panel.error /\ ~panel.loading)
    /\ ~panel.refreshing
    /\ FetchAnalytics

Rest(i) == [k \in DOMAIN RemoveAt(gets, i) |->
                [RemoveAt(gets, i)[k] EXCEPT !.overlapped = TRUE]]

ShowData(i) ==
    /\ gets[i].pc = "answered"
    /\ panel' = [panel EXCEPT !.data = gets[i].answer, !.hasLoaded = TRUE, !.error = FALSE,
                              !.loading = FALSE, !.refreshing = FALSE]
    /\ newest' = IF newest < gets[i].answer.snapshot THEN gets[i].answer.snapshot ELSE newest
    /\ gets' = Rest(i)
    /\ UNCHANGED <<batch, faults>>

\* The early returns and the catch: what was on show is dropped.
ShowError(i) ==
    /\ gets[i].pc = "failed"
    /\ panel' = [panel EXCEPT !.data = NoData, !.error = TRUE,
                              !.loading = FALSE, !.refreshing = FALSE]
    /\ gets' = Rest(i)
    /\ UNCHANGED <<batch, faults, newest>>

Serve == \E i \in DOMAIN gets : ReadSnapshot(i) \/ ReadStatus(i)
Arrive == \E i \in DOMAIN gets : ShowData(i) \/ ShowError(i)

AnalyticsStep ==
    \/ SnapshotAdded \/ AttemptRecorded
    \/ Serve \/ \E i \in DOMAIN gets : StatusUnread(i) \/ GetFails(i)
    \/ Poll \/ Reload \/ Arrive

----------------------------------------------------------------------------
\* The panel never goes back to an older snapshot than it has shown, unless the
\* answer was under way when another one arrived: nothing in fetchAnalytics
\* orders the answers of overlapping requests.
BackOnlyByOverlap ==
    [][panel'.data \notin {NoData, panel.data} /\ panel'.data.snapshot < newest
        => \E i \in DOMAIN gets : gets[i].overlapped]_analyticsVars

\* What the server has last is what is on show, or the error when it has none.
Latest == panel.data = (IF batch.snapshot = 0 THEN NoData ELSE batch)
===============================================================================
