----------------------------- MODULE GcpDbSetup -----------------------------
(* setup_database.py of the GCP deploy: the job is updated, executed and polled,  *)
(* and the count of rows is read from its logs.  Whatever raises on the way makes   *)
(* it try again with a job that only counts.                                         *)
EXTENDS GcpDatabase

VARIABLES job,          \* the mode in the environment of the job
          up,           \* the stacks of which there are resources
          force,        \* --force-refresh-data of the deploy under way
          stage,        \* none, full, verify; ok, recovered, failed
          step, cur     \* the next step, and the execution that is polled

setupVars == <<job, stage, step, cur>>

SetupTypeOK ==
  /\ job \in Modes \cup {"none"}
  /\ stage \in {"none", "full", "verify", "ok", "recovered", "failed"}
  /\ step \in {"prepare", "execute", "poll", "read"}
  /\ cur \in 0..Len(execs)

SetupInit == job = "none" /\ stage = "none" /\ step = "prepare" /\ cur = 0

(* Mutant: only a new job gets the mode of the run. *)
ModeSet_Kept(mode) == IF job = "none" \/ mode = "verify" THEN mode ELSE job

(* gcloud run jobs deploy sets the whole environment again. *)
ModeSet(mode) == mode

Wanted == IF stage = "verify" THEN "verify" ELSE IF force THEN "force" ELSE "load"
ConfigReady == sql # "none" /\ {"cooloff", "durable", "nondurable"} \subseteq up

GoTo(s) == step' = s /\ UNCHANGED stage
Finish(how) == stage' = how /\ step' = "prepare" /\ cur' = 0

(* What an exception does: the first time, the job that counts. *)
Raise == Finish(IF stage = "full" THEN "verify" ELSE "failed")

(* The configuration, the image and the update of the job: each may fail, the update *)
(* also after it was done.                                                            *)
Prepare ==
  /\ stage \in {"full", "verify"} /\ step = "prepare"
  /\ \/ ConfigReady /\ job' = ModeSet(Wanted) /\ GoTo("execute") /\ UNCHANGED cur
     \/ ConfigReady /\ job' = ModeSet(Wanted) /\ Raise
     \/ Raise /\ UNCHANGED job
  /\ UNCHANGED dbVars

(* The call may time out with the execution launched. *)
Launch ==
  /\ stage \in {"full", "verify"} /\ step = "execute"
  /\ \/ /\ execs' = Append(execs, Execution(job, force))
        /\ \/ GoTo("poll") /\ cur' = Len(execs')
           \/ Raise
     \/ Raise /\ UNCHANGED execs
  /\ UNCHANGED <<sql, password, secret, dataVars, lines, job>>

(* Mutant: that the job which counts has failed does not matter. *)
Failed_Ignored == IF stage = "verify" THEN GoTo("read") /\ UNCHANGED cur ELSE Raise

(* FAILED raises, except in the job that counts, where it is the answer no. *)
Failed == Raise

(* A status that cannot be read is one to ask for again; a call that does not come *)
(* back raises, and so does the end of the patience, with the job still running.     *)
Poll ==
  /\ stage \in {"full", "verify"} /\ step = "poll"
  /\ \/ At(cur, "succeeded") /\ GoTo("read") /\ UNCHANGED cur
     \/ At(cur, "failed") /\ Failed
     \/ Raise
  /\ UNCHANGED <<dbVars, job>>

(* The log is of the job: the newest line in it may be of any execution, and those *)
(* of the last seconds are not in it yet.                                             *)
Readable(n) == n \in lines

Read ==
  /\ stage \in {"full", "verify"} /\ step = "read"
  /\ \/ Readable(Expected) /\ Finish(IF stage = "full" THEN "ok" ELSE "recovered")
     \/ Finish("failed")
     \/ stage = "full" /\ Raise
  /\ UNCHANGED <<dbVars, job>>

Setup == Prepare \/ Launch \/ Poll \/ Read
=============================================================================
