---------------------------- MODULE GcpDatabase ----------------------------
(* The Cloud SQL instance of the GCP deployment, the tables of the database,    *)
(* and the executions of the Cloud Run job db-setup, which creates and loads      *)
(* them from inside the VPC.  An execution keeps the environment that the job     *)
(* had when it was launched, and lives on when the tool that launched it has       *)
(* stopped to look at it.  Rows are numbers, which is the order the sync takes       *)
(* them in; a vector is the column that the loader asks about.                        *)
EXTENDS Integers, Sequences, FiniteSets, FiniteSetsExt

CONSTANTS Csv,          \* the rows of fridge_sales_with_rating.csv
          UserRows,     \* other rows, which users may add
          Passwords,    \* what PGPASSWORD may be
          NoPassword,   \* a secret without a version
          MaxCalls      \* bound: how often users change a row

ASSUME RowsAssumption == /\ IsFiniteSet(Csv) /\ IsFiniteSet(UserRows)
                         /\ Csv \cup UserRows \subseteq Nat
                         /\ Csv # {} /\ Csv \cap UserRows = {}
ASSUME PasswordsAssumption == NoPassword \notin Passwords
ASSUME CallsAssumption == MaxCalls \in Nat

VARIABLES sql,                    \* the instance: none, up or deleting
          password, secret,       \* of the instance, and in Secret Manager
          tables, raw, emb, vec,  \* fru_sales_raw, fru_sales_embeddings, the rows with a vector
          execs,                  \* the executions, oldest first
          lines,                  \* the counts that a reader of the logs may still find
          upset, deleted,         \* history, see below
          calls                   \* how often users have changed a row

dataVars == <<tables, raw, emb, vec, upset, deleted, calls>>
dbVars == <<sql, password, secret, tables, raw, emb, vec, execs, lines, upset, deleted, calls>>

(* Until a load has made the database whole.  upset: a user's row came before any row  *)
(* to search for, or a load had no credentials for a vector.  deleted: the rows of the  *)
(* file that users have deleted.                                                         *)

Rows == Csv \cup UserRows
Modes == {"load", "force", "verify"}
Expected == Cardinality(Csv)

(* asked: whether the deploy that launched it was one with --force-refresh-data. *)
Execution(mode, asked) ==
  [mode |-> mode, asked |-> asked, at |-> "start", todo |-> {}, bad |-> FALSE]

Ended(e) == e.at \in {"succeeded", "failed"}

DbTypeOK ==
  /\ sql \in {"none", "up", "deleting"}
  /\ password \in Passwords /\ secret \in Passwords \cup {NoPassword}
  /\ tables \subseteq {"raw", "emb"} /\ raw \subseteq Rows /\ vec \subseteq emb /\ emb \subseteq Rows
  /\ lines \subseteq 0..Cardinality(Rows) /\ upset \in BOOLEAN
  /\ deleted \subseteq Csv /\ calls \in 0..MaxCalls
  /\ execs \in Seq([mode : Modes, asked : BOOLEAN, todo : SUBSET Rows, bad : BOOLEAN,
                    at : {"start", "dropEmb", "dropRaw", "schema", "raw", "embed", "sync",
                          "count", "succeeded", "failed"}])

DbInit ==
  /\ sql = "none" /\ password \in Passwords /\ secret = NoPassword
  /\ tables = {} /\ raw = {} /\ emb = {} /\ vec = {}
  /\ execs = << >> /\ lines = {} /\ upset = FALSE /\ deleted = {} /\ calls = 0

-----------------------------------------------------------------------------
(* One execution.  At every step it may die: of an error, of a lost connection,  *)
(* of the timeout of its task, or because the instance is gone; the transaction     *)
(* that it is in goes with it.                                                       *)

At(i, step) == execs[i].at = step
Go(i, step) == execs' = [execs EXCEPT ![i].at = step]
End(i, how) == execs' = [execs EXCEPT ![i] = [Execution(@.mode, FALSE) EXCEPT !.at = how]]
(* Of the count that it prints, what matters is whether it is the one expected. *)
Emit(i) == End(i, "succeeded") /\ lines' = lines \cup ({Cardinality(emb)} \cap {Expected})

Die(i) == ~Ended(execs[i]) /\ End(i, "failed") /\ UNCHANGED <<sql, password, secret, dataVars, lines>>

Connect(i) ==
  /\ At(i, "start") /\ sql = "up" /\ secret = password
  /\ Go(i, CASE execs[i].mode = "verify" -> "count"
             [] execs[i].mode = "force" -> "dropEmb"
             [] execs[i].mode = "load" -> "schema")
  /\ UNCHANGED <<sql, password, secret, dataVars, lines>>

Count(i) ==
  /\ At(i, "count") /\ "emb" \in tables /\ Emit(i)
  /\ UNCHANGED <<sql, password, secret, dataVars>>

(* Each table is dropped in a transaction of its own; that it fails is only logged. *)
DropEmb(i) ==
  /\ At(i, "dropEmb") /\ Go(i, "dropRaw")
  /\ \/ tables' = tables \ {"emb"} /\ emb' = {} /\ vec' = {}
     \/ UNCHANGED <<tables, emb, vec>>
  /\ UNCHANGED <<sql, password, secret, raw, lines, upset, deleted, calls>>

DropRaw(i) ==
  /\ At(i, "dropRaw") /\ Go(i, "schema")
  /\ \/ tables' = tables \ {"raw"} /\ raw' = {}
     \/ UNCHANGED <<tables, raw>>
  /\ UNCHANGED <<sql, password, secret, emb, vec, lines, upset, deleted, calls>>

ApplySchema(i) ==
  /\ At(i, "schema") /\ Go(i, "raw") /\ tables' = {"raw", "emb"}
  /\ UNCHANGED <<sql, password, secret, raw, emb, vec, lines, upset, deleted, calls>>

LoadRaw(i) ==
  /\ At(i, "raw") /\ "raw" \in tables /\ Go(i, "embed")
  /\ raw' = IF execs[i].mode = "load" /\ raw # {} THEN raw ELSE raw \cup Csv
  /\ UNCHANGED <<sql, password, secret, tables, emb, vec, lines, upset, deleted, calls>>

(* One row with a vector is enough. *)
HasData(i) == execs[i].mode = "load" /\ vec # {}

SkipLoad(i) ==
  /\ At(i, "embed") /\ "emb" \in tables /\ HasData(i) /\ Emit(i)
  /\ UNCHANGED <<sql, password, secret, dataVars>>

CopyScalars(i) ==
  /\ At(i, "embed") /\ tables = {"raw", "emb"} /\ ~HasData(i)
  /\ emb' = emb \cup raw
  /\ execs' = [execs EXCEPT ![i].at = "sync", ![i].todo = emb \cup raw]
  /\ UNCHANGED <<sql, password, secret, tables, raw, vec, lines, upset, deleted, calls>>

(* No profile has credentials: the load writes no vector, warns of it and succeeds. *)
CopyAlone(i) ==
  /\ At(i, "embed") /\ tables = {"raw", "emb"} /\ ~HasData(i)
  /\ emb' = emb \cup raw /\ upset' = TRUE
  /\ Go(i, "sync")
  /\ UNCHANGED <<sql, password, secret, tables, raw, vec, lines, deleted, calls>>

(* The row that UPDATE finds. *)
Written(r) == {r} \cap emb

(* Every vector is written in a transaction of its own, and a failure is counted. *)
SyncRow(i) ==
  LET r == Min(execs[i].todo) IN
  /\ At(i, "sync") /\ execs[i].todo # {}
  /\ \/ /\ "emb" \in tables /\ vec' = vec \cup Written(r)
        /\ execs' = [execs EXCEPT ![i].todo = @ \ {r}]
     \/ /\ execs' = [execs EXCEPT ![i].todo = @ \ {r}, ![i].bad = TRUE]
        /\ UNCHANGED vec
  /\ UNCHANGED <<sql, password, secret, tables, raw, emb, lines, upset, deleted, calls>>

(* What a load is for. *)
Whole == Csv \subseteq raw \cap vec

(* Mutant: the failures are logged, and the load is complete. *)
Complete_Any(i) == TRUE

Complete(i) == ~execs[i].bad

FinishSync(i) ==
  /\ At(i, "sync") /\ execs[i].todo = {} /\ Complete(i) /\ "emb" \in tables /\ Emit(i)
  /\ upset' = (upset /\ ~Whole) /\ deleted' = IF Whole THEN {} ELSE deleted
  /\ UNCHANGED <<sql, password, secret, tables, raw, emb, vec, calls>>

Work(i) ==
  \/ Connect(i) \/ Count(i) \/ DropEmb(i) \/ DropRaw(i) \/ ApplySchema(i) \/ LoadRaw(i)
  \/ SkipLoad(i) \/ CopyScalars(i) \/ CopyAlone(i) \/ SyncRow(i) \/ FinishSync(i)

Execute(i) == Die(i) \/ (sql = "up" /\ Work(i))

-----------------------------------------------------------------------------
(* A user adds or changes a row through the API, which commits the record, then its *)
(* row, then embeds it, and reports what it could not do.                              *)
SaveRow(r) ==
  /\ sql = "up" /\ tables = {"raw", "emb"}
  /\ calls < MaxCalls /\ calls' = calls + 1
  /\ raw' = raw \cup {r}
  /\ \/ emb' = emb \cup {r} /\ vec' \in {vec, vec \cup {r}}
     \/ UNCHANGED <<emb, vec>>
  /\ upset' = (upset \/ emb = {})
  /\ UNCHANGED <<sql, password, secret, tables, execs, lines, deleted>>

(* A user deletes a record, and with it the row and its vectors. *)
DeleteRow(r) ==
  /\ sql = "up" /\ tables = {"raw", "emb"} /\ r \in raw
  /\ calls < MaxCalls /\ calls' = calls + 1
  /\ raw' = raw \ {r} /\ emb' = emb \ {r} /\ vec' = vec \ {r}
  /\ deleted' = deleted \cup ({r} \cap Csv)
  /\ UNCHANGED <<sql, password, secret, tables, execs, lines, upset>>

(* The instance that is being deleted goes, minutes later, when the logs of its past *)
(* are too old to be read.                                                           *)
InstanceGone ==
  /\ sql = "deleting" /\ sql' = "none"
  /\ tables' = {} /\ raw' = {} /\ emb' = {} /\ vec' = {} /\ lines' = {}
  /\ upset' = FALSE /\ deleted' = {}
  /\ UNCHANGED <<password, secret, execs, calls>>
=============================================================================
