----------------------------- MODULE AwsDbSetup -----------------------------
(***************************************************************************)
(* setup_database.py of the AWS deploy and the loader it starts, which     *)
(* reach Aurora through the RDS Data API: every statement is a transaction *)
(* of its own, so that whatever stops the set-up leaves what was written   *)
(* by then. That the set-up failed is a warning of the deploy. Whether it  *)
(* is due at all is decided on counts of rows, never on vectors.           *)
(***************************************************************************)
EXTENDS AwsDeploy

CONSTANTS
    Csv,            \* rows of fridge_sales_with_rating.csv, numbered in its order
    MaxCalls        \* bound: how often users change a row of a database

ASSUME CsvAssumption == Csv \in Nat \ {0} /\ MaxCalls \in Nat

VARIABLES
    db,         \* what Aurora holds, see Database
    forced      \* --force-refresh-data of the deploy whose set-up runs

dbVars == <<db, forced>>

Tables == {"raw", "emb"}
File == 1..Csv
User == 0               \* what stands for the rows that users have added
Held == File \union {User}

\* vec: the rows of the file that have their vectors. gone: history, those that
\* users deleted since a load was last whole or the table was dropped. upset: history, see Left.
Database == [tables : SUBSET Tables, raw : SUBSET Held, emb : SUBSET Held, vec : SUBSET File,
             gone : SUBSET File, upset : BOOLEAN, calls : 0..MaxCalls]

NoDatabase == [tables |-> {}, raw |-> {}, emb |-> {}, vec |-> {},
               gone |-> {}, upset |-> FALSE, calls |-> 0]

\* A row is where its table is, and a vector where its row is.
DbTypeOK ==
    /\ db \in Database
    /\ forced \in BOOLEAN
    /\ "raw" \notin db.tables => db.raw = {}
    /\ "emb" \notin db.tables => db.emb = {}
    /\ db.vec \subseteq db.emb

\* Aurora is of the stack durable.
DbFollows == forced' = FALSE /\ db' = IF "vpc" \in alive' THEN db ELSE NoDatabase

\* Whether the database has what it should have of the file, and whether it may
\* seem to.
Wanted(d) == File \ d.gone
Whole(d) == Wanted(d) \subseteq d.raw \intersect d.vec
Misleading(d) ==
    \/ d.emb # {} /\ ~Whole(d)
    \/ d.raw # {} /\ ~(Wanted(d) \subseteq d.raw)

\* What is left when a set-up stops, or users have added a row to an empty table:
\* upset when a table that is not empty lacks something.
Left(d) == [d EXCEPT !.upset = @ \/ Misleading(d)]

\* The set-up raises, which the deploy passes over, or is killed with the deploy.
GiveUp(d) ==
    /\ NextPhase \/ (End("killed") /\ UNCHANGED history)
    /\ db' = Left(d)
    /\ forced' = FALSE

CloudStays == UNCHANGED <<alive, recorded, bucket, outputs, dist, ecs>>

----------------------------------------------------------------------------
\* get_durable_outputs; what ensure_pgvector meets is a warning at most.
BeginSetup ==
    /\ In("start", "database")
    /\ \/ Works /\ bucket /\ outputs /\ Goto("schema") /\ forced' \in BOOLEAN /\ UNCHANGED db
       \/ Works /\ ~(bucket /\ outputs) /\ GiveUp(db)
       \/ Fails /\ GiveUp(db)
    /\ CloudStays

\* Dropping tables takes their rows along.
Changed(gone, made) ==
    [db EXCEPT !.tables = (@ \ gone) \union made,
               !.raw = IF "raw" \in gone THEN {} ELSE @,
               !.emb = IF "emb" \in gone THEN {} ELSE @,
               !.vec = IF "emb" \in gone THEN {} ELSE @,
               !.gone = IF "raw" \in gone THEN {} ELSE @]

Dropped == IF forced THEN Tables ELSE {}

\* init_schema: a table that cannot be dropped or created is passed over, unless
\* the verification misses it; a migration that fails ends the set-up.
InitSchema ==
    /\ In("schema", "database")
    /\ \/ /\ \/ Works /\ db' = Changed(Dropped, Tables)
             \/ Fails /\ \E t \in Dropped : db' = Changed(Dropped \ {t}, Tables)
             \/ Fails /\ db' = Changed(Dropped, {"emb"})
          /\ Goto("count") /\ UNCHANGED forced
       \/ /\ Fails
          /\ \E gone \in SUBSET Dropped, made \in {{}, {"raw"}} : GiveUp(Changed(gone, made))
    /\ CloudStays

\* A table counts as loaded when it has a row; a count that fails is none.
Found(rows) == ~forced /\ rows # {} /\ Works
Missed(rows) ==
    \/ (forced \/ rows = {}) /\ Works
    \/ ~forced /\ Fails

\* load_data.
CountRows ==
    /\ In("count", "database")
    /\ \/ Found(db.emb) /\ Goto("loaded")
       \/ Missed(db.emb) /\ Goto("raw")
    /\ UNCHANGED dbVars
    /\ CloudStays

\* The rows of the file up to n, by an INSERT each.
Inserted(n) == [db EXCEPT !.raw = @ \union (1..n)]

\* load_raw_from_csv.
LoadRaw ==
    /\ In("raw", "database")
    /\ \/ Found(db.raw) /\ Goto("embed") /\ UNCHANGED dbVars
       \/ /\ Missed(db.raw)
          /\ IF "raw" \in db.tables
             THEN db' = Inserted(Csv) /\ Goto("embed") /\ UNCHANGED forced
             ELSE GiveUp(db)
       \/ /\ Fails /\ "raw" \in db.tables
          /\ \E n \in 0..Csv - 1 : GiveUp(Inserted(n))
    /\ CloudStays

\* copy_raw_to_embeddings_scalars_rds, in one statement, after another count.
CopyScalars ==
    /\ In("embed", "database")
    /\ \/ Found(db.emb) /\ Goto("loaded") /\ UNCHANGED dbVars
       \/ /\ Missed(db.emb)
          /\ db' = [db EXCEPT !.emb = @ \union db.raw] /\ Goto("vectors") /\ UNCHANGED forced
       \/ Fails /\ GiveUp(db)
    /\ CloudStays

Embedded(rows) == [db EXCEPT !.vec = @ \union (rows \intersect db.emb \intersect File)]

\* Mutant: what could not be embedded is counted, and the load is done.
SyncVectors_Any ==
    /\ In("vectors", "database")
    /\ Works \/ Fails
    /\ \E rows \in SUBSET File : db' = Embedded(rows)
    /\ Goto("loaded") /\ UNCHANGED forced
    /\ CloudStays

\* A load that is through, and has made the database whole or not.
Synced(d) == [d EXCEPT !.upset = @ /\ ~Whole(d),
                       !.gone = IF File \subseteq d.raw \intersect d.vec THEN {} ELSE @]

\* sync_all_embeddings_rds goes through all the rows; one that could not be
\* embedded, or not written, fails the load in the end. Without credentials for
\* any profile there is nothing to do, which is a warning.
SyncVectors ==
    /\ In("vectors", "database")
    /\ \/ /\ \/ Works /\ db' = Synced(Embedded(File))
             \/ Fails /\ db' = Left(db)
          /\ Goto("loaded") /\ UNCHANGED forced
       \/ Fails /\ \E rows \in SUBSET File : GiveUp(Embedded(rows))
    /\ CloudStays

EndSetup ==
    /\ In("loaded", "database")
    /\ NextPhase
    /\ forced' = FALSE
    /\ UNCHANGED <<db, cloud>>

DbStep ==
    \/ BeginSetup \/ InitSchema \/ CountRows \/ LoadRaw \/ CopyScalars \/ SyncVectors
    \/ EndSetup

\* A user adds or changes a row through the application, which commits the record,
\* then its row, then embeds it; what fails after the record leaves it there.
Saved(r) == [db EXCEPT !.raw = @ \union {r}, !.emb = @ \union {r},
                       !.vec = @ \union ({r} \intersect File), !.calls = @ + 1]
SavedPart(r, tables) ==
    [db EXCEPT !.raw = @ \union {r}, !.emb = IF "emb" \in tables THEN @ \union {r} ELSE @,
               !.calls = @ + 1]

\* A user deletes a record, and with it the row and its vectors.
Deleted(r) ==
    [db EXCEPT !.raw = @ \ {r}, !.emb = @ \ {r}, !.vec = @ \ {r},
               !.gone = @ \union ({r} \intersect File), !.calls = @ + 1]

UserCall ==
    /\ {"ecs", "eks"} \intersect alive # {}
    /\ db.tables = Tables
    /\ db.calls < MaxCalls
    /\ UNCHANGED forced
    /\ UNCHANGED teardownVars
    /\ CloudStays

\* A row that is the first of its table makes the table count as loaded.
Counted(d) == IF {} \in {db.raw, db.emb} THEN Left(d) ELSE d

SaveRow(r) ==
    /\ UserCall
    /\ \/ Works /\ db' = Counted(Saved(r))
       \/ Fails /\ \E tables \in {{"raw"}, Tables} : db' = Counted(SavedPart(r, tables))

DeleteRow(r) ==
    /\ UserCall
    /\ Works
    /\ r \in db.raw
    /\ db' = Deleted(r)
=============================================================================
