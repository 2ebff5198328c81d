----------------------------- MODULE RawDataSync -----------------------------
(***************************************************************************)
(* The /rawdata endpoints and /admin/embeddings/sync of                    *)
(* core_app/backend/api/app.py with backend/services/embedding_sync.py and *)
(* embedding_sync_core.py: the records of fru_sales_raw are copied to      *)
(* fru_sales_embeddings, and their feedback is embedded for every profile  *)
(* that has credentials.                                                   *)
(*                                                                         *)
(* Handlers are threads of the API, each with a connection of its own; an  *)
(* action is one transaction, or one step of one. Of a record stand its    *)
(* feedback and one other column, and a vector stands as the feedback it   *)
(* embeds. The rows of a batch and its profiles are taken in any order.    *)
(***************************************************************************)
EXTENDS Naturals, FiniteSets

CONSTANTS
    Handlers,
    Ids,
    Texts,          \* customer_feedback
    Fields,         \* what another column may hold,
    Falsy,          \* of it 0 or the empty text,
    Default,        \* and what scalar_row_tuple puts in its place
    Vals,           \* bound: the records the requests send
    Absent,         \* no such row
    Null,           \* no vector in the column
    Profiles,       \* embedding_profiles.yaml
    Available,      \* those of them with credentials
    BatchSize       \* batch_size of sync_all_embeddings

Records == [text : Texts, field : Fields]

ASSUME RawDataSyncAssumption ==
    /\ {Falsy, Default} \subseteq Fields
    /\ Vals \subseteq Records
    /\ Absent \notin Records
    /\ Null \notin Texts
    /\ Available \subseteq Profiles
    /\ BatchSize \in Nat \ {0}

VARIABLES
    raw,            \* fru_sales_raw
    emb,            \* fru_sales_embeddings without its vectors
    vec,            \* the vector columns of fru_sales_embeddings
    pc,
    job,            \* the request of a handler
    rest,           \* ids of the batches to come
    todo,           \* what is to be embedded in this batch
    failed,         \* the reply tells of an error or a warning
    aborted,        \* the connection is in a failed transaction
    locked,         \* history: the uncommitted DELETE removed a row
    reported,       \* history: ids whose last request reported a failure
    upsertFailed,   \* history: ids whose last upsert_scalar_row failed
    overlapped      \* history: ids two requests worked on at a time, with no
                    \* POST or PUT that had them for itself since

db == <<raw, emb, vec>>
history == <<reported, upsertFailed, overlapped>>
vars == <<db, pc, job, rest, todo, failed, aborted, locked, history>>

NoJob == [op |-> "none", ids |-> {}, val |-> Absent, force |-> FALSE, profs |-> {}]

Jobs == [op : {"none", "write", "delete", "ids", "all"}, ids : SUBSET Ids,
         val : Vals \union {Absent}, force : BOOLEAN, profs : SUBSET Available]
Tasks == [id : Ids, profile : Available, text : Texts]
Pcs == {"idle", "upsert", "select", "fetch", "embed", "delete", "reply"}

TypeOK ==
    /\ raw \in [Ids -> Vals \union {Absent}]
    /\ emb \in [Ids -> Records \union {Absent}]
    /\ vec \in [Ids -> [Profiles -> Texts \union {Null}]]
    /\ \A i \in Ids : emb[i] = Absent => vec[i] = [p \in Profiles |-> Null]
    /\ pc \in [Handlers -> Pcs]
    /\ job \in [Handlers -> Jobs]
    /\ rest \in [Handlers -> SUBSET Ids]
    /\ todo \in [Handlers -> SUBSET Tasks]
    /\ failed \in [Handlers -> BOOLEAN]
    /\ aborted \in [Handlers -> BOOLEAN]
    /\ locked \in [Handlers -> BOOLEAN]
    /\ reported \subseteq Ids
    /\ upsertFailed \subseteq Ids
    /\ overlapped \subseteq Ids

Init ==
    /\ raw = [i \in Ids |-> Absent]
    /\ emb = [i \in Ids |-> Absent]
    /\ vec = [i \in Ids |-> [p \in Profiles |-> Null]]
    /\ pc = [h \in Handlers |-> "idle"]
    /\ job = [h \in Handlers |-> NoJob]
    /\ rest = [h \in Handlers |-> {}]
    /\ todo = [h \in Handlers |-> {}]
    /\ failed = [h \in Handlers |-> FALSE]
    /\ aborted = [h \in Handlers |-> FALSE]
    /\ locked = [h \in Handlers |-> FALSE]
    /\ reported = {}
    /\ upsertFailed = {}
    /\ overlapped = {}

Goto(h, where) == pc' = [pc EXCEPT ![h] = where]
Fail(h) == failed' = [failed EXCEPT ![h] = TRUE]

\* The records a request works on: "all" may come to any.
Touches(j, i) == j.op = "all" \/ i \in j.ids

Request(h, j) ==
    /\ job' = [job EXCEPT ![h] = j]
    /\ overlapped' = {i \in Ids :
            IF Touches(j, i) /\ \E g \in Handlers \ {h} : Touches(job[g], i) THEN TRUE
            ELSE i \in overlapped /\ ~(j.op = "write" /\ Touches(j, i))}

\* The embeddings row of i is locked by a DELETE that has not committed: who
\* writes it waits.
Waits(h, i) == \E g \in Handlers \ {h} :
    pc[g] = "delete" /\ locked[g] /\ i \in job[g].ids

----------------------------------------------------------------------------
\* POST and PUT: the record is committed first, and on its own.

WriteJob(i, v) ==
    [op |-> "write", ids |-> {i}, val |-> v, force |-> TRUE, profs |-> Available]

Create(h, i, v) ==
    /\ pc[h] = "idle"
    /\ raw' = [raw EXCEPT ![i] = v]
    /\ Request(h, WriteJob(i, v))
    /\ Goto(h, "upsert")
    /\ UNCHANGED <<emb, vec, rest, todo, failed, aborted, locked, reported, upsertFailed>>

\* The update of a missing record is answered 404 and changes nothing.
Update(h, i, v) ==
    /\ pc[h] = "idle"
    /\ raw[i] # Absent
    /\ raw' = [raw EXCEPT ![i] = v]
    /\ Request(h, WriteJob(i, v))
    /\ Goto(h, "upsert")
    /\ UNCHANGED <<emb, vec, rest, todo, failed, aborted, locked, reported, upsertFailed>>

\* scalar_row_tuple: a column that is 0 or empty is taken for missing.
AsRow(v) == IF v.field = Falsy THEN [v EXCEPT !.field = Default] ELSE v

\* upsert_scalar_row: the vectors of a row that is there stay as they are.
Upsert(h, i) ==
    /\ pc[h] = "upsert"
    /\ i \in job[h].ids
    /\ ~Waits(h, i)
    /\ emb' = [emb EXCEPT ![i] = AsRow(job[h].val)]
    /\ rest' = [rest EXCEPT ![h] = job[h].ids]
    /\ upsertFailed' = upsertFailed \ {i}
    /\ Goto(h, "fetch")
    /\ UNCHANGED <<raw, vec, job, todo, failed, aborted, locked, reported, overlapped>>

\* The reply is an error, but the record stays.
UpsertFails(h, i) ==
    /\ pc[h] = "upsert"
    /\ i \in job[h].ids
    /\ ~Waits(h, i)
    /\ upsertFailed' = upsertFailed \union {i}
    /\ Fail(h)
    /\ Goto(h, "reply")
    /\ UNCHANGED <<db, job, rest, todo, aborted, locked, reported, overlapped>>

----------------------------------------------------------------------------
\* DELETE: both deletions in one transaction. Only a row that is there is
\* locked.

\* Mutant: the first of the two deletions is committed.
DeleteEmbedding_Commit(h, i) ==
    /\ pc[h] = "idle"
    /\ ~Waits(h, i)
    /\ Request(h, [NoJob EXCEPT !.op = "delete", !.ids = {i}])
    /\ locked' = [locked EXCEPT ![h] = emb[i] # Absent]
    /\ emb' = [emb EXCEPT ![i] = Absent]
    /\ vec' = [vec EXCEPT ![i] = [p \in Profiles |-> Null]]
    /\ Goto(h, "delete")
    /\ UNCHANGED <<raw, rest, todo, failed, aborted, reported, upsertFailed>>

DeleteEmbedding(h, i) ==
    /\ pc[h] = "idle"
    /\ ~Waits(h, i)
    /\ Request(h, [NoJob EXCEPT !.op = "delete", !.ids = {i}])
    /\ locked' = [locked EXCEPT ![h] = emb[i] # Absent]
    /\ Goto(h, "delete")
    /\ UNCHANGED <<db, rest, todo, failed, aborted, reported, upsertFailed>>

\* No such record: rollback, and 404. A row inserted behind the first deletion
\* is not deleted.
DeleteRaw(h, i) ==
    /\ pc[h] = "delete"
    /\ i \in job[h].ids
    /\ IF raw[i] = Absent
       THEN UNCHANGED db
       ELSE /\ raw' = [raw EXCEPT ![i] = Absent]
            /\ emb' = IF locked[h] THEN [emb EXCEPT ![i] = Absent] ELSE emb
            /\ vec' = IF locked[h] THEN [vec EXCEPT ![i] = [p \in Profiles |-> Null]] ELSE vec
    /\ failed' = [failed EXCEPT ![h] = raw[i] = Absent]
    /\ Goto(h, "reply")
    /\ UNCHANGED <<job, rest, todo, aborted, locked, history>>

DeleteFails(h) ==
    /\ pc[h] = "delete"
    /\ Fail(h)
    /\ Goto(h, "reply")
    /\ UNCHANGED <<db, job, rest, todo, aborted, locked, history>>

----------------------------------------------------------------------------
\* POST /admin/embeddings/sync.

AdminIds(h, ids, force, profs) ==
    /\ pc[h] = "idle"
    /\ ids # {}
    /\ Request(h, [op |-> "ids", ids |-> ids, val |-> Absent, force |-> force, profs |-> profs])
    /\ rest' = [rest EXCEPT ![h] = ids]
    /\ Goto(h, "fetch")
    /\ UNCHANGED <<db, todo, failed, aborted, locked, reported, upsertFailed>>

AdminAll(h, force, profs) ==
    /\ pc[h] = "idle"
    /\ Request(h, [op |-> "all", ids |-> {}, val |-> Absent, force |-> force, profs |-> profs])
    /\ Goto(h, "select")
    /\ UNCHANGED <<db, rest, todo, failed, aborted, locked, reported, upsertFailed>>

\* Mutant: a row counts as missing only when it has no vector at all.
Missing_All(i, profs) == emb[i] # Absent /\ \A p \in profs : vec[i][p] = Null

\* _ids_missing_any_profile.
Missing(i, profs) == emb[i] # Absent /\ \E p \in profs : vec[i][p] = Null

\* sync_all_embeddings chooses its rows: those that miss a vector, or all.
SelectIds(h) ==
    /\ pc[h] = "select"
    /\ \E ids \in {{i \in Ids : Missing(i, job[h].profs)}, {i \in Ids : emb[i] # Absent}} :
        /\ job[h].force => ids = {i \in Ids : emb[i] # Absent}
        /\ rest' = [rest EXCEPT ![h] = ids]
        /\ Goto(h, IF ids = {} THEN "reply" ELSE "fetch")
    /\ UNCHANGED <<db, job, todo, failed, aborted, locked, history>>

----------------------------------------------------------------------------
\* sync_embeddings_for_ids.

\* The rows of a batch and what is to be embedded for them. A row that is not
\* there, and a sync without profiles, is a failure in the reply.
Tasked(h, batch) ==
    {t \in Tasks : /\ t.id \in batch
                   /\ emb[t.id] # Absent /\ t.text = emb[t.id].text
                   /\ t.profile \in job[h].profs
                   /\ job[h].force \/ vec[t.id][t.profile] = Null}

Size(h) ==
    IF job[h].op = "all" /\ Cardinality(rest[h]) > BatchSize THEN BatchSize
    ELSE Cardinality(rest[h])

Fetch(h) ==
    /\ pc[h] = "fetch"
    /\ ~aborted[h]
    /\ \E batch \in SUBSET rest[h] :
        /\ Cardinality(batch) = Size(h)
        /\ todo' = [todo EXCEPT ![h] = Tasked(h, batch)]
        /\ rest' = [rest EXCEPT ![h] = @ \ batch]
        /\ failed' = [failed EXCEPT ![h] =
                @ \/ job[h].profs = {} \/ \E i \in batch : emb[i] = Absent]
    /\ Goto(h, "embed")
    /\ UNCHANGED <<db, job, aborted, locked, history>>

\* After a failed write the connection refuses the SELECT of the next batch.
FetchAborted(h) ==
    /\ pc[h] = "fetch"
    /\ aborted[h]
    /\ Fail(h)
    /\ Goto(h, "reply")
    /\ UNCHANGED <<db, job, rest, todo, aborted, locked, history>>

\* The feedback read by the SELECT is embedded, and its vector is written to
\* the row as it is by then. A row that is gone is no error.
WriteVector(h, t) ==
    /\ pc[h] = "embed"
    /\ t \in todo[h]
    /\ ~aborted[h]
    /\ ~Waits(h, t.id)
    /\ todo' = [todo EXCEPT ![h] = @ \ {t}]
    /\ vec' = IF emb[t.id] = Absent THEN vec ELSE [vec EXCEPT ![t.id][t.profile] = t.text]
    /\ UNCHANGED <<raw, emb, pc, job, rest, failed, aborted, locked, history>>

\* Mutant: a failed embedding is not reported.
EmbedFails_Silent(h, t) ==
    /\ pc[h] = "embed"
    /\ t \in todo[h]
    /\ todo' = [todo EXCEPT ![h] = @ \ {t}]
    /\ UNCHANGED <<db, pc, job, rest, failed, aborted, locked, history>>

\* The client of the profile cannot be built, or does not return a vector.
EmbedFails(h, t) ==
    /\ pc[h] = "embed"
    /\ t \in todo[h]
    /\ todo' = [todo EXCEPT ![h] = @ \ {t}]
    /\ Fail(h)
    /\ UNCHANGED <<db, pc, job, rest, aborted, locked, history>>

\* The UPDATE raises. Nothing is rolled back: the later writes fail as well.
WriteFails(h, t) ==
    /\ pc[h] = "embed"
    /\ t \in todo[h]
    /\ ~Waits(h, t.id)
    /\ todo' = [todo EXCEPT ![h] = @ \ {t}]
    /\ aborted' = [aborted EXCEPT ![h] = TRUE]
    /\ Fail(h)
    /\ UNCHANGED <<db, pc, job, rest, locked, history>>

\* Mutant: another batch is begun when none is left.
EndBatch_Again(h) ==
    /\ pc[h] = "embed"
    /\ todo[h] = {}
    /\ Goto(h, "fetch")
    /\ UNCHANGED <<db, job, rest, todo, failed, aborted, locked, history>>

EndBatch(h) ==
    /\ pc[h] = "embed"
    /\ todo[h] = {}
    /\ Goto(h, IF rest[h] = {} THEN "reply" ELSE "fetch")
    /\ UNCHANGED <<db, job, rest, todo, failed, aborted, locked, history>>

\* The reply; return_db_conn rolls back what the connection has open.
Reply(h) ==
    /\ pc[h] = "reply"
    /\ reported' = IF job[h].op \notin {"write", "delete"} THEN reported
                   ELSE IF failed[h] THEN reported \union job[h].ids
                   ELSE reported \ job[h].ids
    /\ job' = [job EXCEPT ![h] = NoJob]
    /\ rest' = [rest EXCEPT ![h] = {}]
    /\ todo' = [todo EXCEPT ![h] = {}]
    /\ failed' = [failed EXCEPT ![h] = FALSE]
    /\ aborted' = [aborted EXCEPT ![h] = FALSE]
    /\ locked' = [locked EXCEPT ![h] = FALSE]
    /\ Goto(h, "idle")
    /\ UNCHANGED <<db, upsertFailed, overlapped>>

----------------------------------------------------------------------------
Arrive(h) ==
    \/ \E i \in Ids, v \in Vals : Create(h, i, v) \/ Update(h, i, v)
    \/ \E i \in Ids : DeleteEmbedding(h, i)
    \/ \E force \in BOOLEAN, profs \in SUBSET Available :
        \/ \E ids \in SUBSET Ids : AdminIds(h, ids, force, profs)
        \/ AdminAll(h, force, profs)

Work(h) ==
    \/ \E i \in Ids : Upsert(h, i) \/ UpsertFails(h, i) \/ DeleteRaw(h, i)
    \/ DeleteFails(h) \/ SelectIds(h) \/ Fetch(h) \/ FetchAborted(h)
    \/ \E t \in todo[h] : WriteVector(h, t) \/ EmbedFails(h, t) \/ WriteFails(h, t)
    \/ EndBatch(h) \/ Reply(h)

Next == \E h \in Handlers : Arrive(h) \/ Work(h)

\* A handler's thread goes on until it has replied: the calls to the database
\* and to the embedding APIs return or raise. Strong fairness, for a statement
\* that waits: PostgreSQL gives a row lock to who has waited for it.
Spec == Init /\ [][Next]_vars /\ \A h \in Handlers : SF_vars(Work(h))

----------------------------------------------------------------------------
\* Properties.

Busy(i) == \E h \in Handlers : i \in job[h].ids

Agrees(i) ==
    IF raw[i] = Absent THEN emb[i] = Absent
    ELSE emb[i] = AsRow(raw[i]) /\ \A p \in Available : vec[i][p] = raw[i].text

\* "Syncs to fru_sales_embeddings", "Also removes from fru_sales_embeddings": a
\* record nobody works on and its row, vectors included, differ only after a
\* request that reported it, and no row outlives its record, whatever syncs and
\* whatever requests on other records run meanwhile. The exception are records
\* two requests worked on at a time, until a POST or PUT has them for itself: two
\* updates may reach the embeddings in the other order, a vector is written to a
\* row that has changed since its feedback was read, and a record deleted between
\* the two commits of an update gets its row back.
TableFollowsRecords == \A i \in Ids \ overlapped :
    /\ Agrees(i) \/ Busy(i) \/ i \in reported
    /\ emb[i] # Absent => raw[i] # Absent

\* A sync that reports no failure has done what was asked: no row it could
\* name is without a vector, and when forced its vectors are those of the
\* feedback the row has, unless another request worked on the row meanwhile.
SyncFills == \A h \in Handlers, i \in Ids \ overlapped :
    /\ pc[h] = "reply"
    /\ ~failed[h]
    /\ job[h].op \in {"all", "ids"}
    /\ job[h].op = "ids" => i \in job[h].ids
    => /\ job[h].op = "ids" => emb[i] # Absent
       /\ emb[i] # Absent => \A p \in job[h].profs :
            /\ vec[i][p] # Null
            /\ job[h].force => vec[i][p] = emb[i].text

\* Whatever requests run at a time: a record has a row in the embeddings, or a
\* handler is about to insert it, or the insertion failed.
RecordHasRow == \A i \in Ids :
    raw[i] # Absent /\ i \notin upsertFailed =>
        \/ emb[i] # Absent
        \/ \E h \in Handlers : pc[h] = "upsert" /\ i \in job[h].ids

\* A row of the embeddings disappears only together with its record.
RowGoesWithRecord ==
    [][\A i \in Ids : emb[i] # Absent /\ emb'[i] = Absent => raw'[i] = Absent]_vars

\* Every request is answered, also one that waits for another one's DELETE.
RequestsEnd == \A h \in Handlers : pc[h] # "idle" ~> pc[h] = "idle"
=============================================================================
