------------------------- MODULE RawDataSync_proofs -------------------------
(***************************************************************************)
(* What RawDataSync keeps for any number of concurrent requests, records   *)
(* and profiles and any batch size: every record has its row in the        *)
(* embeddings, a row goes only with its record, and for every record that  *)
(* one request at a time works on, row and vectors follow the record and a *)
(* sync fills what it says.                                                *)
(*                                                                         *)
(* RecordHasRow is not inductive: the handler that still owes the row must *)
(* owe it to one record, and with a value. UpsertInv says so.              *)
(***************************************************************************)
EXTENDS RawDataSync, TLAPS

UpsertInv == \A h \in Handlers : pc[h] = "upsert" =>
    /\ job[h].val \in Vals
    /\ \A i, j \in job[h].ids : i = j

IInv == TypeOK /\ UpsertInv /\ RecordHasRow

\* A row is never nothing.
LEMMA RowType ==
    ASSUME NEW v \in Vals
    PROVE  AsRow(v) \in Records /\ AsRow(v) # Absent /\ AsRow(v).text = v.text
  BY RawDataSyncAssumption DEF AsRow, Records

LEMMA InitInv == Init => IInv
  BY DEF Init, IInv, TypeOK, UpsertInv, RecordHasRow, NoJob, Jobs, Pcs

LEMMA ArriveType ==
    ASSUME TypeOK, NEW h \in Handlers, Arrive(h)
    PROVE  TypeOK'
  <1> USE DEF TypeOK
  <1>1. ASSUME NEW i \in Ids, NEW v \in Vals, Create(h, i, v) \/ Update(h, i, v)
        PROVE  TypeOK'
    <2>1. WriteJob(i, v) \in Jobs
      BY DEF WriteJob, Jobs
    <2>2. /\ pc' = [pc EXCEPT ![h] = "upsert"] /\ raw' = [raw EXCEPT ![i] = v]
          /\ job' = [job EXCEPT ![h] = WriteJob(i, v)]
          /\ overlapped' \subseteq Ids
          /\ UNCHANGED <<emb, vec, rest, todo, failed, aborted, locked, reported, upsertFailed>>
      BY <1>1 DEF Create, Update, Request, Goto
    <2> QED BY <2>1, <2>2 DEF Pcs
  <1>2. ASSUME NEW i \in Ids, DeleteEmbedding(h, i)
        PROVE  TypeOK'
    <2>1. [NoJob EXCEPT !.op = "delete", !.ids = {i}] \in Jobs
      BY DEF NoJob, Jobs
    <2> QED BY <1>2, <2>1 DEF DeleteEmbedding, Request, Goto, Pcs, db, history
  <1>3. ASSUME NEW force \in BOOLEAN, NEW profs \in SUBSET Available, NEW ids \in SUBSET Ids,
               AdminIds(h, ids, force, profs)
        PROVE  TypeOK'
    <2>1. [op |-> "ids", ids |-> ids, val |-> Absent, force |-> force, profs |-> profs] \in Jobs
      BY DEF Jobs
    <2> QED BY <1>3, <2>1 DEF AdminIds, Request, Goto, Pcs, db, history
  <1>4. ASSUME NEW force \in BOOLEAN, NEW profs \in SUBSET Available, AdminAll(h, force, profs)
        PROVE  TypeOK'
    <2>1. [op |-> "all", ids |-> {}, val |-> Absent, force |-> force, profs |-> profs] \in Jobs
      BY DEF Jobs
    <2> QED BY <1>4, <2>1 DEF AdminAll, Request, Goto, Pcs, db, history
  <1> QED BY <1>1, <1>2, <1>3, <1>4 DEF Arrive

LEMMA WorkType ==
    ASSUME TypeOK, UpsertInv, NEW h \in Handlers, Work(h)
    PROVE  TypeOK'
  <1> USE RawDataSyncAssumption DEF TypeOK
  <1>1. ASSUME NEW i \in Ids, Upsert(h, i)
        PROVE  TypeOK'
    <2>1. job[h].val \in Vals /\ job[h].ids \in SUBSET Ids
      BY <1>1 DEF Upsert, UpsertInv, Jobs
    <2>2. AsRow(job[h].val) \in Records /\ AsRow(job[h].val) # Absent
      BY <2>1, RowType
    <2> QED BY <1>1, <2>1, <2>2 DEF Upsert, Goto, Pcs
  <1>2. ASSUME NEW i \in Ids, UpsertFails(h, i)
        PROVE  TypeOK'
    BY <1>2 DEF UpsertFails, Goto, Fail, Pcs, db
  <1>3. ASSUME NEW i \in Ids, DeleteRaw(h, i)
        PROVE  TypeOK'
    <2>1. /\ raw' \in [Ids -> Vals \union {Absent}]
          /\ emb' \in [Ids -> Records \union {Absent}]
          /\ vec' \in [Ids -> [Profiles -> Texts \union {Null}]]
          /\ \A j \in Ids : emb'[j] = Absent => vec'[j] = [p \in Profiles |-> Null]
      <3>1. CASE UNCHANGED db
        BY <3>1 DEF db
      <3>2. CASE /\ raw' = [raw EXCEPT ![i] = Absent]
                 /\ UNCHANGED <<emb, vec>>
        BY <3>2
      <3>3. CASE /\ raw' = [raw EXCEPT ![i] = Absent]
                 /\ emb' = [emb EXCEPT ![i] = Absent]
                 /\ vec' = [vec EXCEPT ![i] = [p \in Profiles |-> Null]]
        BY <3>3
      <3> QED BY <1>3, <3>1, <3>2, <3>3 DEF DeleteRaw
    <2> QED BY <1>3, <2>1 DEF DeleteRaw, Goto, Pcs, history
  <1>4. CASE DeleteFails(h) \/ FetchAborted(h) \/ EndBatch(h)
    BY <1>4 DEF DeleteFails, FetchAborted, EndBatch, Goto, Fail, Pcs, db, history
  <1>5. CASE SelectIds(h)
    BY <1>5 DEF SelectIds, Goto, Pcs, db, history
  <1>6. CASE Fetch(h)
    <2>1. PICK batch \in SUBSET rest[h] :
            /\ todo' = [todo EXCEPT ![h] = Tasked(h, batch)]
            /\ rest' = [rest EXCEPT ![h] = @ \ batch]
            /\ failed' = [failed EXCEPT ![h] =
                    @ \/ job[h].profs = {} \/ \E i \in batch : emb[i] = Absent]
      BY <1>6 DEF Fetch
    <2>2. Tasked(h, batch) \in SUBSET Tasks /\ rest[h] \ batch \in SUBSET Ids
      BY DEF Tasked
    <2>3. failed' \in [Handlers -> BOOLEAN]
      BY <2>1
    <2> QED BY <1>6, <2>1, <2>2, <2>3 DEF Fetch, Goto, Pcs, db, history
  <1>7. ASSUME NEW t \in todo[h], WriteVector(h, t)
        PROVE  TypeOK'
    <2>1. t \in Tasks /\ todo[h] \ {t} \in SUBSET Tasks
      BY <1>7
    <2>2. t.id \in Ids /\ t.profile \in Profiles /\ t.text \in Texts
      BY <2>1 DEF Tasks
    <2>3. /\ vec' \in [Ids -> [Profiles -> Texts \union {Null}]]
          /\ \A i \in Ids : emb[i] = Absent => vec'[i] = [p \in Profiles |-> Null]
      BY <1>7, <2>2 DEF WriteVector
    <2> QED BY <1>7, <2>1, <2>3 DEF WriteVector, history
  <1>8. ASSUME NEW t \in todo[h], EmbedFails(h, t) \/ WriteFails(h, t)
        PROVE  TypeOK'
    <2>1. todo[h] \ {t} \in SUBSET Tasks
      OBVIOUS
    <2>2. CASE EmbedFails(h, t)
      BY <2>1, <2>2 DEF EmbedFails, Fail, db, history
    <2>3. CASE WriteFails(h, t)
      BY <2>1, <2>3 DEF WriteFails, Fail, db, history
    <2> QED BY <1>8, <2>2, <2>3
  <1>9. CASE Reply(h)
    <2>1. job[h].ids \in SUBSET Ids /\ NoJob \in Jobs
      BY DEF Jobs, NoJob
    <2>2. reported' \subseteq Ids
      BY <1>9, <2>1 DEF Reply
    <2> QED BY <1>9, <2>1, <2>2 DEF Reply, Goto, Pcs, db
  <1> QED BY <1>1, <1>2, <1>3, <1>4, <1>5, <1>6, <1>7, <1>8, <1>9 DEF Work

\* Requests arrive only at idle handlers, and touch the rows of no record.
LEMMA ArriveInv ==
    ASSUME TypeOK, UpsertInv, RecordHasRow, NEW h \in Handlers, Arrive(h)
    PROVE  UpsertInv' /\ RecordHasRow' /\ emb' = emb
  <1>1. ASSUME NEW i \in Ids, NEW v \in Vals, Create(h, i, v) \/ Update(h, i, v)
        PROVE  UpsertInv' /\ RecordHasRow' /\ emb' = emb
    <2>1. /\ pc[h] = "idle" /\ pc' = [pc EXCEPT ![h] = "upsert"]
          /\ job' = [job EXCEPT ![h] = WriteJob(i, v)]
          /\ raw' = [raw EXCEPT ![i] = v]
          /\ emb' = emb /\ upsertFailed' = upsertFailed
      BY <1>1 DEF Create, Update, Goto, Request
    <2>2. UpsertInv'
      BY <2>1 DEF TypeOK, UpsertInv, WriteJob
    <2>3. \A g \in Handlers, j \in Ids :
            pc[g] = "upsert" /\ j \in job[g].ids => pc'[g] = "upsert" /\ j \in job'[g].ids
      BY <2>1 DEF TypeOK
    <2>4. pc'[h] = "upsert" /\ i \in job'[h].ids
      BY <2>1 DEF TypeOK, WriteJob
    <2>5. \A j \in Ids : j # i => raw'[j] = raw[j]
      BY <2>1 DEF TypeOK
    <2> QED BY <2>1, <2>2, <2>3, <2>4, <2>5 DEF RecordHasRow
  <1>2. ASSUME /\ pc[h] = "idle"
               /\ \E where \in Pcs \ {"upsert"} : Goto(h, where)
               /\ \E j \in Jobs : Request(h, j)
               /\ UNCHANGED <<db, upsertFailed>>
        PROVE  UpsertInv' /\ RecordHasRow' /\ emb' = emb
    <2>1. \A g \in Handlers : g # h => pc'[g] = pc[g] /\ job'[g] = job[g]
      BY <1>2 DEF Goto, Request, TypeOK
    <2>2. pc'[h] # "upsert" /\ pc[h] # "upsert"
      BY <1>2 DEF Goto, TypeOK
    <2> QED BY <1>2, <2>1, <2>2 DEF UpsertInv, RecordHasRow, db
  <1>3. ASSUME NEW i \in Ids, DeleteEmbedding(h, i)
        PROVE  UpsertInv' /\ RecordHasRow' /\ emb' = emb
    <2>1. [NoJob EXCEPT !.op = "delete", !.ids = {i}] \in Jobs
      BY DEF NoJob, Jobs
    <2> QED BY <1>2, <1>3, <2>1 DEF DeleteEmbedding, Pcs, history
  <1>4. ASSUME NEW force \in BOOLEAN, NEW profs \in SUBSET Available, NEW ids \in SUBSET Ids,
               AdminIds(h, ids, force, profs)
        PROVE  UpsertInv' /\ RecordHasRow' /\ emb' = emb
    <2>1. [op |-> "ids", ids |-> ids, val |-> Absent, force |-> force, profs |-> profs] \in Jobs
      BY DEF Jobs
    <2> QED BY <1>2, <1>4, <2>1 DEF AdminIds, Pcs, history
  <1>5. ASSUME NEW force \in BOOLEAN, NEW profs \in SUBSET Available, AdminAll(h, force, profs)
        PROVE  UpsertInv' /\ RecordHasRow' /\ emb' = emb
    <2>1. [op |-> "all", ids |-> {}, val |-> Absent, force |-> force, profs |-> profs] \in Jobs
      BY DEF Jobs
    <2> QED BY <1>2, <1>5, <2>1 DEF AdminAll, Pcs, history
  <1> QED BY <1>1, <1>3, <1>4, <1>5 DEF Arrive

\* The steps of a request: only the deletion of a record removes a row.
LEMMA WorkInv ==
    ASSUME TypeOK, UpsertInv, RecordHasRow, NEW h \in Handlers, Work(h)
    PROVE  /\ UpsertInv' /\ RecordHasRow'
           /\ \A j \in Ids : emb[j] # Absent /\ emb'[j] = Absent => raw'[j] = Absent
  <1> DEFINE Goal == /\ UpsertInv' /\ RecordHasRow'
                     /\ \A j \in Ids : emb[j] # Absent /\ emb'[j] = Absent => raw'[j] = Absent
  <1>1. ASSUME NEW i \in Ids, Upsert(h, i) PROVE Goal
    <2>1. /\ pc' = [pc EXCEPT ![h] = "fetch"] /\ job' = job /\ raw' = raw
          /\ emb' = [emb EXCEPT ![i] = AsRow(job[h].val)]
          /\ upsertFailed' = upsertFailed \ {i}
      BY <1>1 DEF Upsert, Goto
    <2>2. AsRow(job[h].val) # Absent /\ \A j \in job[h].ids : j = i
      BY <1>1, RowType DEF Upsert, UpsertInv
    <2>3. \A g \in Handlers : pc'[g] = "upsert" => pc[g] = "upsert"
      BY <2>1 DEF TypeOK
    <2>4. emb'[i] # Absent /\ \A j \in Ids \ {i} : emb'[j] = emb[j]
      BY <2>1, <2>2 DEF TypeOK
    <2>5. \A g \in Handlers, j \in Ids \ {i} :
            pc[g] = "upsert" /\ j \in job[g].ids => pc'[g] = "upsert"
      BY <2>1, <2>2 DEF TypeOK
    <2>6. UpsertInv'
      BY <2>1, <2>3 DEF UpsertInv
    <2> QED BY <2>1, <2>4, <2>5, <2>6 DEF RecordHasRow
  <1>2. ASSUME NEW i \in Ids, UpsertFails(h, i) PROVE Goal
    <2>1. /\ pc' = [pc EXCEPT ![h] = "reply"] /\ job' = job /\ UNCHANGED db
          /\ upsertFailed' = upsertFailed \union {i}
      BY <1>2 DEF UpsertFails, Goto
    <2>2. \A j \in job[h].ids : j = i
      BY <1>2 DEF UpsertFails, UpsertInv
    <2>3. \A g \in Handlers : pc'[g] = "upsert" => pc[g] = "upsert"
      BY <2>1 DEF TypeOK
    <2>4. \A g \in Handlers, j \in Ids \ {i} :
            pc[g] = "upsert" /\ j \in job[g].ids => pc'[g] = "upsert"
      BY <2>1, <2>2 DEF TypeOK
    <2>5. UpsertInv'
      BY <2>1, <2>3 DEF UpsertInv
    <2> QED BY <2>1, <2>4, <2>5 DEF RecordHasRow, db
  <1>3. ASSUME NEW i \in Ids, DeleteRaw(h, i) PROVE Goal
    <2>1. /\ pc[h] = "delete" /\ pc' = [pc EXCEPT ![h] = "reply"] /\ job' = job
          /\ upsertFailed' = upsertFailed
      BY <1>3 DEF DeleteRaw, Goto, history
    <2>2. \A g \in Handlers : pc'[g] = "upsert" <=> pc[g] = "upsert"
      BY <2>1 DEF TypeOK
    <2>3. \/ UNCHANGED <<raw, emb>>
          \/ /\ raw'[i] = Absent
             /\ \A j \in Ids \ {i} : raw'[j] = raw[j] /\ emb'[j] = emb[j]
      BY <1>3 DEF DeleteRaw, TypeOK, db
    <2>4. UpsertInv'
      BY <2>1, <2>2 DEF UpsertInv
    <2> QED BY <2>1, <2>2, <2>3, <2>4 DEF RecordHasRow
  <1>4. ASSUME pc[h] # "upsert",
               \/ pc' = pc
               \/ \E where \in Pcs \ {"upsert"} : Goto(h, where),
               \/ job' = job
               \/ job' = [job EXCEPT ![h] = NoJob],
               UNCHANGED <<raw, emb, upsertFailed>>
        PROVE  Goal
    <2>1. \A g \in Handlers : pc'[g] = "upsert" <=> pc[g] = "upsert"
      BY <1>4 DEF TypeOK, Goto
    <2>2. \A g \in Handlers : pc[g] = "upsert" => job'[g] = job[g]
      BY <1>4 DEF TypeOK
    <2> QED BY <1>4, <2>1, <2>2 DEF UpsertInv, RecordHasRow
  <1>5. CASE DeleteFails(h) \/ SelectIds(h) \/ Fetch(h) \/ FetchAborted(h) \/ EndBatch(h)
    <2>1. \E where \in Pcs \ {"upsert"} : Goto(h, where)
      BY <1>5 DEF DeleteFails, SelectIds, Fetch, FetchAborted, EndBatch, Pcs
    <2> QED BY <1>4, <1>5, <2>1
        DEF DeleteFails, SelectIds, Fetch, FetchAborted, EndBatch, db, history
  <1>6. ASSUME NEW t \in todo[h], WriteVector(h, t) \/ EmbedFails(h, t) \/ WriteFails(h, t)
        PROVE  Goal
    BY <1>4, <1>6 DEF WriteVector, EmbedFails, WriteFails, db, history
  <1>7. CASE Reply(h)
    BY <1>4, <1>7 DEF Reply, Pcs, db
  <1> QED BY <1>1, <1>2, <1>3, <1>5, <1>6, <1>7 DEF Work

LEMMA NextInv == IInv /\ [Next]_vars => IInv'
  <1> SUFFICES ASSUME IInv, [Next]_vars PROVE IInv'
    OBVIOUS
  <1>1. ASSUME NEW h \in Handlers, Arrive(h) PROVE IInv'
    BY <1>1, ArriveType, ArriveInv DEF IInv
  <1>2. ASSUME NEW h \in Handlers, Work(h) PROVE IInv'
    BY <1>2, WorkType, WorkInv DEF IInv
  <1>3. CASE UNCHANGED vars
    BY <1>3 DEF IInv, TypeOK, UpsertInv, RecordHasRow, vars, db, history
  <1> QED BY <1>1, <1>2, <1>3 DEF Next

LEMMA Invariance == Spec => []IInv
  BY InitInv, NextInv, PTL DEF Spec

\* Types, and a row that is not there has no vectors.
THEOREM TypeCorrect == Spec => []TypeOK
  <1>1. IInv => TypeOK
    BY DEF IInv
  <1> QED BY <1>1, Invariance, PTL

\* A record has its row, is about to get it, or its upsert failed.
THEOREM RecordsHaveRows == Spec => []RecordHasRow
  <1>1. IInv => RecordHasRow
    BY DEF IInv
  <1> QED BY <1>1, Invariance, PTL

\* A row disappears only in the step that leaves no record.
THEOREM RowsGoWithRecords == Spec => RowGoesWithRecord
  <1>1. IInv /\ [Next]_vars =>
            [\A i \in Ids : emb[i] # Absent /\ emb'[i] = Absent => raw'[i] = Absent]_vars
    <2> SUFFICES ASSUME IInv, Next
                 PROVE  \A i \in Ids : emb[i] # Absent /\ emb'[i] = Absent => raw'[i] = Absent
      OBVIOUS
    <2>1. ASSUME NEW h \in Handlers, Arrive(h)
          PROVE  \A i \in Ids : emb[i] # Absent /\ emb'[i] = Absent => raw'[i] = Absent
      BY <2>1, ArriveInv DEF IInv
    <2>2. ASSUME NEW h \in Handlers, Work(h)
          PROVE  \A i \in Ids : emb[i] # Absent /\ emb'[i] = Absent => raw'[i] = Absent
      BY <2>2, WorkInv DEF IInv
    <2> QED BY <2>1, <2>2 DEF Next
  <1> QED BY <1>1, Invariance, PTL DEF Spec, RowGoesWithRecord

----------------------------------------------------------------------------
(***************************************************************************)
(* One request at a time on a record, whatever runs on the others.         *)
(*                                                                         *)
(* TableFollowsRecords and SyncFills say what holds when a request ends.   *)
(* On the way there LocalInv says what a handler is doing, SoleInv that a  *)
(* record that has not been overlapped has one handler at most, HoldInv    *)
(* what that handler still owes it, and RestInv what holds of it meanwhile.*)
(***************************************************************************)
SoleInv == \A i \in Ids \ overlapped : \A g, h \in Handlers :
    Touches(job[g], i) /\ Touches(job[h], i) => g = h

Syncing(h) == pc[h] \in {"fetch", "embed"} \/ (pc[h] = "reply" /\ job[h].op # "delete")
Owed(h, i, p) ==
    i \in rest[h] \/ [id |-> i, profile |-> p, text |-> emb[i].text] \in todo[h]
Filled(h, i, p) == vec[i][p] # Null /\ (job[h].force => vec[i][p] = emb[i].text)

LocalInv(h) ==
    /\ pc[h] = "idle" => job[h] = NoJob /\ ~failed[h]
    /\ pc[h] = "upsert" => job[h].op = "write"
    /\ pc[h] = "select" => job[h].op = "all"
    /\ pc[h] \in {"fetch", "embed"} => job[h].op \in {"write", "ids", "all"}
    /\ pc[h] = "delete" => job[h].op = "delete" /\ ~failed[h]
    /\ pc[h] = "reply" => job[h].op # "none"
    /\ job[h].op = "none" => pc[h] = "idle"
    /\ job[h].op = "all" => job[h].ids = {}
    /\ job[h].op = "delete" => pc[h] \in {"delete", "reply"} /\ \A i, j \in job[h].ids : i = j
    /\ job[h].op = "write" =>
        /\ job[h].val \in Vals /\ job[h].force /\ job[h].profs = Available
        /\ \A i, j \in job[h].ids : i = j
    /\ pc[h] # "embed" /\ ~failed[h] => todo[h] = {}
    /\ pc[h] \in {"idle", "upsert", "select", "fetch", "delete"} => todo[h] = {}
    /\ pc[h] = "reply" /\ ~failed[h] /\ job[h].op # "delete" => rest[h] = {}
    /\ \A i \in rest[h] : Touches(job[h], i)
    /\ \A t \in todo[h] : Touches(job[h], t.id)

Steady(i) == Agrees(i) \/ i \in reported

FillInv(h, i) ==
    Syncing(h) /\ ~failed[h] /\ (job[h].op = "all" => emb[i] # Absent) =>
        /\ i \in rest[h] \/ emb[i] # Absent
        /\ \A p \in job[h].profs : Owed(h, i, p) \/ Filled(h, i, p)

HoldInv(h, i) ==
    /\ pc[h] = "delete" => (locked[h] <=> emb[i] # Absent)
    /\ job[h].op = "write" => raw[i] = job[h].val
    /\ \A t \in todo[h] : t.id = i => emb[i] # Absent /\ t.text = emb[i].text
    /\ FillInv(h, i)
    /\ Syncing(h) /\ job[h].op = "write" /\ ~failed[h] => emb[i] = AsRow(raw[i])
    /\ job[h].op \in {"ids", "all"} \/ pc[h] = "delete" => Steady(i)
    /\ pc[h] = "reply" /\ job[h].op = "delete" /\ ~failed[h] => Agrees(i)

NoOrphan(i) == emb[i] # Absent => raw[i] # Absent

RestInv(i) ==
    /\ NoOrphan(i)
    /\ (\A h \in Handlers : ~Touches(job[h], i)) => Steady(i)

SyncInv ==
    /\ SoleInv
    /\ \A h \in Handlers : LocalInv(h)
    /\ \A i \in Ids \ overlapped :
        /\ RestInv(i)
        /\ \A h \in Handlers : Touches(job[h], i) => HoldInv(h, i)

LEMMA NoJobTouches == \A i : ~Touches(NoJob, i)
  BY DEF Touches, NoJob

LEMMA SyncInit == Init => SyncInv
  <1> SUFFICES ASSUME Init PROVE SyncInv
    OBVIOUS
  <1>1. \A h \in Handlers : /\ pc[h] = "idle" /\ job[h] = NoJob /\ ~failed[h]
                            /\ todo[h] = {} /\ rest[h] = {}
    BY DEF Init
  <1>2. \A i \in Ids : raw[i] = Absent /\ emb[i] = Absent
    BY DEF Init
  <1>3. ASSUME NEW h \in Handlers PROVE LocalInv(h)
    <2>1. pc[h] = "idle" /\ ~failed[h] /\ todo[h] = {} /\ rest[h] = {} /\ job[h] = NoJob
      BY <1>1, Zenon
    <2>2. job[h].op = "none" /\ job[h].ids = {}
      BY <2>1 DEF NoJob
    <2>3. /\ \A i \in rest[h] : Touches(job[h], i)
          /\ \A t \in todo[h] : Touches(job[h], t.id)
      BY <2>1
    <2> QED BY <2>1, <2>2, <2>3, SMTT(30) DEF LocalInv
  <1>4. \A i \in Ids : RestInv(i)
    BY <1>2 DEF RestInv, NoOrphan, Steady, Agrees
  <1> QED BY <1>1, <1>3, <1>4, NoJobTouches DEF SyncInv, SoleInv

----------------------------------------------------------------------------
\* What a step does not touch.

\* A handler's step is its own, but for the tables.
LEMMA OthersRest ==
    ASSUME TypeOK, NEW h \in Handlers, Arrive(h) \/ Work(h), NEW g \in Handlers, g # h
    PROVE  /\ pc'[g] = pc[g] /\ job'[g] = job[g] /\ rest'[g] = rest[g] /\ todo'[g] = todo[g]
           /\ failed'[g] = failed[g] /\ locked'[g] = locked[g]
  BY ZenonT(60) DEF TypeOK, Arrive, Work, Create, Update, DeleteEmbedding, AdminIds, AdminAll, Upsert,
         UpsertFails, DeleteRaw, DeleteFails, SelectIds, Fetch, FetchAborted, WriteVector,
         EmbedFails, WriteFails, EndBatch, Reply, Goto, Request, Fail, db, history

\* A step of a request leaves the records alone it does not touch.
LEMMA UntouchedStay ==
    ASSUME TypeOK, NEW h \in Handlers, LocalInv(h), Arrive(h) \/ Work(h), NEW i \in Ids,
           ~Touches(job[h], i), ~Touches(job'[h], i)
    PROVE  /\ raw'[i] = raw[i] /\ emb'[i] = emb[i] /\ vec'[i] = vec[i]
           /\ (i \in reported)' <=> i \in reported
           /\ (i \in overlapped)' <=> i \in overlapped
  <1>1. ASSUME NEW j \in Ids, NEW v \in Vals, Create(h, j, v) \/ Update(h, j, v)
        PROVE  /\ raw'[i] = raw[i] /\ emb'[i] = emb[i] /\ vec'[i] = vec[i]
               /\ (i \in reported)' <=> i \in reported
               /\ (i \in overlapped)' <=> i \in overlapped
    <2>1. job'[h] = WriteJob(j, v)
      BY <1>1 DEF Create, Update, Request, TypeOK
    <2>2. i # j
      BY <2>1 DEF Touches, WriteJob
    <2>3. ~Touches(WriteJob(j, v), i)
      BY <2>1
    <2> QED BY <1>1, <2>2, <2>3 DEF Create, Update, Request, TypeOK
  <1>2. CASE \/ \E j \in Ids : DeleteEmbedding(h, j)
             \/ \E force \in BOOLEAN, profs \in SUBSET Available :
                  \/ \E ids \in SUBSET Ids : AdminIds(h, ids, force, profs)
                  \/ AdminAll(h, force, profs)
    <2>1. \E j : Request(h, j) /\ UNCHANGED <<db, reported>>
      BY <1>2 DEF DeleteEmbedding, AdminIds, AdminAll
    <2>2. PICK j : Request(h, j) /\ UNCHANGED <<db, reported>>
      BY <2>1
    <2>3. ~Touches(j, i)
      BY <2>2 DEF Request, TypeOK
    <2> QED BY <2>2, <2>3 DEF Request, db
  <1>3. ASSUME NEW j \in Ids, Upsert(h, j) \/ UpsertFails(h, j) \/ DeleteRaw(h, j)
        PROVE  /\ raw'[i] = raw[i] /\ emb'[i] = emb[i] /\ vec'[i] = vec[i]
               /\ reported' = reported /\ overlapped' = overlapped
    <2>1. i # j
      BY <1>3 DEF Upsert, UpsertFails, DeleteRaw, Touches
    <2> QED BY <1>3, <2>1 DEF Upsert, UpsertFails, DeleteRaw, TypeOK, db, history
  <1>4. CASE DeleteFails(h) \/ SelectIds(h) \/ Fetch(h) \/ FetchAborted(h) \/ EndBatch(h)
    BY <1>4 DEF DeleteFails, SelectIds, Fetch, FetchAborted, EndBatch, db, history
  <1>5. ASSUME NEW t \in todo[h], WriteVector(h, t) \/ EmbedFails(h, t) \/ WriteFails(h, t)
        PROVE  /\ raw'[i] = raw[i] /\ emb'[i] = emb[i] /\ vec'[i] = vec[i]
               /\ reported' = reported /\ overlapped' = overlapped
    <2>1. i # t.id
      BY <1>5 DEF LocalInv
    <2> QED BY <1>5, <2>1 DEF WriteVector, EmbedFails, WriteFails, TypeOK, db, history
  <1>6. CASE Reply(h)
    <2>1. i \notin job[h].ids
      BY DEF Touches
    <2> QED BY <1>6, <2>1 DEF Reply, db
  <1> QED BY <1>1, <1>2, <1>3, <1>4, <1>5, <1>6 DEF Arrive, Work

\* What is said of a record does not depend on anything else.
LEMMA SameRecord ==
    ASSUME NEW i \in Ids, raw'[i] = raw[i], emb'[i] = emb[i], vec'[i] = vec[i],
           (i \in reported)' <=> i \in reported
    PROVE  /\ Agrees(i)' <=> Agrees(i)
           /\ Steady(i)' <=> Steady(i)
           /\ NoOrphan(i)' <=> NoOrphan(i)
  BY DEF Agrees, Steady, NoOrphan

LEMMA HoldKept ==
    ASSUME NEW i \in Ids, NEW g \in Handlers, HoldInv(g, i),
           raw'[i] = raw[i], emb'[i] = emb[i], vec'[i] = vec[i],
           (i \in reported)' <=> i \in reported,
           pc'[g] = pc[g], job'[g] = job[g], rest'[g] = rest[g], todo'[g] = todo[g],
           failed'[g] = failed[g], locked'[g] = locked[g]
    PROVE  HoldInv(g, i)'
  <1>1. FillInv(g, i)' <=> FillInv(g, i)
    BY DEF FillInv, Syncing, Owed, Filled
  <1>2. Syncing(g)' <=> Syncing(g)
    BY DEF Syncing
  <1> QED BY <1>1, <1>2, SameRecord DEF HoldInv

----------------------------------------------------------------------------
\* What a handler is doing, step by step.

LEMMA ArriveLocal ==
    ASSUME TypeOK, NEW h \in Handlers, LocalInv(h), Arrive(h)
    PROVE  LocalInv(h)'
  <1>0. pc[h] = "idle" => /\ job[h] = NoJob /\ ~failed[h] /\ todo[h] = {} /\ rest[h] = {}
    BY NoJobTouches DEF LocalInv
  <1>1. ASSUME NEW i \in Ids, NEW v \in Vals, Create(h, i, v) \/ Update(h, i, v)
        PROVE  LocalInv(h)'
    <2>1. /\ pc[h] = "idle" /\ pc'[h] = "upsert" /\ job'[h] = WriteJob(i, v)
          /\ UNCHANGED <<rest, todo, failed>>
      BY <1>1 DEF Create, Update, Goto, Request, TypeOK
    <2> QED BY <1>0, <2>1 DEF LocalInv, WriteJob
  <1>2. ASSUME NEW i \in Ids, DeleteEmbedding(h, i)
        PROVE  LocalInv(h)'
    <2>1. /\ pc[h] = "idle" /\ pc'[h] = "delete"
          /\ job'[h] = [NoJob EXCEPT !.op = "delete", !.ids = {i}]
          /\ UNCHANGED <<rest, todo, failed>>
      BY <1>2 DEF DeleteEmbedding, Goto, Request, TypeOK
    <2>2. job'[h].op = "delete" /\ job'[h].ids = {i}
      BY <2>1 DEF NoJob
    <2> QED BY <1>0, <2>1, <2>2 DEF LocalInv
  <1>3. ASSUME NEW force \in BOOLEAN, NEW profs \in SUBSET Available, NEW ids \in SUBSET Ids,
               AdminIds(h, ids, force, profs)
        PROVE  LocalInv(h)'
    <2>1. /\ pc[h] = "idle" /\ pc'[h] = "fetch" /\ job'[h].op = "ids" /\ job'[h].ids = ids
          /\ rest'[h] = ids /\ UNCHANGED <<todo, failed>>
      BY <1>3 DEF AdminIds, Goto, Request, TypeOK
    <2> QED BY <1>0, <2>1 DEF LocalInv, Touches
  <1>4. ASSUME NEW force \in BOOLEAN, NEW profs \in SUBSET Available, AdminAll(h, force, profs)
        PROVE  LocalInv(h)'
    <2>1. /\ pc[h] = "idle" /\ pc'[h] = "select" /\ job'[h].op = "all" /\ job'[h].ids = {}
          /\ UNCHANGED <<rest, todo, failed>>
      BY <1>4 DEF AdminAll, Goto, Request, TypeOK
    <2> QED BY <1>0, <2>1 DEF LocalInv
  <1> QED BY <1>1, <1>2, <1>3, <1>4 DEF Arrive

LEMMA WorkLocal ==
    ASSUME TypeOK, NEW h \in Handlers, LocalInv(h), Work(h)
    PROVE  LocalInv(h)'
  <1>1. ASSUME NEW i \in Ids, Upsert(h, i) PROVE LocalInv(h)'
    <2>1. /\ pc[h] = "upsert" /\ pc'[h] = "fetch" /\ rest'[h] = job[h].ids
          /\ UNCHANGED <<job, todo, failed>>
      BY <1>1 DEF Upsert, Goto, TypeOK
    <2> QED BY <2>1 DEF LocalInv, Touches
  <1>2. ASSUME NEW i \in Ids, UpsertFails(h, i) PROVE LocalInv(h)'
    <2>1. /\ pc[h] = "upsert" /\ pc'[h] = "reply" /\ failed'[h] /\ UNCHANGED <<job, todo, rest>>
      BY <1>2 DEF UpsertFails, Goto, Fail, TypeOK
    <2> QED BY <2>1 DEF LocalInv
  <1>3. CASE DeleteFails(h) \/ \E i \in Ids : DeleteRaw(h, i)
    <2>1. /\ pc[h] = "delete" /\ pc'[h] = "reply" /\ UNCHANGED <<job, todo, rest>>
      BY <1>3 DEF DeleteFails, DeleteRaw, Goto, TypeOK
    <2> QED BY <2>1 DEF LocalInv
  <1>4. CASE SelectIds(h)
    <2>1. /\ pc[h] = "select" /\ pc'[h] \in {"reply", "fetch"}
          /\ pc'[h] = "reply" => rest'[h] = {}
          /\ UNCHANGED <<job, todo, failed>>
      BY <1>4 DEF SelectIds, Goto, TypeOK
    <2> QED BY <2>1 DEF LocalInv, Touches
  <1>5. CASE Fetch(h)
    <2>1. PICK batch \in SUBSET rest[h] :
            /\ todo'[h] = Tasked(h, batch)
            /\ rest'[h] = rest[h] \ batch
            /\ pc[h] = "fetch" /\ pc'[h] = "embed" /\ job' = job
      BY <1>5 DEF Fetch, Goto, TypeOK
    <2>2. \A t \in todo'[h] : t.id \in rest[h]
      BY <2>1 DEF Tasked
    <2> QED BY <2>1, <2>2 DEF LocalInv
  <1>6. CASE FetchAborted(h)
    <2>1. pc[h] = "fetch" /\ pc'[h] = "reply" /\ failed'[h] /\ UNCHANGED <<job, todo, rest>>
      BY <1>6 DEF FetchAborted, Goto, Fail, TypeOK
    <2> QED BY <2>1 DEF LocalInv
  <1>7. ASSUME NEW t \in todo[h], WriteVector(h, t) \/ EmbedFails(h, t) \/ WriteFails(h, t)
        PROVE  LocalInv(h)'
    <2>1. /\ pc[h] = "embed" /\ todo'[h] \subseteq todo[h] /\ UNCHANGED <<pc, job, rest>>
      BY <1>7 DEF WriteVector, EmbedFails, WriteFails, TypeOK
    <2> QED BY <2>1 DEF LocalInv
  <1>8. CASE EndBatch(h)
    <2>1. /\ pc[h] = "embed" /\ todo[h] = {} /\ pc'[h] \in {"reply", "fetch"}
          /\ pc'[h] = "reply" => rest[h] = {}
          /\ UNCHANGED <<job, rest, todo, failed>>
      BY <1>8 DEF EndBatch, Goto, TypeOK
    <2> QED BY <2>1 DEF LocalInv
  <1>9. CASE Reply(h)
    <2>1. /\ pc'[h] = "idle" /\ job'[h] = NoJob /\ rest'[h] = {} /\ todo'[h] = {} /\ ~failed'[h]
      BY <1>9 DEF Reply, Goto, TypeOK
    <2> QED BY <2>1 DEF LocalInv, NoJob
  <1> QED BY <1>1, <1>2, <1>3, <1>4, <1>5, <1>6, <1>7, <1>8, <1>9 DEF Work

----------------------------------------------------------------------------
\* What the one handler of a record owes it, step by step.

\* A request arrives: nobody works on the record yet.
LEMMA HoldArrive ==
    ASSUME TypeOK, NEW h \in Handlers, LocalInv(h), Arrive(h), NEW i \in Ids,
           Touches(job'[h], i), job'[h].op = "write" \/ (RestInv(i) /\ Steady(i))
    PROVE  HoldInv(h, i)' /\ NoOrphan(i)'
  <1>0. pc[h] = "idle" => todo[h] = {}
    BY DEF LocalInv
  <1>1. ASSUME NEW j \in Ids, NEW v \in Vals, Create(h, j, v) \/ Update(h, j, v)
        PROVE  HoldInv(h, i)' /\ NoOrphan(i)'
    <2>1. /\ pc[h] = "idle" /\ pc'[h] = "upsert" /\ job'[h] = WriteJob(j, v)
          /\ raw' = [raw EXCEPT ![j] = v] /\ todo' = todo
      BY <1>1 DEF Create, Update, Goto, Request, TypeOK
    <2>2. i = j /\ raw'[i] = v /\ v # Absent
      BY <2>1, RawDataSyncAssumption DEF Touches, WriteJob, TypeOK, Records
    <2> QED BY <1>0, <2>1, <2>2 DEF HoldInv, FillInv, NoOrphan, WriteJob, Syncing
  <1>2. ASSUME NEW j \in Ids, DeleteEmbedding(h, j)
        PROVE  HoldInv(h, i)' /\ NoOrphan(i)'
    <2>1. /\ pc[h] = "idle" /\ pc'[h] = "delete"
          /\ job'[h] = [NoJob EXCEPT !.op = "delete", !.ids = {j}]
          /\ locked'[h] = (emb[j] # Absent)
          /\ UNCHANGED <<raw, emb, vec, todo, reported>>
      BY <1>2 DEF DeleteEmbedding, Goto, Request, TypeOK, db
    <2>2. job'[h].op = "delete" /\ i = j
      BY <2>1 DEF Touches, NoJob
    <2>3. Steady(i)' /\ NoOrphan(i)'
      BY <2>1, <2>2, SameRecord DEF RestInv
    <2> QED BY <1>0, <2>1, <2>2, <2>3 DEF HoldInv, FillInv, Syncing
  <1>3. ASSUME NEW force \in BOOLEAN, NEW profs \in SUBSET Available, NEW ids \in SUBSET Ids,
               AdminIds(h, ids, force, profs)
        PROVE  HoldInv(h, i)' /\ NoOrphan(i)'
    <2>1. /\ pc[h] = "idle" /\ pc'[h] = "fetch" /\ job'[h].op = "ids" /\ job'[h].ids = ids
          /\ rest'[h] = ids
          /\ UNCHANGED <<raw, emb, vec, todo, reported>>
      BY <1>3 DEF AdminIds, Goto, Request, TypeOK, db
    <2>2. i \in ids
      BY <2>1 DEF Touches
    <2>3. Steady(i)' /\ NoOrphan(i)'
      BY <2>1, SameRecord DEF RestInv
    <2> QED BY <1>0, <2>1, <2>2, <2>3 DEF HoldInv, FillInv, Owed
  <1>4. ASSUME NEW force \in BOOLEAN, NEW profs \in SUBSET Available, AdminAll(h, force, profs)
        PROVE  HoldInv(h, i)' /\ NoOrphan(i)'
    <2>1. /\ pc[h] = "idle" /\ pc'[h] = "select" /\ job'[h].op = "all"
          /\ UNCHANGED <<raw, emb, vec, todo, reported>>
      BY <1>4 DEF AdminAll, Goto, Request, TypeOK, db
    <2>2. Steady(i)' /\ NoOrphan(i)'
      BY <2>1, SameRecord DEF RestInv
    <2> QED BY <1>0, <2>1, <2>2 DEF HoldInv, FillInv, Syncing
  <1> QED BY <1>1, <1>2, <1>3, <1>4 DEF Arrive

\* POST and PUT go on: the row gets the values of its record.
LEMMA HoldUpsert ==
    ASSUME TypeOK, NEW h \in Handlers, LocalInv(h), NEW i \in Ids, Touches(job[h], i),
           HoldInv(h, i), NoOrphan(i), NEW j \in Ids, Upsert(h, j) \/ UpsertFails(h, j)
    PROVE  HoldInv(h, i)' /\ NoOrphan(i)'
  <1>0. /\ pc[h] = "upsert" /\ job[h].op = "write" /\ j = i
        /\ job[h].val \in Vals /\ raw[i] = job[h].val /\ job[h].ids = {i}
        /\ todo[h] = {} /\ job' = job /\ UNCHANGED <<raw, vec, todo>>
    BY DEF LocalInv, HoldInv, Touches, Upsert, UpsertFails, db
  <1>1. raw[i] # Absent
    BY <1>0, RawDataSyncAssumption DEF Records
  <1>2. CASE Upsert(h, j)
    <2>1. pc'[h] = "fetch" /\ emb'[i] = AsRow(raw[i]) /\ i \in rest'[h]
      BY <1>0, <1>2 DEF Upsert, Goto, TypeOK
    <2> QED BY <1>0, <1>1, <2>1 DEF HoldInv, FillInv, NoOrphan, Owed
  <1>3. CASE UpsertFails(h, j)
    <2>1. pc'[h] = "reply" /\ failed'[h]
      BY <1>3 DEF UpsertFails, Goto, Fail, TypeOK
    <2> QED BY <1>0, <1>1, <2>1 DEF HoldInv, FillInv, NoOrphan
  <1> QED BY <1>2, <1>3

\* DELETE goes on: with the record goes its row, which nobody has touched.
LEMMA HoldDelete ==
    ASSUME TypeOK, NEW h \in Handlers, LocalInv(h), NEW i \in Ids, Touches(job[h], i),
           HoldInv(h, i), NoOrphan(i), DeleteFails(h) \/ \E j \in Ids : DeleteRaw(h, j)
    PROVE  HoldInv(h, i)' /\ NoOrphan(i)'
  <1>0. /\ pc[h] = "delete" /\ job[h].op = "delete" /\ todo[h] = {}
        /\ job[h].ids = {i}
        /\ locked[h] <=> emb[i] # Absent
        /\ Steady(i)
        /\ job' = job /\ todo' = todo /\ reported' = reported /\ pc'[h] = "reply"
    BY DEF LocalInv, HoldInv, Touches, DeleteFails, DeleteRaw, Goto, TypeOK, history
  <1>1. CASE UNCHANGED db /\ failed'[h]
    <2>1. NoOrphan(i)'
      BY <1>1, SameRecord DEF NoOrphan, db
    <2> QED BY <1>0, <1>1, <2>1 DEF HoldInv, FillInv, Syncing
  <1>2. ASSUME DeleteRaw(h, i), raw[i] # Absent
        PROVE  HoldInv(h, i)' /\ NoOrphan(i)'
    <2>1. /\ raw'[i] = Absent
          /\ emb'[i] = IF locked[h] THEN Absent ELSE emb[i]
      BY <1>2 DEF DeleteRaw, TypeOK
    <2>2. emb'[i] = Absent
      BY <1>0, <2>1
    <2> QED BY <1>0, <2>1, <2>2 DEF HoldInv, FillInv, Syncing, Agrees, NoOrphan
  <1>3. DeleteRaw(h, i) /\ raw[i] = Absent => UNCHANGED db /\ failed'[h]
    BY DEF DeleteRaw, TypeOK
  <1>4. DeleteFails(h) => UNCHANGED db /\ failed'[h]
    BY DEF DeleteFails, Fail, TypeOK
  <1>5. \A j \in Ids : DeleteRaw(h, j) => j = i
    BY <1>0 DEF DeleteRaw
  <1> QED BY <1>1, <1>2, <1>3, <1>4, <1>5

\* What a step that leaves the tables alone has to show.
LEMMA HoldStill ==
    ASSUME TypeOK, NEW h \in Handlers, LocalInv(h), NEW i \in Ids, HoldInv(h, i), NoOrphan(i),
           Syncing(h) \/ pc[h] = "select", Syncing(h)', pc'[h] # "delete",
           FillInv(h, i)', \A t \in todo'[h] : t.id = i => emb[i] # Absent /\ t.text = emb[i].text,
           failed[h] => failed'[h], UNCHANGED <<raw, emb, vec, job, reported>>
    PROVE  HoldInv(h, i)' /\ NoOrphan(i)'
  <1>1. job[h].op # "delete"
    BY DEF LocalInv, Syncing
  <1>2. /\ Agrees(i)' <=> Agrees(i)
        /\ Steady(i)' <=> Steady(i)
        /\ NoOrphan(i)'
    BY SameRecord DEF NoOrphan
  <1>3. pc[h] = "select" => job[h].op = "all"
    BY DEF LocalInv
  <1> QED BY <1>1, <1>2, <1>3 DEF HoldInv

LEMMA HoldSelect ==
    ASSUME TypeOK, NEW h \in Handlers, LocalInv(h), NEW i \in Ids, HoldInv(h, i), NoOrphan(i),
           SelectIds(h)
    PROVE  HoldInv(h, i)' /\ NoOrphan(i)'
  <1>0. /\ pc[h] = "select" /\ job[h].op = "all" /\ todo[h] = {}
        /\ UNCHANGED <<raw, emb, vec, job, todo, failed, reported>>
    BY DEF LocalInv, SelectIds, db, history
  <1>1. PICK ids \in {{j \in Ids : Missing(j, job[h].profs)}, {j \in Ids : emb[j] # Absent}} :
          /\ job[h].force => ids = {j \in Ids : emb[j] # Absent}
          /\ rest' = [rest EXCEPT ![h] = ids]
          /\ Goto(h, IF ids = {} THEN "reply" ELSE "fetch")
    BY DEF SelectIds
  <1>2. rest'[h] = ids /\ pc'[h] \in {"reply", "fetch"}
    BY <1>1 DEF Goto, TypeOK
  <1>3. FillInv(h, i)'
    <2> SUFFICES ASSUME emb[i] # Absent, i \notin ids, NEW p \in job[h].profs
                 PROVE  Filled(h, i, p)'
      BY <1>0, <1>2 DEF FillInv, Owed
    <2>1. ids = {j \in Ids : Missing(j, job[h].profs)} /\ ~job[h].force
      BY <1>1
    <2>2. vec[i][p] # Null
      BY <2>1 DEF Missing
    <2> QED BY <1>0, <2>1, <2>2 DEF Filled
  <1>4. Syncing(h)' /\ pc'[h] # "delete"
    BY <1>0, <1>2 DEF Syncing
  <1> QED BY <1>0, <1>3, <1>4, HoldStill

LEMMA HoldFetch ==
    ASSUME TypeOK, NEW h \in Handlers, LocalInv(h), NEW i \in Ids, HoldInv(h, i), NoOrphan(i),
           Fetch(h)
    PROVE  HoldInv(h, i)' /\ NoOrphan(i)'
  <1>0. /\ pc[h] = "fetch" /\ pc'[h] = "embed" /\ todo[h] = {}
        /\ UNCHANGED <<raw, emb, vec, job, reported>>
    BY DEF LocalInv, Fetch, Goto, TypeOK, db, history
  <1>1. PICK batch \in SUBSET rest[h] :
          /\ todo'[h] = Tasked(h, batch)
          /\ rest'[h] = rest[h] \ batch
          /\ failed'[h] = (failed[h] \/ job[h].profs = {} \/ \E j \in batch : emb[j] = Absent)
    BY DEF Fetch, TypeOK
  <1>2. \A t \in todo'[h] : t.id = i => emb[i] # Absent /\ t.text = emb[i].text
    BY <1>1 DEF Tasked
  <1>3. FillInv(h, i)'
    <2> SUFFICES ASSUME ~failed'[h], job[h].op = "all" => emb[i] # Absent
                 PROVE  /\ i \in rest'[h] \/ emb[i] # Absent
                        /\ \A p \in job[h].profs : Owed(h, i, p)' \/ Filled(h, i, p)'
      BY <1>0 DEF FillInv
    <2>1. job[h].profs \subseteq Available /\ emb[i] \in Records \union {Absent}
      BY DEF TypeOK, Jobs
    <2>2. ~failed[h] /\ \A j \in batch : emb[j] # Absent
      BY <1>1
    <2>3. /\ i \in rest[h] \/ emb[i] # Absent
          /\ \A p \in job[h].profs : Owed(h, i, p) \/ Filled(h, i, p)
      BY <1>0, <2>2 DEF HoldInv, FillInv, Syncing
    <2>4. CASE i \in batch
      <3> SUFFICES ASSUME NEW p \in job[h].profs PROVE Owed(h, i, p)' \/ Filled(h, i, p)'
        BY <2>2, <2>4
      <3> DEFINE t == [id |-> i, profile |-> p, text |-> emb[i].text]
      <3>1. emb[i] # Absent /\ emb[i].text \in Texts
        BY <2>1, <2>2, <2>4 DEF Records
      <3>2. t \in Tasks
        BY <2>1, <3>1 DEF Tasks
      <3>3. CASE job[h].force \/ vec[i][p] = Null
        BY <1>0, <1>1, <2>4, <3>1, <3>2, <3>3 DEF Tasked, Owed
      <3>4. CASE ~job[h].force /\ vec[i][p] # Null
        BY <1>0, <3>4 DEF Filled
      <3> QED BY <3>3, <3>4
    <2>5. CASE i \notin batch
      BY <1>0, <1>1, <2>3, <2>5 DEF Owed, Filled
    <2> QED BY <2>4, <2>5
  <1>4. failed[h] => failed'[h]
    BY <1>1
  <1>5. Syncing(h) /\ Syncing(h)'
    BY <1>0 DEF Syncing
  <1> QED BY <1>0, <1>2, <1>3, <1>4, <1>5, HoldStill

\* The vector of a task is that of the feedback its row still has.
LEMMA HoldWrite ==
    ASSUME TypeOK, NEW h \in Handlers, LocalInv(h), NEW i \in Ids, HoldInv(h, i), NoOrphan(i),
           NEW t \in todo[h], WriteVector(h, t)
    PROVE  HoldInv(h, i)' /\ NoOrphan(i)'
  <1>0. /\ pc[h] = "embed" /\ job[h].op \in {"write", "ids", "all"}
        /\ UNCHANGED <<raw, emb, pc, job, rest, failed, reported>>
        /\ todo'[h] = todo[h] \ {t}
    BY DEF LocalInv, WriteVector, TypeOK, history
  <1>1. /\ t.id \in Ids /\ t.profile \in Profiles /\ t.text \in Texts
        /\ t = [id |-> t.id, profile |-> t.profile, text |-> t.text]
    BY RawDataSyncAssumption DEF TypeOK, Tasks
  <1>2. t.id = i => emb[i] # Absent /\ t.text = emb[i].text /\ emb[i].text # Null
    BY <1>1, RawDataSyncAssumption DEF HoldInv
  <1>3. /\ t.id = i => vec'[i][t.profile] = emb[i].text
        /\ \A p \in Profiles : vec'[i][p] = vec[i][p] \/ (i = t.id /\ p = t.profile)
    BY <1>1, <1>2 DEF WriteVector, TypeOK
  <1>4. FillInv(h, i)'
    <2> SUFFICES ASSUME ~failed[h], job[h].op = "all" => emb[i] # Absent
                 PROVE  /\ i \in rest[h] \/ emb[i] # Absent
                        /\ \A p \in job[h].profs : Owed(h, i, p)' \/ Filled(h, i, p)'
      BY <1>0 DEF FillInv
    <2>1. /\ i \in rest[h] \/ emb[i] # Absent
          /\ \A p \in job[h].profs : Owed(h, i, p) \/ Filled(h, i, p)
      BY <1>0 DEF HoldInv, FillInv, Syncing
    <2> SUFFICES ASSUME NEW p \in job[h].profs PROVE Owed(h, i, p)' \/ Filled(h, i, p)'
      BY <2>1
    <2>2. p \in Profiles
      BY RawDataSyncAssumption DEF TypeOK, Jobs
    <2>3. CASE i = t.id /\ p = t.profile
      BY <1>0, <1>2, <1>3, <2>3 DEF Filled
    <2>4. CASE ~(i = t.id /\ p = t.profile)
      <3>1. vec'[i][p] = vec[i][p]
        BY <1>3, <2>2, <2>4
      <3>2. t # [id |-> i, profile |-> p, text |-> emb[i].text]
        BY <2>4
      <3> QED BY <1>0, <2>1, <3>1, <3>2 DEF Owed, Filled
    <2> QED BY <2>3, <2>4
  <1>5. Agrees(i) => Agrees(i)'
    <2> SUFFICES ASSUME Agrees(i), raw[i] # Absent
                 PROVE  \A p \in Available : vec'[i][p] = raw[i].text
      BY <1>0 DEF Agrees
    <2>1. emb[i] = AsRow(raw[i]) /\ raw[i] \in Vals /\ \A p \in Available : vec[i][p] = raw[i].text
      BY DEF Agrees, TypeOK
    <2>2. emb[i].text = raw[i].text
      BY <2>1, RowType
    <2> QED BY <1>3, <2>1, <2>2, RawDataSyncAssumption
  <1>6. Steady(i) => Steady(i)'
    BY <1>0, <1>5 DEF Steady
  <1> QED BY <1>0, <1>4, <1>5, <1>6 DEF HoldInv, NoOrphan, Syncing

\* A failure on the way: the reply will tell.
LEMMA HoldFails ==
    ASSUME TypeOK, NEW h \in Handlers, LocalInv(h), NEW i \in Ids, HoldInv(h, i), NoOrphan(i),
           FetchAborted(h) \/ \E t \in todo[h] : EmbedFails(h, t) \/ WriteFails(h, t)
    PROVE  HoldInv(h, i)' /\ NoOrphan(i)'
  <1>0. /\ pc[h] \in {"fetch", "embed"} /\ pc'[h] \in {"embed", "reply"} /\ failed'[h]
        /\ todo'[h] \subseteq todo[h]
        /\ UNCHANGED <<raw, emb, vec, job, rest, reported>>
    BY DEF FetchAborted, EmbedFails, WriteFails, Goto, Fail, TypeOK, db, history
  <1>1. FillInv(h, i)' /\ Syncing(h) /\ job[h].op # "delete"
    BY <1>0 DEF FillInv, Syncing, LocalInv
  <1>2. \A t \in todo'[h] : t.id = i => emb[i] # Absent /\ t.text = emb[i].text
    BY <1>0 DEF HoldInv
  <1>3. Syncing(h)'
    BY <1>0, <1>1 DEF Syncing
  <1> QED BY <1>0, <1>1, <1>2, <1>3, HoldStill

LEMMA HoldEndBatch ==
    ASSUME TypeOK, NEW h \in Handlers, LocalInv(h), NEW i \in Ids, HoldInv(h, i), NoOrphan(i),
           EndBatch(h)
    PROVE  HoldInv(h, i)' /\ NoOrphan(i)'
  <1>0. /\ pc[h] = "embed" /\ todo[h] = {} /\ pc'[h] \in {"reply", "fetch"}
        /\ UNCHANGED <<raw, emb, vec, job, rest, todo, failed, reported>>
    BY DEF EndBatch, Goto, TypeOK, db, history
  <1>1. Syncing(h) /\ Syncing(h)'
    BY <1>0 DEF LocalInv, Syncing
  <1>2. FillInv(h, i)'
    BY <1>0, <1>1 DEF HoldInv, FillInv, Owed, Filled
  <1> QED BY <1>0, <1>1, <1>2, HoldStill

\* A write that ends without a failure has its row and all vectors.
LEMMA HoldReply ==
    ASSUME TypeOK, NEW h \in Handlers, LocalInv(h), NEW i \in Ids, Touches(job[h], i),
           HoldInv(h, i), NoOrphan(i), Reply(h)
    PROVE  Steady(i)' /\ NoOrphan(i)'
  <1>0. pc[h] = "reply" /\ UNCHANGED <<raw, emb, vec>>
    BY DEF Reply, db
  <1>1. (Agrees(i)' <=> Agrees(i)) /\ NoOrphan(i)'
    BY <1>0 DEF Agrees, NoOrphan
  <1>2. CASE job[h].op \notin {"write", "delete"}
    <2>1. reported' = reported
      BY <1>2 DEF Reply
    <2>2. job[h].op \in {"ids", "all"}
      BY <1>0, <1>2 DEF TypeOK, Jobs, LocalInv
    <2> QED BY <1>1, <2>1, <2>2 DEF HoldInv, Steady
  <1>3. CASE job[h].op \in {"write", "delete"} /\ failed[h]
    <2>1. reported' = reported \union job[h].ids
      BY <1>3 DEF Reply
    <2>2. i \in job[h].ids
      BY <1>3 DEF Touches
    <2> QED BY <1>1, <2>1, <2>2 DEF Steady
  <1>4. CASE job[h].op = "delete" /\ ~failed[h]
    BY <1>0, <1>1, <1>4 DEF HoldInv, Steady
  <1>5. CASE job[h].op = "write" /\ ~failed[h]
    <2>1. /\ emb[i] = AsRow(raw[i]) /\ raw[i] = job[h].val /\ job[h].val \in Vals
          /\ rest[h] = {} /\ todo[h] = {} /\ job[h].force /\ job[h].profs = Available
      BY <1>0, <1>5 DEF LocalInv, HoldInv, Syncing
    <2>2. \A p \in Available : Filled(h, i, p)
      BY <1>0, <1>5, <2>1 DEF HoldInv, FillInv, Syncing, Owed
    <2>3. raw[i] # Absent /\ emb[i].text = raw[i].text
      BY <2>1, RowType, RawDataSyncAssumption DEF Records
    <2>4. Agrees(i)
      BY <2>1, <2>2, <2>3 DEF Filled, Agrees
    <2> QED BY <1>1, <2>4 DEF Steady
  <1> QED BY <1>2, <1>3, <1>4, <1>5

----------------------------------------------------------------------------
\* A record that is not overlapped after a step had one handler at most, and
\* none at all if a POST or PUT has just freed it.
LEMMA SoleStep ==
    ASSUME TypeOK, SyncInv, NEW h \in Handlers, Arrive(h) \/ Work(h), NEW i \in Ids \ overlapped'
    PROVE  /\ \A g, k \in Handlers : Touches(job'[g], i) /\ Touches(job'[k], i) => g = k
           /\ i \notin overlapped \/ (job'[h].op = "write" /\ Touches(job'[h], i))
           /\ Arrive(h) /\ Touches(job'[h], i) =>
                \A g \in Handlers \ {h} : ~Touches(job[g], i)
  <1>1. \A g \in Handlers \ {h} : job'[g] = job[g]
    BY OthersRest
  <1>2. CASE Work(h)
    <2>1. overlapped' = overlapped
      BY <1>2 DEF Work, Upsert, UpsertFails, DeleteRaw, DeleteFails, SelectIds, Fetch,
                  FetchAborted, WriteVector, EmbedFails, WriteFails, EndBatch, Reply, history
    <2>2. job'[h] = job[h] \/ job'[h] = NoJob
      BY <1>2 DEF Work, Upsert, UpsertFails, DeleteRaw, DeleteFails, SelectIds, Fetch,
                  FetchAborted, WriteVector, EmbedFails, WriteFails, EndBatch, Reply, TypeOK
    <2>3. \A g \in Handlers : Touches(job'[g], i) => Touches(job[g], i)
      BY <1>1, <2>2, NoJobTouches
    <2>4. i \in Ids \ overlapped
      BY <2>1
    <2>5. \A g, k \in Handlers : Touches(job[g], i) /\ Touches(job[k], i) => g = k
      BY <2>4 DEF SyncInv, SoleInv
    <2>6. \A g, k \in Handlers : Touches(job'[g], i) /\ Touches(job'[k], i) => g = k
      BY <2>3, <2>5
    <2>7. Touches(job'[h], i) => \A g \in Handlers \ {h} : ~Touches(job[g], i)
      BY <2>3, <2>5
    <2> QED BY <2>4, <2>6, <2>7
  <1>3. CASE Arrive(h)
    <2>1. \E j : Request(h, j)
      BY <1>3 DEF Arrive, Create, Update, DeleteEmbedding, AdminIds, AdminAll
    <2>2. PICK j : Request(h, j)
      BY <2>1
    <2>3. job'[h] = j
      BY <2>2 DEF Request, TypeOK
    <2>4. Touches(j, i) => \A g \in Handlers \ {h} : ~Touches(job[g], i)
      BY <2>2 DEF Request
    <2>5. i \notin overlapped \/ (j.op = "write" /\ Touches(j, i))
      BY <2>2, <2>4 DEF Request
    <2>6. ASSUME NEW g \in Handlers, NEW k \in Handlers,
                 Touches(job'[g], i), Touches(job'[k], i), g # k
          PROVE  FALSE
      <3>1. ~Touches(j, i)
        BY <1>1, <2>3, <2>4, <2>6
      <3>2. g # h /\ k # h
        BY <2>3, <2>6, <3>1
      <3>3. Touches(job[g], i) /\ Touches(job[k], i) /\ i \notin overlapped
        BY <1>1, <2>5, <2>6, <3>1, <3>2
      <3> QED BY <2>6, <3>3 DEF SyncInv, SoleInv
    <2>7. \A g, k \in Handlers : Touches(job'[g], i) /\ Touches(job'[k], i) => g = k
      BY <2>6
    <2>8. i \notin overlapped \/ (job'[h].op = "write" /\ Touches(job'[h], i))
      BY <2>3, <2>5
    <2>9. Touches(job'[h], i) => \A g \in Handlers \ {h} : ~Touches(job[g], i)
      BY <2>3, <2>4
    <2> QED BY <2>7, <2>8, <2>9
  <1> QED BY <1>2, <1>3

\* What the step of a handler does for a record it works on.
LEMMA OwnStep ==
    ASSUME TypeOK, NEW h \in Handlers, LocalInv(h), Work(h), NEW i \in Ids, Touches(job[h], i),
           HoldInv(h, i), NoOrphan(i)
    PROVE  /\ NoOrphan(i)'
           /\ IF Reply(h) THEN Steady(i)' ELSE HoldInv(h, i)'
  BY HoldUpsert, HoldDelete, HoldSelect, HoldFetch, HoldWrite, HoldFails, HoldEndBatch,
     HoldReply DEF Work

LEMMA StepRecord ==
    ASSUME TypeOK, SyncInv, NEW h \in Handlers, Arrive(h) \/ Work(h), NEW i \in Ids \ overlapped'
    PROVE  RestInv(i)' /\ \A g \in Handlers : Touches(job'[g], i) => HoldInv(g, i)'
  <1>0. LocalInv(h)
    BY DEF SyncInv
  <1>1. /\ i \notin overlapped \/ (job'[h].op = "write" /\ Touches(job'[h], i))
        /\ \A g, k \in Handlers : Touches(job'[g], i) /\ Touches(job'[k], i) => g = k
    BY SoleStep
  <1>2. \A g \in Handlers \ {h} : job'[g] = job[g]
    BY OthersRest
  <1>3. CASE ~Touches(job[h], i) /\ ~Touches(job'[h], i)
    <2>1. /\ raw'[i] = raw[i] /\ emb'[i] = emb[i] /\ vec'[i] = vec[i]
          /\ (i \in reported)' <=> i \in reported
          /\ i \notin overlapped
      BY <1>0, <1>1, <1>3, UntouchedStay
    <2>2. RestInv(i)
      BY <2>1 DEF SyncInv
    <2>3. \A g \in Handlers : Touches(job'[g], i) <=> Touches(job[g], i)
      BY <1>2, <1>3
    <2>4. RestInv(i)'
      BY <2>1, <2>2, <2>3, SameRecord DEF RestInv
    <2>5. ASSUME NEW g \in Handlers, Touches(job'[g], i) PROVE HoldInv(g, i)'
      <3>1. g # h /\ HoldInv(g, i)
        BY <1>3, <2>1, <2>3, <2>5 DEF SyncInv
      <3>2. /\ pc'[g] = pc[g] /\ job'[g] = job[g] /\ rest'[g] = rest[g] /\ todo'[g] = todo[g]
            /\ failed'[g] = failed[g] /\ locked'[g] = locked[g]
        BY <3>1, OthersRest
      <3> QED BY <2>1, <3>1, <3>2, HoldKept
    <2> QED BY <2>4, <2>5
  <1>4. CASE Touches(job'[h], i) /\ Arrive(h)
    <2>1. \A g \in Handlers \ {h} : ~Touches(job[g], i)
      BY <1>4, SoleStep
    <2>2. ~Touches(job[h], i)
      <3>1. pc[h] = "idle"
        BY <1>4 DEF Arrive, Create, Update, DeleteEmbedding, AdminIds, AdminAll
      <3> QED BY <1>0, <3>1, NoJobTouches DEF LocalInv
    <2>3. job'[h].op = "write" \/ (RestInv(i) /\ Steady(i))
      BY <1>1, <2>1, <2>2 DEF SyncInv, RestInv
    <2>4. HoldInv(h, i)' /\ NoOrphan(i)'
      BY <1>0, <1>4, <2>3, HoldArrive
    <2> QED BY <1>1, <1>4, <2>4 DEF RestInv
  <1>5. CASE Touches(job[h], i) /\ Work(h)
    <2>1. i \notin overlapped
      <3>1. job'[h] = job[h] \/ job'[h] = NoJob
        BY <1>5 DEF Work, Upsert, UpsertFails, DeleteRaw, DeleteFails, SelectIds, Fetch,
                    FetchAborted, WriteVector, EmbedFails, WriteFails, EndBatch, Reply, TypeOK
      <3>2. overlapped' = overlapped
        BY <1>5 DEF Work, Upsert, UpsertFails, DeleteRaw, DeleteFails, SelectIds, Fetch,
                    FetchAborted, WriteVector, EmbedFails, WriteFails, EndBatch, Reply, history
      <3> QED BY <3>2
    <2>2. HoldInv(h, i) /\ NoOrphan(i)
      BY <1>5, <2>1 DEF SyncInv, RestInv
    <2>3. NoOrphan(i)' /\ IF Reply(h) THEN Steady(i)' ELSE HoldInv(h, i)'
      BY <1>0, <1>5, <2>2, OwnStep
    <2>4. CASE Reply(h)
      <3>1. job'[h] = NoJob
        BY <2>4 DEF Reply, TypeOK
      <3>2. \A g \in Handlers \ {h} : ~Touches(job[g], i)
        BY <1>5, <2>1 DEF SyncInv, SoleInv
      <3>3. \A g \in Handlers : ~Touches(job'[g], i)
        BY <1>2, <3>1, <3>2, NoJobTouches
      <3> QED BY <2>3, <2>4, <3>3 DEF RestInv
    <2>5. CASE ~Reply(h)
      <3>1. job'[h] = job[h]
        BY <1>5, <2>5 DEF Work, Upsert, UpsertFails, DeleteRaw, DeleteFails, SelectIds, Fetch,
                    FetchAborted, WriteVector, EmbedFails, WriteFails, EndBatch
      <3>2. Touches(job'[h], i)
        BY <1>5, <3>1
      <3> QED BY <1>1, <2>3, <2>5, <3>2 DEF RestInv
    <2> QED BY <2>4, <2>5
  <1>6. Touches(job[h], i) => Work(h)
    <2>1. Arrive(h) => pc[h] = "idle"
      BY DEF Arrive, Create, Update, DeleteEmbedding, AdminIds, AdminAll
    <2> QED BY <1>0, <2>1, NoJobTouches DEF LocalInv
  <1>7. Touches(job'[h], i) /\ ~Touches(job[h], i) => Arrive(h)
    <2>1. Work(h) => job'[h] = job[h] \/ job'[h] = NoJob
      BY DEF Work, Upsert, UpsertFails, DeleteRaw, DeleteFails, SelectIds, Fetch,
             FetchAborted, WriteVector, EmbedFails, WriteFails, EndBatch, Reply, TypeOK
    <2> QED BY <2>1, NoJobTouches
  <1> QED BY <1>3, <1>4, <1>5, <1>6, <1>7

LEMMA SyncNext ==
    ASSUME TypeOK, SyncInv, [Next]_vars
    PROVE  SyncInv'
  <1>1. ASSUME NEW h \in Handlers, Arrive(h) \/ Work(h)
        PROVE  SyncInv'
    <2>1. SoleInv'
      BY <1>1, SoleStep DEF SoleInv
    <2>2. ASSUME NEW g \in Handlers PROVE LocalInv(g)'
      <3>1. CASE g = h
        BY <1>1, <3>1, ArriveLocal, WorkLocal DEF SyncInv
      <3>2. CASE g # h
        <4>1. /\ pc'[g] = pc[g] /\ job'[g] = job[g] /\ rest'[g] = rest[g] /\ todo'[g] = todo[g]
              /\ failed'[g] = failed[g]
          BY <1>1, <3>2, OthersRest
        <4>2. LocalInv(g)
          BY DEF SyncInv
        <4> QED BY <4>1, <4>2 DEF LocalInv
      <3> QED BY <3>1, <3>2
    <2>3. \A i \in Ids \ overlapped' :
            RestInv(i)' /\ \A g \in Handlers : Touches(job'[g], i) => HoldInv(g, i)'
      BY <1>1, StepRecord
    <2> QED BY <2>1, <2>2, <2>3 DEF SyncInv
  <1>2. CASE UNCHANGED vars
    <2>1. \A i \in Ids : (Steady(i)' <=> Steady(i)) /\ (RestInv(i)' <=> RestInv(i))
      BY <1>2 DEF vars, db, history, Steady, Agrees, RestInv, NoOrphan
    <2>2. \A g \in Handlers, i \in Ids : HoldInv(g, i) => HoldInv(g, i)'
      BY <1>2, HoldKept DEF vars, db, history
    <2>3. \A g \in Handlers : LocalInv(g)' <=> LocalInv(g)
      BY <1>2 DEF vars, LocalInv
    <2>4. SoleInv' <=> SoleInv
      BY <1>2 DEF vars, history, SoleInv
    <2>5. overlapped' = overlapped /\ job' = job
      BY <1>2 DEF vars, history
    <2> QED BY <2>1, <2>2, <2>3, <2>4, <2>5 DEF SyncInv
  <1> QED BY <1>1, <1>2 DEF Next

LEMMA SyncInvariance == Spec => [](TypeOK /\ SyncInv)
  BY SyncInit, SyncNext, TypeCorrect, PTL DEF Spec

\* For any number of requests at a time: a record that no two of them worked on
\* together and nobody works on now has its row, with the values scalar_row_tuple
\* makes of the record, and all of its vectors, or the last reply said otherwise;
\* and no deleted record keeps a row.
THEOREM RowsFollowRecords == Spec => []TableFollowsRecords
  <1>1. ASSUME TypeOK, SyncInv, NEW i \in Ids \ overlapped
        PROVE  /\ Agrees(i) \/ Busy(i) \/ i \in reported
               /\ emb[i] # Absent => raw[i] # Absent
    <2>1. RestInv(i)
      BY <1>1 DEF SyncInv
    <2>2. CASE \A h \in Handlers : ~Touches(job[h], i)
      BY <2>1, <2>2 DEF RestInv, Steady, NoOrphan
    <2>3. ASSUME NEW h \in Handlers, Touches(job[h], i)
          PROVE  Agrees(i) \/ Busy(i) \/ i \in reported
      <3>1. CASE job[h].op = "all"
        BY <1>1, <2>3, <3>1 DEF SyncInv, HoldInv, Steady
      <3>2. CASE job[h].op # "all"
        BY <2>3, <3>2 DEF Touches, Busy
      <3> QED BY <3>1, <3>2
    <2> QED BY <2>1, <2>2, <2>3 DEF RestInv, NoOrphan
  <1>2. TypeOK /\ SyncInv => TableFollowsRecords
    BY <1>1 DEF TableFollowsRecords
  <1> QED BY <1>2, SyncInvariance, PTL

\* For any number of requests at a time, a sync that reports no failure has filled
\* the rows no other request worked on.
THEOREM SyncsFill == Spec => []SyncFills
  <1>1. ASSUME TypeOK, SyncInv PROVE SyncFills
    <2> SUFFICES ASSUME NEW h \in Handlers, NEW i \in Ids \ overlapped, pc[h] = "reply",
                        ~failed[h],
                        job[h].op \in {"all", "ids"}, job[h].op = "ids" => i \in job[h].ids
                 PROVE  /\ job[h].op = "ids" => emb[i] # Absent
                        /\ emb[i] # Absent => \A p \in job[h].profs :
                            /\ vec[i][p] # Null
                            /\ job[h].force => vec[i][p] = emb[i].text
      BY DEF SyncFills
    <2>1. Touches(job[h], i) /\ Syncing(h)
      BY DEF Touches, Syncing
    <2>2. rest[h] = {} /\ todo[h] = {} /\ HoldInv(h, i)
      BY <1>1, <2>1 DEF SyncInv, LocalInv
    <2>3. job[h].op = "ids" \/ emb[i] # Absent =>
            emb[i] # Absent /\ \A p \in job[h].profs : Filled(h, i, p)
      BY <2>1, <2>2 DEF HoldInv, FillInv, Owed
    <2> QED BY <2>3 DEF Filled
  <1>2. TypeOK /\ SyncInv => SyncFills
    BY <1>1
  <1> QED BY <1>2, SyncInvariance, PTL
=============================================================================
