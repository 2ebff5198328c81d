# Formal models of the fridge-analytics application

TLA+ models of the parts of this repository that carry its own logic, checked
with TLC; their safety properties are proved with TLAPS for every value of the
constants.
Paths are relative to `src/`. `PROJECT.json` maps every definition to the lines
it stands for and lists the runs, the mutants, the hazards and the theorems.

## 1. The system

A Flask backend answers questions about refrigerator sales with an agent that
plans tool calls (SQL, vector search, SQL generation), a React panel shows the
agent's progress over server-sent events, endpoints edit the records and keep
their embeddings in step, and a Spark job turns the records into snapshots that
`/analytics` serves. Around it lies a set of tools, larger than the application,
that build its images, deploy it to AWS, GCP or a local cluster and tear it down
again.

| Component | State | Operations | Hard behaviour |
|---|---|---|---|
| **SSE stream** `core_app/backend/api/app.py` `query_stream` | an unbounded queue, the `agent_complete` event, a generator, an agent thread per request | put events, report an exception, set the flag, put the sentinel; get, time out, poll, yield, `GeneratorExit` | two threads and a client that may be gone; a poll behind a timeout |
| **Chat panel** `core_app/frontend/src/App.tsx` | `eventSourceRef`, `isStreaming`, messages, execution log | send, four listeners, unmount | events of a stream racing its end; two handlers for one `error`; a second question |
| **Query agent** `core_app/backend/agents/query_agent.py` and `tools/` | per request: iteration, plan, results; shared: the LLM client of `generate_sql`, `_current_question` | plan, three tools, chained SQL, recovered SQL, synthesis | any plan the LLM makes; requests sharing the tools |
| **Raw data and embeddings** `app.py` `/rawdata`, `services/embedding_sync*.py` | `fru_sales_raw`, `fru_sales_embeddings` with one vector column per profile | POST, PUT, DELETE, sync by id, sync of all | several transactions per request, partial failures, row locks |
| **Batch analytics** `core_app/analytics/jobs/` | a Delta table, `batch_analytics`, `analytics_run_status` | read, overwrite with retry, aggregate, save, record, self-check | two schedulers on the same tables, kills, a status row for all |
| **Local scheduler and run status** `tools/local/scheduler_local.py`, `tools/cloud_shared/analytics_run_status.py` | the status row | record at the end of a run, derive a severity | exit code and status tell different stories |
| **Connection pool and agent start** `app.py` | `_connection_pool`, `query_agent`, `_agent_init_error` | `init_db_pool`, `init_agent`, `ensure_agent`, `get_db_conn`, `return_db_conn`, and direct uses of the pool | lazy initialisation by many threads without a lock; a pool at its limit |
| **Analytics panel and record table** `core_app/frontend/src/components/` | what was fetched, the page, a dialog, busy flags | fetch, poll, refresh; list, page, add, edit, delete; mount, unmount | answers out of order, late or lost; flags shared by requests |
| **Retry and heartbeat helpers** `tools/cloud_shared/retry/`, `tools/aws/scope_shared/core/auth_retry.py` | a child process, the lists its reader threads fill, attempts | run, read, time out, kill, decide, run again | a decision on output that is still being read |
| **AWS deploy and teardown** `tools/aws/` | five stacks, their state files, the bucket that holds them, an ECS service that drains, a CDN | ordered phases, probes, imports, destroys | any phase failing or killed; resources no state file lists |
| **Deploys to Kubernetes** `tools/aws/kube/`, `tools/gcp/kube/`, `tools/local/kube/` | three clusters, one kubectl context, a Service, a Job, a CronJob, the CDN's origin | look up the hostname, apply, manifests, wire again; clean, destroy | a context that another tool has set; calls whose exit code nobody looks at |
| **GCP deploy, teardown and database set-up** `tools/gcp/` | stacks, peering, password in two places, Cloud SQL, executions of a Cloud Run job | phases, job with poll and fallback, schema, load | executions that outlive the tool; phases that may be passed over |
| **Image builds, tags and registry** `tools/cloud_shared/docker/`, `image_*.py`, `build_and_push_images.py` | images, tags, stored hashes of the tree | hash, skip, build, push, store, resolve | a source that changes under a build; a build stopped halfway |
| POST `/query`, local deploy and teardown | | | as far as they share state with the above |
| Model and embedding catalog, metrics, LLM clients, ETL, kube proxy, orchestrator, Terraform, demos, docs, tests | | | not modelled, see section 6 |

How they meet: the panel opens `/query/stream`; the handler borrows a
connection, makes sure there is an agent, and starts a thread that runs the
agent with a callback onto the stream's queue; the agent's tools take
connections from the pool the agent was built with and search the rows which
the raw-data endpoints maintain; the batch job reads the same records. A deploy
builds images, applies stacks one on top of the other, sets up the database and
the cluster, each command through the retry helpers; a teardown undoes the
stacks in the other order.

What makes each correct:

- stream: a run's verdict is final, is queued before the flag says so, and
  reaches a client that stays; both threads end;
- panel: one outcome per question, the form locked exactly while a stream is
  open;
- agent: it stops at the first rows, runs the SQL it has generated unless the
  planner's own gives rows, and shows a text of the LLM only if that was given rows;
- raw data: row and vectors follow the record, or the reply said they do not;
- analytics: a snapshot is no older than its run and never of an emptied table,
  and "ok" means that one was saved;
- pool: who takes a connection gives it back, and a missing agent is explained;
- panels: what is shown is of the page and of after the user's own edits, and
  the latest wins in the end;
- retries: a rerun is due to what the command wrote, and what went well is not
  done again;
- AWS and GCP: what exists stays known to what would remove it, and nothing
  stands on what is gone;
- kube: a tool works on its own cluster and wires its own CDN;
- images: in the clouds, what is skipped is there and current, and what is
  deployed exists.

## 2. The modules

| Module | Models | Checked by | Proofs |
|---|---|---|---|
| `QueryStream` | one SSE stream per request | `MCChatSession` | `Frontend_proofs` |
| `QuestionOutcome` | the promise to the user: a question is asked, then resolved once | through `ChatSession` | |
| `ChatSession` | the panel, extending `QueryStream` | `MCChatSession` | `Frontend_proofs` |
| `QueryAgent` | `process_query` and the tools | `MCQueryAgent` | `QueryAgent_proofs` |
| `RawDataSync` | `/rawdata` and the embedding sync | `MCRawDataSync` | `RawDataSync_proofs` |
| `BatchAnalytics` | the job, its schedulers, the status | `MCBatchAnalytics` | `BatchAnalytics_proofs` |
| `DbPool` | the pool and the start of the agent | `MCDbPool` | `DbPool_proofs` |
| `CommandRetry` | a command of the tools and its retries | `MCCommandRetry` | `AwsTools_proofs` |
| `AwsCloud`, `AwsTeardown`, `AwsDeploy`, `AwsDbSetup`, `AwsLifecycle` | the account; the two tools; the database set-up of the deploy; the operator | `MCAwsLifecycle` | `AwsTools_proofs` |
| `KubeClusters`, `KubeDeploy`, `KubeRollout` | clusters and kubectl; the deploys; teardowns and the operator | `MCKubeRollout` | `KubeRollout_proofs` |
| `ImageRegistry`, `ImageRelease` | trees, tags and registries; the builds and deploys | `MCImageRelease` | `CloudDeploys_proofs` |
| `GcpDatabase`, `GcpDbSetup`, `GcpLifecycle` | database and executions; the set-up; the two tools | `MCGcpLifecycle` | `CloudDeploys_proofs` |
| `AnalyticsPanel`, `RecordsPanel`, `AppShell` | the two panels; the tabs that mount them | `MCAppShell` | `Frontend_proofs` |

Where several modules are named, each extends the ones before it. Operators
named `Def_Variant` and commented "Mutant:" are faulty versions of `Def`. No
specification uses them; with one of them in the place of `Def`, TLC finds the
property named in `PROJECT.json` violated.

### QueryStream

A queue that is FIFO and unbounded is the log of all that was put on it (`log`)
with the number of items taken (`taken`) and yielded (`written`). `agentPc`
follows `run_agent` and `genPc` follows `generate`. An event is `progress`, one
of the verdicts `complete` and `error`, or the sentinel. `AgentProgress` stands
for every event but the last, `AgentRaise` for the client factory that raises
outside the agent's `try`, `RepeatComplete` for the second `complete` that
`run_agent` sends. The timeout and the look at the flag are two steps
(`GetTimeout`, `PollComplete`), as in the code. A client that leaves
(`Disconnect`) is noticed only by a write that fails (`YieldFails`), and a write
to a closed connection may still succeed.

### ChatSession and QuestionOutcome

JavaScript handlers are atomic, so a listener is an action. `seen` counts the
events dispatched, always in the order they were yielded and never after
`close()`. A server event named `error` runs both the `error` listener and
`onerror`; `Failure` keeps both messages. `Unmount` is the effect's cleanup.
`QuestionOutcome` sees of all this a question that goes from unasked to pending
to one of answered, failed or abandoned; `OutcomeOf` is the refinement mapping,
and `ImplementsQuestionOutcome` includes the abstract fairness.

### QueryAgent

One action per tool call, with all it changes: the result that is recorded, the flag
that leaves the loop, the row of the execution log. A plan is a sequence of tool
names, from which TLC takes any of `Plans`; results are the outcomes the loop tells
apart (rows, none, failed; an executable SELECT, other text, failed). A name that is
no tool starts a row and goes on, as in the code. `ResolveSql` is the choice of the
SQL that an `execute_sql` runs (`display_truncate.py:78-91`): an executable SELECT in
the call itself comes first, else the latest text that was generated; `of` in its
result says which (0 is the planner's own). `AutoChain` is the `execute_sql` chained
to `generate_sql`, `Recover` the one after the loop, which runs or raises
(`recovered`). `llm_client` and `_current_question` are the fields that requests
share.

### RawDataSync

An action is a transaction, or a step of one that others can see: `Create` or
`Update` (the record), `Upsert` (the row), then per batch `Fetch` and one
`WriteVector`, `EmbedFails` or `WriteFails` per row and profile, and `Reply`.
`DeleteEmbedding` and `DeleteRaw` are the two statements of a DELETE, whose
effects appear together; in between, the row is locked and writers wait
(`Waits`). Of a record stand its feedback and one other column. `AsRow` is the
conversion of `scalar_row_tuple`, which takes 0 and the empty text for missing and
writes NULL or a default in their place. A vector stands as the feedback it embeds.
`reported`, `upsertFailed` and `overlapped` are history; the last has the records
that two requests worked on at a time, until a POST or PUT has them for itself.

### BatchAnalytics

`raw` is a version that grows with each edit; `Counts` gives its number of
records. A run reads a version, overwrites the Delta table in an optimistic
transaction (`BeginWrite`, `CommitWrite`, `RetryWrite`, `GiveUpWrite`), reads
the table back (`Aggregate`: whoever wrote it), saves, records and checks. A
kill may come between any two steps. `SchedulerRecords` is what the local
scheduler makes of the exit code. `Severity` is `build_run_status_ui` with the
age of the snapshot as a parameter.

### DbPool

`thread` says of every request thread and of the start-up thread where it is,
for which route, and which pool its connection is from. `CheckPool` and
`NewPool` are two steps, since the constructor connects in between; so are
`ResetError`, `ChooseBuild`, `Build`, `Install` and `Explain` of `init_agent`,
each of which reads or writes one global. `Used(p)` counts the places of a pool
that are taken: by threads, by leaks that are known (`leaked`) and by
connections that nobody can give back (`lost`).

### CommandRetry

A child writes lines that match error patterns, ends, hangs or is killed; the
parent waits and decides on `text` whether to run it again. `mode` is the runner:
`capture` (`run_with_heartbeat`), `stream` (`run_with_heartbeat_stream_capture`)
or `auth` (`run_with_auth_retry` over `terra_capture`). Only the streaming one has
reader threads, which carry lines from `pipe` to `captured`, and a timeout. Two
things cost it output: a timeout puts the lists together before the readers are
joined (`early`), and a join waits a second for a reader that may be held up, since
it prints what it reads (`held`). What was written and not read stays in `pipe`, so
that a property can tell what was written from what was looked at.

### AwsCloud, AwsTeardown, AwsDeploy, AwsDbSetup, AwsLifecycle

`alive` is what exists, `recorded` what the state files list; a stack is the few
resources that make a difference (a service that must drain, a distribution that must
be disabled, what Kubernetes makes on its own, repositories outside every state file).
tofu's commands are operators on them: an apply that stops halfway has made what it
has made and recorded it unless it was killed (`strays`). A teardown asks a probe
before each stack, and a probe that fails reads as "nothing there" (`misread`, set in
`Skip`). Tools are sequences of steps: `todo` holds the stacks or phases that are
left, `point` the place in the first of them (`Goto`, `NextStack`, `NextPhase`,
`Abort`). `trigger` is the EventBridge rule. A call may fail where the action has a
`Fails` case, and the tool may be killed between two calls (`KillTool`) or within an
apply (`KillInApply`); both count against one bound on faults. `uncertain` says that a
step preparing the destroy of a stack has failed or given up.

The other ways in which a tool ends, or does not: a command without a time-out, tofu's
above all, may hang (`Hang`, everywhere but in `Timed`), until the operator kills the
tool. `--post-destroy-only` is `StartPostDestroy`; nothing in the tool looks whether the
region is torn down, so nothing in the action does, and doing it on one that is not
counts as a fault of the operator. `DeleteStateBackend` may stop after some of the state
files. `DrainTasks` asks tasks to stop; by the next look some have.

`AwsDbSetup` is the phase `database`: schema, rows, scalars and vectors reach Aurora
by statements that are each a transaction of their own, so a set-up that stops
leaves what was written by then. Whether anything is due is decided on counts of
rows: a table with one row counts as loaded, and vectors are never asked for. A
set-up that fails is a warning of the deploy (`GiveUp`), and one without credentials
for any profile goes through without vectors (`SyncVectors`). Users of the application
add, change and delete rows, those of the file too (`SaveRow`, `DeleteRow`). Two
histories: `gone` has the rows of the file that users have deleted, which nobody wants
back (`Wanted`); `upset` says that a table that was not empty lacked something when a
set-up stopped or had no credentials, or when a user had added its first row.

### KubeClusters, KubeDeploy, KubeRollout

`context` is the one kubeconfig entry that all tools share. `Call(k, got)` is a
kubeconfig script followed by kubectl against the context it leaves, with both
exit codes ignored; `Checked` the same where a failure ends the tool. `Following`
holds the order of each tool's steps. `before` and `after` are the hostname
known before the first apply and the one the poll found; `origin` is what the
CDN was given. Load balancers get their names when they like (`Provision`).
`missed` is history: a call to the own cluster failed, or went elsewhere, and
the tool went on. A plan of GCP that fails is passed over, and the deploy goes to its
report of success (`Unplanned`, `FinishUnplanned`).

### ImageRegistry, ImageRelease

A tree is a commit with at most one change, named for the part of the repository
it touches; `Hash` is what the build looks at, `Content` what is copied into the
image, `Tag` the version. They differ on purpose: `config/` and files git does
not know are in one and not in the other. `ImageRelease` follows a deploy from
the decision over the builds and pushes, which may stop anywhere, to the tag that
is resolved; the source changes meanwhile (`Edit`). `Remove` is the part of the local
teardown that removes the images and keeps their hashes (`removed` is its history).
A tag may be given for Spark alone (`alone`, `PushedTag`).

### GcpDatabase, GcpDbSetup, GcpLifecycle

An execution of the Cloud Run job keeps the mode and the password it was
launched with and goes through schema, rows and vectors on its own
(`Execute`), whether or not the tool still looks at it. `CopyAlone` is the load
without credentials for any profile, which succeeds without vectors. Users add, change
and delete rows (`SaveRow`, `DeleteRow`). Two histories last until a load has made the
database whole: `upset`, for a user's row that came before all others or a load without
credentials, and `deleted`, the rows of the file that users have deleted. `GcpDbSetup` is
the tool:
update the job, launch, poll, read the count from the log, and, when anything
raises, launch again with a job that only counts. `GcpLifecycle` works through a
queue of phases; `left` is history: stacks that a teardown passed over or failed
to destroy. `tracked` says whether the peering is in a state file.

### AnalyticsPanel, RecordsPanel, AppShell

A handler up to its next `await` is an action. `gets`, `lists` and `write` hold
the requests under way with what the server answered them; answers arrive in any
order, fail, or find the panel gone. A snapshot is its rank, a list the page it
was asked for and the number of the user's edits it is from. Closing a panel
also resets the part of the state that belongs to the server, and opening it
chooses that part again; COUNT and SELECT of a list are read as one; the size of
a page is a constant; texts are dropped; the second mount of development builds
(StrictMode) is left out. `GridValidPage` is external: the grid pulls its page
back into the rows there are.

## 3. The runs

A run has all the properties that are asked of one instance, so there are twelve.
All of them hold; each property has a mutant in `PROJECT.json` that breaks it
under the same configuration.

| Run | Question | Instance |
|---|---|---|
| `chat` | what a stream's queue may hold and what its client has been given at the end; one outcome per question, the lock, the refinement of `QuestionOutcome`; who may cause a connection error | 2 questions, the first with 1 progress event |
| `agent` | what ends the search, what the answer rests on, which of the SQL has been run, what the log is left with | 1 request, 2 rounds, every plan of up to 2 calls and one of 3 |
| `sync_serial` | is a sync complete | 1 handler, 2 ids, 2 records, 2 profiles, batches of 1 |
| `sync_concurrent` | do row and vectors follow the record, what holds for any order of two requests, do they end | 2 handlers, 1 id, 2 records, 2 profiles of which 1 is available |
| `dbpool` | lost places, the agent's pool, the reason of its absence | 2 request threads and start-up, 2 pools of 1 place |
| `analytics` | snapshots, status, self-check | 2 jobs, 3 versions of 1, 0 and 2 records, 2 attempts |
| `retry` | what a rerun is decided on, is a success repeated, does a timed command end | 2 rules with budgets 2 and 0, 2 reruns for credentials, one pattern that stops |
| `aws` | does what exists stay known, are destroys prepared, what a full teardown leaves, is a database that counts as loaded whole, do the tools end | any deploys and teardowns, 1 fault, 1 task, the drain polls twice, 2 rows in the file, 1 change by users |
| `kube` | does a tool stay in its cluster, is the CDN wired, is the CronJob resumed | 2 tools, 3 clusters |
| `images` | is a skipped build there, is what is deployed there and current | 2 deploys, 2 edits, 1 commit, each target |
| `gcp` | does anything stand on what is gone, does the password fit, what the database keeps | 2 tools, 2 passwords, 2 rows in the file and 1 of a user, 1 change by users |
| `panels` | what the panels show after failures and late answers, does the latest win | 2 gets and 2 lists at a time, 1 fault, snapshots up to 2, 2 records on pages of 1 |

What each property says; the comment above its definition names the code.

| Run | Property | What it says |
|---|---|---|
| `chat` | `VerdictIsKept` | one verdict per stream, queued before the flag that lets the generator stop, yielded by every generator that comes to the sentinel |
| | `OneAnswer` | a question never gets two answers, nor an answer and a failure notice, although a run sends `complete` twice |
| | `LockedWhileOpen` | the form is locked exactly while a stream is open |
| | `DrainedIsNoConnectionError` | a drained stream is never shown as a lost connection |
| | `ImplementsQuestionOutcome` | the panel implements the abstract promise, its liveness included |
| `agent` | `RowsEndTheSearch` | nothing is recorded behind the first rows but the SQL run after the loop |
| | `GroundedAnswer` | the user reads a text of the LLM exactly when it was given rows |
| | `LastSqlIsRun` | the SQL generated last, if it can be executed, was itself run, unless rows of the planner's own SELECT stand in its place or the run after the loop raised |
| | `OnlyUnknownLeftRunning` | an answered request shows no step as running but names the planner invented |
| `sync_serial` | `SyncFills` | a sync that reports no failure has done what was asked |
| `sync_concurrent` | `TableFollowsRecords` | a row is what the conversion makes of its record, and its vectors are of the record's feedback, unless a failure was reported or two requests worked on the record at a time |
| | `RowGoesWithRecord` | a row disappears only together with its record |
| | `RequestsEnd` | every request is answered (liveness) |
| `dbpool` | `OnlyKnownLosses` | places of the pool in use are lost only by the two known leaks |
| | `ReasonKnown` | a stream that finds no agent finds the reason |
| | `OnePoolServesAll` | the agent has the first pool as long as that is in place |
| `analytics` | `SnapshotIsSound` | no run's snapshot is older than the run or of an emptied table |
| | `OkMeansSaved` | no warning only after an attempt that added a snapshot, local runs apart |
| | `OwnCheckHolds` | the self-check fails only on another job's snapshot |
| `retry` | `RerunsAreDue` | a rerun is due to what this very run wrote, whatever was lost of it; a first run is judged on all of it unless it timed out or a reader was held up |
| | `SuccessIsFinal` | a success is repeated only if the timeout fired first |
| | `TimedEnds` | a command with a timeout ends for its caller (liveness) |
| `aws` | `NothingOrphaned` | what exists is in a state file, and what is in one can be destroyed, but for what a killed apply, a failed probe or `--post-destroy-only` made a stray |
| | `Prepared` | what blocks a destroy is gone when it begins |
| | `FullTeardownCleans` | what a teardown that reports success may have left |
| | `LoadedIsWhole` | a database that counts as loaded has the rows of the file that users left in it, and their vectors, unless an earlier set-up stopped or had no credentials, or a user's row came first |
| | `ToolEnds` | every deploy and teardown ends, unless it hangs in a command without a time-out (liveness) |
| `kube` | `ClustersApart` | no deploy reaches into the cluster or the CDN of another |
| | `CronResumed` | the CronJob of EKS stays suspended only after a deploy that went wrong |
| | `SuccessHolds` | a deploy that reports success has set up its cluster completely (`DeployedAtEnd`, up to calls that were lost) and wired its CDN, and no deploy unwires one (`StaysWired`); one that reports it behind a failed plan has changed nothing (`UnplannedIsIdle`) |
| `images` | `SkipIsSafe` | in the clouds a build is skipped only for images that are there and are then found, as long as no image was pushed without being built, or built while the tree changed |
| | `DeployedIsCurrent` | what runs is the source the deploy was started on |
| | `DeployedExists` | the one tag exists for every image, unless a build stopped halfway, Spark was given a tag of its own, or a local teardown has removed the image |
| `gcp` | `TeardownIsOrdered` | nothing stands on what is gone, no peering is forgotten |
| | `CredentialsProven` | the application is deployed only with a password the database takes |
| | `LacksOnlyAfterFailedLoad` | vectors of rows that users left in place are missing only after a load that failed, is not over or had no credentials, or that came after a user's row |
| | `KeptUnlessForced` | rows and vectors are lost only with the instance, to a user who deletes them, or to a forced refresh |
| `panels` | `RowsAreRight` | the records on show are of the page and of after the user's edits; no panel stays busy |
| | `BackOnlyByOverlap` | an older snapshot comes back only by overlapping answers |
| | `Converges` | a panel that stays open ends by showing the newest (liveness) |

Why the bounds are enough to see the interesting cases:

- *Chat.* Streams share nothing, so what one can do shows in any; the second
  question is asked while the agent of the first may still run. A progress event
  can fall before, during and after a timeout.
- *Agent.* Two rounds are one that is followed by another and a last one (the
  code has 5). The plan of three calls is the shortest in which rows of a search
  leave generated SQL unrun.
- *Sync.* Two handlers on one id give every interleaving of two requests; a third
  request that follows them repairs what they have left. Two
  ids with batches of one row make a sync of several batches; two profiles let
  one of two vectors fail. Of the two records one has the value that is converted.
- *Pool.* One place is exhausted by one thread or one leak, and three threads
  compete for it (the code has 20). Two pools are one and its replacement. One
  thread serves streams and the other every other route; `p1` and `p2` are
  interchangeable, so they are symmetric.
- *Analytics.* Two overlapping jobs conflict, retry and exhaust two attempts (the
  code has 4). The records go down to none and up again, so that an old, an empty
  and a new version can meet in the table.
- *Retry.* A first failure and a rerun that fails for another reason are two
  rules; the budget 0 is the one that forbids a rerun.
- *AWS.* The sequence of tools is unbounded: the state space is finite. One fault
  is enough for a tool to leave a mess and for the next to meet it; the repair
  succeeds or the run would only be longer. A mistaken `--post-destroy-only`, a hang
  and a change by a user that is only half done count as faults too. Two polls are one
  that sees the task and a last one; with one task the limit on how many are stopped at
  a time never bites. Two rows of the file let a load stop between them, and one change
  by a user makes a table count as loaded or lack a row. The invariants are proved for
  any number of faults, tasks, polls, rows and changes.
- *Kube.* Two tools are one that leaves something (a context, a suspended
  CronJob, a load balancer of another kind) and one that finds it; `Init` has
  earlier deploys as a choice. Its properties are also proved for any number.
- *Images.* A build, a change of the tree and a deploy that decides on the
  difference; the second change is back to the first tree, or to a third. Local
  teardowns are unbounded.
- *GCP.* As for kube; two rows of the file let a load stop between them, and the
  third is one that users add and the file does not have. One change by a user is
  enough to upset a load or to take a row of the file; the theorems are for any number.
- *Panels.* Two requests are what can overlap; two records on pages of one are a
  page to leave and one to go to, and a save may lead to a third.

`CHECK_DEADLOCK FALSE` stands in `MCKubeRollout`, `MCImageRelease` and
`MCGcpLifecycle`: the bound on the number of tools is reached and the operator
stops. Elsewhere there is always a next step, or the end is an explicit stutter.

### Fairness

- `ChatSession`: weak for the agent thread and the generator, which the
  interpreter schedules and whose calls return or raise (the LLM and database
  clients have time-outs); for the acceptance of a request; and for the browser,
  which dispatches what it received and notices a connection that ended. Not for
  the user, who need not ask or leave, and not for the loss of a connection.
- `RawDataSync`: strong for the steps of each handler, since a statement that
  waits for a row lock is enabled only from time to time; PostgreSQL queues the
  waiters. This is what `RequestsEnd` rests on.
- `CommandRetry`: weak for the parent, for the readers unless they are held up, for a
  timeout that was set and for the kill signal; nothing is assumed of the command.
  `TimedEnds` is about commands that were given a timeout.
- `AwsLifecycle`: weak for the steps of the tool unless it hangs, and for CloudFront's
  propagation. tofu apply and destroy have no time-out by default
  (`tools/aws/teardown.py:76-77`), so that the tool may hang in them for good:
  `ToolEnds` says so. Nothing is assumed of the operator, not even that a tool
  that hangs is killed, nor of tasks: beside hangs, `ToolEnds` holds since the drain
  gives up and every loop of the tool has an end.
- `AppShell`: weak for the interval, the server and the browser, which hands the
  answers over. Nobody has to press a button. `Converges` is about a panel that
  stays open.
- The others are safety only and have none.

## 4. What the code does not keep

The models contain these behaviours; the properties are stated so that they say
what is kept beside them. Where a comment or document says otherwise, it is
named.

*Application*

1. After `queue.Empty` the generator looks at `agent_complete` and leaves without
   looking at the queue again (`app.py:1411`), so that the last events, the
   verdict included, may never be yielded. `docs/war_stories/WAR_STORIES_OTHER.md:280`
   says that the steps and `complete` are streamed. The panel then reports an
   interrupted connection (`DrainedIsNoConnectionError` has the exception
   `polled`).
2. Requests share the LLM client of `generate_sql` (`query_agent.py:190`), which
   `sql_generator_tool.py:30` calls "Per-query LLM client", and
   `_current_question` (line 205), so one may run with another one's. SQL that was
   generated is not always run: a SELECT that the planner wrote into its call is run in
   its place (`display_truncate.py:87`), and if that gives rows the generated one never
   is, against the comment in `query_agent.py:479`.
3. The record is committed before its row and vectors (`app.py:970`). Two updates
   may leave the row at the value that lost although both replies report success,
   and a DELETE between the commits gets its row back (line 987), which a second
   DELETE answers with 404 (line 1065). This is the exception `overlapped` of
   `TableFollowsRecords`. A row also differs from its record by the conversion on the
   way (`embedding_sync.py:64-89`): a capacity or a rating of 0 becomes NULL, an empty
   text becomes Unknown or Neutral.
4. The check and the assignment of `_connection_pool` (`app.py:103`) are a
   constructor apart, so two threads make two pools, and the connections of the
   lost one are refused when they are given back.
5. A save that fails ends in exit code 0 (`run_analytics.py:342`), which the local
   scheduler records over the error (`scheduler_local.py:70`);
   `analytics_run_status.py:4` says that failures are surfaced. `OkMeansSaved` has
   the exception.
6. Add on the page that is already the last one: no refetch, and the new row is not
   shown (`DataManagement.tsx:149-154`, against the comment in line 148).
   `OwnEditsAreShown` has the exception.
7. In the panels also: a POST with an existing id overwrites silently; a late answer
   for a page that was left is shown; overlapping answers of `fetchAnalytics` can go
   back to an older snapshot (`BackOnlyByOverlap`); any error drops the data on show,
   and a reload without data renders nothing at all (`BatchAnalyticsPanel.tsx:88-93`,
   250-252), so that its "Reloading snapshot…" is never seen; a status that cannot be
   read shows as ok (`analytics_run_status.py:123-124`); the edit form saves the whole
   record as it was shown, over what others have saved since.

*Tools*

8. A non-retriable error that appears only in a rerun does not stop the reruns
   (`subprocess_retry.py:80`, against the docstring in line 30). A decision may also be
   made on a part of the output: after a timeout (`with_heartbeat.py:182-194`), or when
   a reader needs longer than the second for which it is joined. Then a non-retriable
   error may be missed, and a rerun is begun for a pattern that stands behind it.
9. `--incl-dura` passes over nonkube and kube when the durable state has no outputs
   (`tools/aws/teardown.py:421`, "resources are gone anyway"), and with kube also the
   removal of the security groups that would let the destroy of the network pass.
   `--post-destroy-only --incl-dura-all` on a region that still stands deletes the
   bucket with every state file, and reports success (370-388): its help text says
   "for testing full cleanup on already-torn-down region" (351) and
   `durable_post_destroy.py:90-92` "Call only when durable_with_cooloff was
   destroyed", but nothing looks. A deletion of that bucket that stops halfway is a
   warning, and the teardown reports success with some state files gone
   (`durable_post_destroy.py:120-132`). `NothingOrphaned` has both as `strays`.
10. `eks_kubeconfig.py:23-27` exits with 0 whatever happened, so that with the
    cluster gone the clean-up deletes from whatever cluster kubectl points at
    (`kube_pre_destroy.py:56`, against the comment in line 53). `local/teardown.py:58`
    cleans the current context by design, and GCP's goes on after an error other than
    "not found" (`DeployStaysHome` is about deploys, and those without `missed`).
11. Also on the kube side: `gcp/teardown.py:193` reports success whatever destroy
    returned; a CronJob of GKE that a misdirected AWS deploy suspended is never
    resumed; `standalone/kubeconfig.py:50-52` falls back to the first context; a test
    for `"No cluster found"` in a lower-cased text is never true; old pods satisfy the
    wait for new ones.
12. Push-only makes only `latest`, the resolver finds no version
    (`deploy_image_resolver.py:46-52`) and the deploy ends; the hashes have been
    stored by then (`build_and_push_images.py:131`, 153-154), so the next deploy skips
    the build. `push_only_for_registry_absence.py:4-6` promises more.
13. `config/` is copied into the image (`Dockerfile:33`) but not hashed
    (`build_context_hash.py:21`), so that a change of it alone is skipped, although
    `aws/deploy.py:347-349` says what the hash is for. Untracked files are hashed but do
    not change the tag. Push-only stores the hash of the current tree for an older local
    image. A dirty build that stopped halfway and is repeated from the cache leaves two
    versions on one digest, of which the resolver takes the one that spark lacks
    (history `torn`). A crash after `app:latest` moved, with the source then reverted,
    leads to a stale skip (`recorded`). On AWS a skip with a given `APP_IMAGE_TAG`
    deploys a tag nobody looked at, on GCP a skip drops it. A `SPARK_IMAGE_TAG` given
    alone (`aws/deploy.py:398`) is not the tag that a later deploy resolves for Spark
    (`alone`). The full teardown of the local machine with `--incl-dura` removes the
    images and keeps the hashes of their builds (`local/teardown.py:100-103`), so that
    the next deploy skips the build without having an image, although line 104 says
    "Next deploy will rebuild images from scratch": compose fails to start the API, and
    on Kubernetes the deploy ends with a warning and "Local deploy complete"
    (`DeployedExists` has the exception `removed`).
14. After a user has added a row through `/rawdata` every further GCP deploy fails, as
    the count is not the number of lines of the file (`setup_database.py:142-143`,
    against "Idempotent" in `cloud_job.py:73`). The fallback counts rows and not
    vectors, so that a failed load of embeddings is reported as initialized
    (`cloud_job.py:218-276`), and one vector stands for all in the decision to skip
    (`load.py:235`). Without credentials for any profile the load succeeds without
    vectors (`embedding_sync_core.py:86-88`). A row of the file that a user has deleted
    (`app.py:1060`) is not loaded again unless a table is empty or the refresh is forced,
    and one more row of users then makes the count fit. These are all the ways in which
    vectors go missing that `LacksOnlyAfterFailedLoad` leaves open.
15. Also on GCP: a poll that takes over 15 s raises and starts the fallback while the
    load goes on (`job_client.py:124`, `cloud_job.py:147`); the count may be read from
    the log of another execution; two deploys at a time share the job's definition
    (`cloud_job.py:85`); plans that fail are passed over and success is printed
    (`gcp/deploy.py:304-326`); exit codes of destroys are ignored
    (`gcp/teardown.py:193`, 220) and any error of gcloud counts as "the bucket does not
    exist" (36-48) or as "the instance is gone" (`durable_pre_destroy.py:115`);
    `ensure_secrets.py:170` reads `project_id` before it is assigned when only
    `ARK_API_KEY` is set. A plan for GKE that fails ends the steps of `kube` and not the
    deploy, which prints success and exits with 0 (`gcp/kube/deploy_kube.py:173`,
    `gcp/deploy.py:320-326`): `SuccessHolds` says that such a deploy has done nothing.
16. On AWS the set-up decides on counts of rows and never asks for vectors: a load
    that stopped after its first batch, or a row that a user added to an empty table,
    counts as the whole from then on, and the deploy ends well, a failed set-up being
    only a warning (`setup_database.py:193`). Without credentials for any profile the
    set-up ends well without vectors, and rows of the file that users have deleted are
    not loaded again. `LoadedIsWhole` names these and says that no other database that
    counts as loaded lacks anything.

Behaviour that no document of the repository speaks against:

- a tool name the planner invents leaves its row of the log running
  (`OnlyUnknownLeftRunning` says nothing else does);
- the SQL recovered after the loop may be SQL that has just been run;
- "no relevant data" is also the answer when no tool was called;
- after a server event `error` the panel adds two messages, the second about a
  connection that is fine;
- the self-check of the analytics job fails when another job saves in between;
- a late success of one job hides the error of another;
- an overwrite that is retried writes rows that may be older than those it
  replaces (`SnapshotIsSound` says by how much at most);
- `/health` with a SELECT that fails, and the connection test at the start, take
  a place of the pool for good (`leaked`);
- an `init_db_pool` that fails sets the pool to None although another thread has
  just made one, and connections of a pool that was replaced are closed but keep
  their places;
- an agent may be built with no pool, if that happens between the two looks at
  it, and stays.

## 5. What is proved

For all values of the constants: any number of streams, questions, events,
requests, plans of any length, handlers, records, profiles, jobs, versions,
threads and pools, any rules and budgets, any number of deploys, teardowns and
faults, any trees and edits, any rows of the file and of users, and any number of
requests the panels have under way.

| Module | Theorems | Inductive invariant |
|---|---|---|
| `Frontend_proofs`, stream | `TypeCorrect`, `VerdictFinal`, `FlagBehindVerdict`, `DrainedWhole`, `VerdictKept`, `NothingAfterEnd` | `StreamInv` says what is on the queue at each place of `run_agent` (nothing but progress while it runs, one verdict from `finally` on, the sentinel last) and how far the generator has got at each of its own |
| `Frontend_proofs`, chat | `ChatTypeCorrect`, `VerdictKeptForPanel`, `AnswerOnce`, `LockHeld`, `DrainedNeverWrong`, `ImplementsOutcomeSafety` | every step of the panel is a step of its streams or leaves them alone, so `StreamInv` carries over; on top of it stands what `es`, `conn` and `seen` say of one another |
| `Frontend_proofs`, panels | `RowsStayRight`, `BackIsByOverlap` | `ShellInv`: an answer whose request was alone is no older than anything the panel has shown (`GetInv`); of the lists under way the one that was sent last decides what will be on show, and that one is for the page and after the edits it should be (`LastSentRight`) |
| `QueryAgent_proofs` | `TypeCorrect`, `SearchEnds`, `AnswerGrounded`, `LastSqlRun`, `OnlyUnknownRuns` | `RequestInv`: as long as `stop` is not set no result has rows, `stop` is never set where another round or a chained call can begin, nothing has been recovered before the loop was left, and behind the loop the last SQL was run or replaced (`LastIsRun`); `SourceInv`: what an `execute_sql` took from a `generate_sql` was the latest there was when it ran; `RunningInv`: which calls the log may show as running |
| `RawDataSync_proofs` | `TypeCorrect`, `RecordsHaveRows`, `RowsGoWithRecords`, `RowsFollowRecords`, `SyncsFill` | `UpsertInv`: a handler at `upsert` owes a row to exactly one record, and with a value. `SyncInv`: a record that was not overlapped has one handler at most (`SoleInv`); what that handler is doing (`LocalInv`) and still owes it (`HoldInv`), and what holds of the record meanwhile (`RestInv`) |
| `BatchAnalytics_proofs` | `TypeCorrect`, `SnapshotsAreRecent`, `SnapshotsHaveRows`, `SnapshotsAreSound`, `OkIsSaved`, `ErrorsSurface`, `OwnChecksHold` | `Overlap`: a run under way began no earlier than the floor of every other one, so whichever of them overwrites the table keeps it above the floors of all; `RunOk` says what a run has at each of its places, `DeltaOk` that the table has rows |
| `DbPool_proofs` | `TypeCorrect`, `KnownLosses`, `ReasonsKnown`, `OnePool` | `KindOk` (which route can be where), `KnownInv` (a pool yet to be made has lost nothing) and `OnePoolInv` (an agent under construction was begun with a pool) |
| `AwsTools_proofs`, command | `TypeCorrect`, `BoundedReruns`, `NeverTwice`, `RerunsDue`, `FinalSuccess` | `RetryInv` with `Settled`: a command whose readers are joined has ended, one that is killed was timed out, and only the streaming runner's readers fill the lists |
| `AwsTools_proofs`, tools | `AwsInvariant`, `NothingIsOrphaned`, `DestroysArePrepared`, `FullTeardownIsClean`, `WholeOrUpset` | `AwsInv`: the queue has what stands on a stack before it (`OrderInv`), and what a full teardown has left behind is recorded no longer, unless it was spared, misread or lost before (`BehindInv`); what the steps before each destroy have seen to by then (`TasksInv`, `BalancerInv`, `DistInv`); what the set-up of the database has put in when it comes to ask for it, of what users have left (`DbInv`) |
| `KubeRollout_proofs` | `Apart`, `Resumes`, `EndsDeployed`, `Wires`, `UnplannedIdles`, `SuccessStands` | `Reached`: from the step on that has seen its cluster, a deploy's cluster is there and, on GCP and locally, is the context; `HostIsOwn`, `FoundIsOwn`: whose hostname it is. Then what has been done at each step (`Resumed`, `SetUp`, `Wired`), and that a hostname that was found, or is an origin, does not vanish under a deploy (`Found`, `Held`, `Missing`) |
| `CloudDeploys_proofs`, GCP | `GcpInvariant`, `TeardownOrdered`, `CredentialsAreProven`, `LacksOnlyAfterFailure`, `KeptByEveryStep` | `GcpInv`: a deploy comes to its application only by way of the set-up (`QueueInv`), a teardown to the network only by way of what stands on it (`TeardownInv`); an execution past its start has shown that its password is the right one (`CredInv`), and goes only where its mode lets it (`ModeInv`); a database with a row has what users have left of the file unless an execution is lost or reloads, had no credentials, or came after a user's row (`LoadInv`) |
| `CloudDeploys_proofs`, images | `ImageInvariant`, `SkipsAreSafe`, `DeploysExist`, `DeploysAreCurrent` | `ImageInv`: where the deploy is (`ImageShape`, `Flow`), and as long as the histories are clean (`trusted`) what it has read of the source (`ReadInv`), what it has pushed or found (`PushInv`), and that a recorded hash is that of the image under `latest`, which has a version (`RegistryInv`, `SkipResolves`) |

Why the invariants are not inductive by themselves: a verdict is final only
as it is known what `run_agent` may still put; the lock is off only if the stream
it was set for is known to be closed; rows end the search only if `stop` is set as
soon as they are recorded; a snapshot is recent only if the table it is made of
was, from the run's write to its aggregation; the places of a pool add up only if
a thread that stops holding one either frees or counts it; the agent has the first
pool only if the agent that a thread is about to install has it; a deploy that is
wired at its end was so at every step since the second apply; a full teardown is
clean only if each stack it has passed left nothing in the state file, and that only if
the state file knew of everything when the stack was destroyed; a load of GCP
is excused only if every other execution that could still fail is known to; a skip
is safe only if the hashes have never been ahead of what was pushed; the rows on
show are right only if the last list that was sent is for them.

Each proof has the same layout: a lemma for the initial states, one per action or
per group of actions that disturb the same conjuncts, one that combines them, and
the theorems from `Spec => []IInv`. `ImplementsOutcomeSafety` shows that the
mapping takes initial states to initial states and every step to a step or a
stutter of `QuestionOutcome`. `ErrorsSurface` proves, for installations without
the local scheduler, that an error of the job is shown until a run has saved, so
the exception in `OkMeansSaved` is the scheduler's.

The assumptions are those of the modules (named `...Assumption`): bounds are
natural numbers, pages and poll counts are positive, files and users' rows are finite
and the files not empty, sentinel values are not values, `latest` is no version,
patterns and budgets are those of the rules file. `DbPool` also needs finitely many
threads. TLC evaluates the assumptions in every run.

What the attempts to prove have shown of the models: two invariants that
TLC had found to hold were true only within the bounds of their runs.

- *GCP.* In a longer sequence of tools than the run has, a user's row may reach the
  tables before those of the file, and its vector then makes a later load skip the
  file's, although no load has failed. `LacksOnlyAfterFailedLoad` has had the history
  `upset` since.
- *AWS.* With a second fault, what was lost by one tool is found by another and
  lost again: a kill in the apply of nonkube leaves its load balancer out of
  the state file; a teardown drops the outputs of durable and is blocked on the
  load balancer; the next one imports it and cannot destroy the stack, having no
  outputs. It is then recorded and out of reach of destroy, which `NothingStranded`
  now allows for what was lost (`strays`) and for nothing else.

Only model-checked:

- liveness: `RequestsEnd`, `TimedEnds`, `ToolEnds`, `Converges`, and the fairness
  part of `ImplementsQuestionOutcome`. It rests on fairness, which the prover does
  not handle.

Every other property of the runs is stated by a theorem.

## 6. What is left out, and why

Not modelled:

- *Model and embedding catalog* (`env_utils/cloud_shared/*_profiles.py`): functions
  of YAML files, credentials and counts, without state or steps.
- *Agent metrics* (`agents/metrics.py`): counters on which nothing is decided.
- *LLM and embedding clients* (`llm/`): remote calls that return or raise, which is
  how the callers' modules have them.
- *ETL and one-off loads* (`etl/`, `embedding_sync_rds.py`): sequential scripts over
  the core that `RawDataSync` models. What a deploy loads is modelled, in
  `GcpDatabase` and `AwsDbSetup`.
- *Kube proxy*: forwards requests without state.
- *Terraform, manifests*: they declare resources and have no steps. *Demos, tests and
  documents* were read for what they say of the program.

Left out of what is modelled:

- *Texts.* Prompts, answers, SQL and messages are abstracted to the outcomes the
  code branches on; layout and logging are left out.
- *psycopg2's pool.* `SimpleConnectionPool` is not made for several threads, and
  `app.py:97` shares one. Its methods are external and one step each in `DbPool`;
  what they do when they interleave is not modelled.
- *Direct connections.* `get_db_conn` falls back to one when the pool fails; it
  is modelled as a connection of no pool, and the database's own limit is not.
- *Two requests of the agent at a time.* The run has one; what they share is in the
  model, and the theorems are for any number.
- *Clock time.* The age of a snapshot is a parameter; schedules are
  nondeterministic starts; waits may end either way. Log lines of an execution
  expire with the instance.
- *Columns.* A record of `RawDataSync` has two, of which one stands for all that the
  copy converts; the pairing of models and columns is the catalog's business.
- *What goes slowly in AWS.* A task that was told to stop is listed until it has
  stopped, where ECS may leave it out of the list at once; an older version of a state
  file does not show again when a deletion of the bucket stops between two versions.
- *AWS*: plan-only runs, the wait for capacity and the standalone scans. *Kube*: node
  groups and DNS are waits that may fail. *GCP*: `--use-proxy`, `--env-only`, `PGHOST`
  and plan-only runs, `verify_db_run_job`, the contents of the migrations. *Images*:
  `--cleanup-local`, and `--push-only` on GCP. *Local*: the processes of a local run,
  and the menu of the orchestrator.
- *Two operators at a time.* tofu runs with `-lock=false` and the tools take no lock of
  their own; the models have one operator, whose tools run one after the other.
- *Hostnames* in `KubeRollout` stand for their kind: a load balancer that is made
  anew gets the same name as the last one of its kind.

Hazards without a property, with the reason, are in `PROJECT.json`: the shared LLM
client (`query_agent.py:190`), the shared pool (`app.py:97`), and the last output of
a destroy that is killed (`with_heartbeat.py:181`).

## 7. What could follow

Written in this order: the stream and the panel (what every user sees), the agent,
the raw data, the analytics, the pool; then the tools, beginning with the command
that all of them run, and the other two panels.

1. Two requests of the agent at a time, with what they share, as soon as it is settled
   which of them the client and the question belong to.
2. Abstract specifications for the set-ups of a database (loaded once, whole) and for a
   teardown (nothing is left that is paid for), with `AwsLifecycle` and `GcpLifecycle`
   shown to implement them.
3. Concurrent operators, as soon as the tools take a lock.
4. The catalog, as operators compared with a definition in terms of its documents.
