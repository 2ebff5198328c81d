---------------------------- MODULE QueryStream ----------------------------
(***************************************************************************)
(* GET /query/stream of core_app/backend/api/app.py: a background thread   *)
(* runs the agent and puts events on a queue, and the response generator   *)
(* takes them off the queue and yields each one to the client.             *)
(*                                                                         *)
(* queue.Queue is unbounded and FIFO, so it is the log of everything put   *)
(* on it together with the number of items the generator has taken.        *)
(***************************************************************************)
EXTENDS Naturals, Sequences

CONSTANTS
    Streams,        \* one per GET /query/stream request
    MaxProgress     \* bound: the progress events of the run of each stream

ASSUME MaxProgressAssumption == MaxProgress \in [Streams -> Nat]

VARIABLES
    agentPc,        \* where run_agent is
    genPc,          \* where generate() is
    conn,           \* the client connection, as the server can observe it
    log,            \* every item put on event_queue, in order
    taken,          \* how many items the generator took off event_queue
    written,        \* how many of them it yielded to the client
    agent_complete  \* the threading.Event

vars == <<agentPc, genPc, conn, log, taken, written, agent_complete>>

\* Kinds of item: an event that reports progress, the two events that end a
\* run, and the None sentinel.
Verdicts == {"complete", "error"}
Items == {"progress", "none"} \union Verdicts

AgentPcs == {"unborn", "start", "run", "returned", "raised", "finally",
             "sentinel", "exited"}
Ended == {"drained", "polled", "gone"}   \* sentinel, poll, GeneratorExit
GenPcs == {"unborn", "get", "yield", "empty"} \union Ended
Conns == {"none", "open", "closed", "refused"}

TypeOK ==
    /\ agentPc \in [Streams -> AgentPcs]
    /\ genPc \in [Streams -> GenPcs]
    /\ conn \in [Streams -> Conns]
    /\ log \in [Streams -> Seq(Items)]
    /\ taken \in [Streams -> Nat]
    /\ written \in [Streams -> Nat]
    /\ agent_complete \in [Streams -> BOOLEAN]
    /\ \A s \in Streams : written[s] <= taken[s] /\ taken[s] <= Len(log[s])

Init ==
    /\ agentPc = [s \in Streams |-> "unborn"]
    /\ genPc = [s \in Streams |-> "unborn"]
    /\ conn = [s \in Streams |-> "none"]
    /\ log = [s \in Streams |-> <<>>]
    /\ taken = [s \in Streams |-> 0]
    /\ written = [s \in Streams |-> 0]
    /\ agent_complete = [s \in Streams |-> FALSE]

----------------------------------------------------------------------------
\* The request handler.

\* The request passes validation; the generator starts the agent thread.
Open(s) ==
    /\ conn[s] = "none"
    /\ conn' = [conn EXCEPT ![s] = "open"]
    /\ agentPc' = [agentPc EXCEPT ![s] = "start"]
    /\ genPc' = [genPc EXCEPT ![s] = "get"]
    /\ UNCHANGED <<log, taken, written, agent_complete>>

\* 400 (no question, unknown model pair), 403 (pair not allowed) or 500 (the
\* pool has no connection left): no agent and no stream.
Refuse(s) ==
    /\ conn[s] = "none"
    /\ conn' = [conn EXCEPT ![s] = "refused"]
    /\ UNCHANGED <<agentPc, genPc, log, taken, written, agent_complete>>

----------------------------------------------------------------------------
\* run_agent, in its own thread.

\* event_queue.put, after which the thread goes on at pc.
Put(s, item, pc) ==
    /\ log' = [log EXCEPT ![s] = Append(@, item)]
    /\ agentPc' = [agentPc EXCEPT ![s] = pc]
    /\ UNCHANGED <<genPc, conn, taken, written, agent_complete>>

\* USE_AGENT_QUERY is off or query_agent is None: one error and return.
AgentUnavailable(s) == agentPc[s] = "start" /\ Put(s, "error", "finally")

AgentCall(s) ==
    /\ agentPc[s] = "start"
    /\ agentPc' = [agentPc EXCEPT ![s] = "run"]
    /\ UNCHANGED <<genPc, conn, log, taken, written, agent_complete>>

\* process_query reports through progress_callback ...
AgentProgress(s) ==
    /\ agentPc[s] = "run"
    /\ Len(log[s]) < MaxProgress[s]
    /\ Put(s, "progress", "run")

\* ... "complete", and returns a result without an error ...
AgentAnswer(s) == agentPc[s] = "run" /\ Put(s, "complete", "returned")

\* Mutant: run_agent does not look at result["error"].
AgentFail_IgnoreError(s) == agentPc[s] = "run" /\ Put(s, "error", "returned")

\* ... or "error", and returns a result that has one, which adds nothing ...
AgentFail(s) == agentPc[s] = "run" /\ Put(s, "error", "finally")

\* ... or raises: the client factory is called outside its try.
AgentRaise(s) ==
    /\ agentPc[s] = "run"
    /\ agentPc' = [agentPc EXCEPT ![s] = "raised"]
    /\ UNCHANGED <<genPc, conn, log, taken, written, agent_complete>>

\* run_agent sends "complete" a second time when nobody has finished yet.
RepeatComplete(s) ==
    /\ agentPc[s] = "returned"
    /\ IF agent_complete[s]
       THEN /\ agentPc' = [agentPc EXCEPT ![s] = "finally"]
            /\ UNCHANGED <<genPc, conn, log, taken, written, agent_complete>>
       ELSE Put(s, "complete", "finally")

\* Mutant: the exception is logged and nothing is sent.
ReportRaise_Silent(s) ==
    /\ agentPc[s] = "raised"
    /\ agentPc' = [agentPc EXCEPT ![s] = "finally"]
    /\ UNCHANGED <<genPc, conn, log, taken, written, agent_complete>>

ReportRaise(s) == agentPc[s] = "raised" /\ Put(s, "error", "finally")

SetComplete(s) ==
    /\ agentPc[s] = "finally"
    /\ agent_complete' = [agent_complete EXCEPT ![s] = TRUE]
    /\ agentPc' = [agentPc EXCEPT ![s] = "sentinel"]
    /\ UNCHANGED <<genPc, conn, log, taken, written>>

PutSentinel(s) == agentPc[s] = "sentinel" /\ Put(s, "none", "exited")

Agent(s) ==
    \/ AgentUnavailable(s) \/ AgentCall(s) \/ AgentProgress(s)
    \/ AgentAnswer(s) \/ AgentFail(s) \/ AgentRaise(s)
    \/ RepeatComplete(s) \/ ReportRaise(s) \/ SetComplete(s) \/ PutSentinel(s)

----------------------------------------------------------------------------
\* generate(), driven by the WSGI server.

GetItem(s) ==
    /\ genPc[s] = "get"
    /\ taken[s] < Len(log[s])
    /\ taken' = [taken EXCEPT ![s] = @ + 1]
    /\ genPc' = [genPc EXCEPT ![s] =
                    IF log[s][taken[s] + 1] = "none" THEN "drained" ELSE "yield"]
    /\ UNCHANGED <<agentPc, conn, log, written, agent_complete>>

\* A second went by with nothing on the queue: queue.Empty is raised.
GetTimeout(s) ==
    /\ genPc[s] = "get"
    /\ taken[s] = Len(log[s])
    /\ genPc' = [genPc EXCEPT ![s] = "empty"]
    /\ UNCHANGED <<agentPc, conn, log, taken, written, agent_complete>>

\* The handler of queue.Empty looks at agent_complete, later.
PollComplete(s) ==
    /\ genPc[s] = "empty"
    /\ genPc' = [genPc EXCEPT ![s] = IF agent_complete[s] THEN "polled" ELSE "get"]
    /\ UNCHANGED <<agentPc, conn, log, taken, written, agent_complete>>

\* The chunk is handed to the socket. Writing to a connection the client has
\* closed may still succeed, so the state of conn is no guard.
Yield(s) ==
    /\ genPc[s] = "yield"
    /\ written' = [written EXCEPT ![s] = @ + 1]
    /\ genPc' = [genPc EXCEPT ![s] = "get"]
    /\ UNCHANGED <<agentPc, conn, log, taken, agent_complete>>

\* The write fails, the server closes the generator: GeneratorExit.
YieldFails(s) ==
    /\ genPc[s] = "yield"
    /\ conn[s] = "closed"
    /\ genPc' = [genPc EXCEPT ![s] = "gone"]
    /\ UNCHANGED <<agentPc, conn, log, taken, written, agent_complete>>

Generator(s) ==
    \/ GetItem(s) \/ GetTimeout(s) \/ PollComplete(s)
    \/ Yield(s) \/ YieldFails(s)

----------------------------------------------------------------------------
\* The client goes away, or the network does.
Disconnect(s) ==
    /\ conn[s] = "open"
    /\ conn' = [conn EXCEPT ![s] = "closed"]
    /\ UNCHANGED <<agentPc, genPc, log, taken, written, agent_complete>>

Next ==
    \E s \in Streams :
        Open(s) \/ Refuse(s) \/ Agent(s) \/ Generator(s) \/ Disconnect(s)

Spec == Init /\ [][Next]_vars

----------------------------------------------------------------------------
\* Properties.

HasVerdict(s) == \E i \in 1..Len(log[s]) : log[s][i] \in Verdicts

\* What run_agent puts after an item: a verdict is final (only a second
\* "complete" may repeat the first), no stream carries both verdicts, and
\* nothing follows the sentinel. The browser closes the stream at the first
\* verdict it sees, so anything behind it would be lost.
VerdictIsFinal ==
    \A s \in Streams : \A i, j \in 1..Len(log[s]) :
        i < j => CASE log[s][i] = "complete" -> log[s][j] \in {"complete", "none"}
                   [] log[s][i] = "error"    -> log[s][j] = "none"
                   [] log[s][i] = "none"     -> FALSE
                   [] OTHER                  -> TRUE

\* The flag the poll relies on is raised only when the verdict of the run is
\* already on the queue.
CompleteAfterVerdict ==
    \A s \in Streams : agent_complete[s] => HasVerdict(s)

\* A stream that ends at the sentinel has yielded every event of the run, the
\* verdict included.
DrainedStreamIsWhole ==
    \A s \in Streams :
        genPc[s] = "drained" => written[s] = Len(log[s]) - 1 /\ HasVerdict(s)

\* What the stream owes to its client: one verdict and nothing behind it, queued
\* before the flag that lets the generator stop, and yielded by every generator
\* that comes to the sentinel.
VerdictIsKept == VerdictIsFinal /\ CompleteAfterVerdict /\ DrainedStreamIsWhole

\* A stream that ends at the poll with nobody gone ends after its agent did:
\* no later event of the run finds the generator closed.
NothingPutAfterEnd ==
    [][\A s \in Streams :
        genPc[s] \in {"drained", "polled"} =>
            log'[s] = log[s] \/ log'[s] = Append(log[s], "none")]_vars
============================================================================
