-------------------------------- MODULE DbPool --------------------------------
(***************************************************************************)
(* The database connections of core_app/backend/api/app.py and the lazy    *)
(* start of its agent: the pool and the agent are module globals, made by  *)
(* whichever thread first finds them missing, without a lock. The thread   *)
(* of _run_slow_init does so at the start, the request threads meanwhile.  *)
(*                                                                         *)
(* psycopg2's pool is external: getconn and putconn are one step each, and *)
(* the connection it keeps for later is left out. A connection in use has  *)
(* a place of its pool until putconn is called on that pool; closing it    *)
(* does not free the place. USE_AGENT_QUERY is on.                         *)
(***************************************************************************)
EXTENDS Naturals, FiniteSets

CONSTANTS
    Handlers,       \* request threads
    Routes,         \* bound: the routes they serve
    Starter,        \* the thread of _run_slow_init
    Pools,          \* bound: the pools that can be made
    NoPool,         \* None
    NoAgent,        \* None
    MaxConn         \* maxconn: 20

Threads == Handlers \union {Starter}

\* The routes. Those of /rawdata and /analytics are plain; /model-catalog and
\* /query/stream read the global pool themselves.
Requests == {"plain", "health", "catalog", "version", "stream", "query"}

ASSUME DbPoolAssumption ==
    /\ Starter \notin Handlers
    /\ IsFiniteSet(Handlers)
    /\ Routes \in [Handlers -> SUBSET Requests]
    /\ NoPool \notin Pools
    /\ NoAgent \notin Pools \union {NoPool}
    /\ MaxConn \in Nat \ {0}

VARIABLES
    _connection_pool,
    query_agent,        \* the pool the agent was given, or NoAgent
    _agent_init_error,  \* a reason is stored
    created,            \* history: the pools that were made
    leaked,             \* history: places taken by /health and the start-up test
    lost,               \* history: places nobody gave back otherwise
    thread

globals == <<_connection_pool, query_agent, _agent_init_error, created>>
places == <<leaked, lost>>
vars == <<globals, places, thread>>

\* What a thread does. A "query" becomes a "retry" when it has to make the
\* agent, and "plain" when it falls back to the simple search.
Kinds == Requests \union {"retry", "start", "test", "last", "none"}

Pcs == {"idle", "get", "pool", "new", "started", "check", "agent", "reset",
        "choose", "build", "install", "explain", "take", "use", "run", "running"}

\* How a connection was asked for: by get_db_conn, from the global pool without
\* it, or by a tool of the agent from the pool the agent has.
Ways == {"get_db_conn", "global", "tool", "none"}

\* A thread at a place of its code, without a connection.
Begin(pc, kind) == [pc |-> pc, kind |-> kind, way |-> "none", pool |-> NoPool]

Idle == Begin("idle", "none")

Doings == [pc : Pcs, kind : Kinds, way : Ways, pool : created \union {NoPool}]

Holders(p) == {t \in Threads : thread[t].pc = "use" /\ thread[t].pool = p}

Used(p) == Cardinality(Holders(p)) + leaked[p] + lost[p]

TypeOK ==
    /\ created \subseteq Pools
    /\ _connection_pool \in created \union {NoPool}
    /\ query_agent \in created \union {NoPool, NoAgent}
    /\ _agent_init_error \in BOOLEAN
    /\ leaked \in [Pools -> Nat]
    /\ lost \in [Pools -> Nat]
    /\ thread \in [Threads -> Doings]
    /\ \A p \in Pools : Used(p) <= MaxConn

Init ==
    /\ _connection_pool = NoPool
    /\ query_agent = NoAgent
    /\ _agent_init_error = FALSE
    /\ created = {}
    /\ leaked = [p \in Pools |-> 0]
    /\ lost = [p \in Pools |-> 0]
    /\ thread = [t \in Threads |->
            IF t = Starter THEN Begin("pool", "start") ELSE Idle]

At(t, pc) == thread[t].pc = pc
Kind(t) == thread[t].kind
Become(t, r) == thread' = [thread EXCEPT ![t] = r]
Goto(t, pc) == Become(t, [thread[t] EXCEPT !.pc = pc])
End(t) == Become(t, Idle)

Take(way, kind, pool) == [pc |-> "take", kind |-> kind, way |-> way, pool |-> pool]
Simple == Begin("get", "plain")
Last == Begin("reset", "last")

----------------------------------------------------------------------------
\* A request. POST /query looks for an agent first, /version makes one.
Arrive(h) ==
    /\ At(h, "idle")
    /\ \E kind \in Routes[h] :
        \/ kind \in {"plain", "health"} /\ Become(h, Begin("get", kind))
        \/ kind \in {"catalog", "stream"} /\ Become(h, Take("global", kind, NoPool))
        \/ kind = "version" /\ Become(h, Begin("pool", kind))
        \/ kind = "query" /\ Become(h, Begin("run", kind))
    /\ UNCHANGED <<globals, places>>

----------------------------------------------------------------------------
\* init_db_pool.

AfterPool(t) ==
    Goto(t, CASE Kind(t) = "start" -> "started"
              [] Kind(t) \in {"plain", "health", "test"} -> "reset"
              [] OTHER -> "agent")

CheckPool(t) ==
    /\ At(t, "pool")
    /\ IF _connection_pool = NoPool THEN Goto(t, "new") ELSE AfterPool(t)
    /\ UNCHANGED <<globals, places>>

\* The constructor opens one connection, which may take seconds; what another
\* thread has stored meanwhile is overwritten.
NewPool(t) ==
    /\ At(t, "new")
    /\ \E p \in Pools \ created :
        /\ _connection_pool' = p
        /\ created' = created \union {p}
    /\ AfterPool(t)
    /\ UNCHANGED <<query_agent, _agent_init_error, places>>

NewPoolFails(t) ==
    /\ At(t, "new")
    /\ _connection_pool' = NoPool
    /\ AfterPool(t)
    /\ UNCHANGED <<query_agent, _agent_init_error, created, places>>

----------------------------------------------------------------------------
\* ensure_agent and init_agent.

AfterAgent(t) ==
    \/ /\ Kind(t) \in {"plain", "health", "test"}
       /\ Become(t, Take("get_db_conn", Kind(t), NoPool))
    \/ Kind(t) \in {"stream", "retry"} /\ Become(t, Begin("run", Kind(t)))
    \/ Kind(t) \in {"version", "start", "last"} /\ End(t)

EnsureAgent(t) ==
    /\ At(t, "agent")
    /\ IF query_agent = NoAgent THEN Goto(t, "reset") ELSE AfterAgent(t)
    /\ UNCHANGED <<globals, places>>

ResetError(t) ==
    /\ At(t, "reset")
    /\ _agent_init_error' = FALSE
    /\ Goto(t, "choose")
    /\ UNCHANGED <<_connection_pool, query_agent, created, places>>

\* Mutant: an agent is made though there is no pool.
ChooseBuild_NoPool(t) ==
    /\ At(t, "choose")
    /\ Goto(t, "build")
    /\ UNCHANGED <<globals, places>>

ChooseBuild(t) ==
    /\ At(t, "choose")
    /\ _connection_pool # NoPool
    /\ Goto(t, "build")
    /\ UNCHANGED <<globals, places>>

\* "not initialized (check DB pool and OPENAI_API_KEY)".
ChooseReason(t) ==
    /\ At(t, "choose")
    /\ _connection_pool = NoPool
    /\ _agent_init_error' = (_agent_init_error \/ query_agent = NoAgent)
    /\ AfterAgent(t)
    /\ UNCHANGED <<_connection_pool, query_agent, created, places>>

\* The pool is read again for QueryAgent(db_pool=_connection_pool, ...).
Build(t) ==
    /\ At(t, "build")
    /\ Become(t, [thread[t] EXCEPT !.pc = "install", !.pool = _connection_pool])
    /\ UNCHANGED <<globals, places>>

Install(t) ==
    /\ At(t, "install")
    /\ query_agent' = thread[t].pool
    /\ AfterAgent(t)
    /\ UNCHANGED <<_connection_pool, _agent_init_error, created, places>>

\* Mutant: the exception is logged only.
BuildFails_NoReason(t) ==
    /\ thread[t].pc \in {"build", "install"}
    /\ query_agent' = NoAgent
    /\ AfterAgent(t)
    /\ UNCHANGED <<_connection_pool, _agent_init_error, created, places>>

\* OPENAI_API_KEY is missing or the LLM client cannot be made: an agent that
\* another thread has made is dropped as well.
BuildFails(t) ==
    /\ thread[t].pc \in {"build", "install"}
    /\ query_agent' = NoAgent
    /\ Become(t, [thread[t] EXCEPT !.pc = "explain", !.pool = NoPool])
    /\ UNCHANGED <<_connection_pool, _agent_init_error, created, places>>

Explain(t) ==
    /\ At(t, "explain")
    /\ _agent_init_error' = TRUE
    /\ AfterAgent(t)
    /\ UNCHANGED <<_connection_pool, query_agent, created, places>>

----------------------------------------------------------------------------
\* get_db_conn, and the calls of getconn elsewhere.

GetDbConn(t) ==
    /\ At(t, "get")
    /\ IF _connection_pool = NoPool THEN Goto(t, "pool")
       ELSE Become(t, Take("get_db_conn", Kind(t), NoPool))
    /\ UNCHANGED <<globals, places>>

Source(t) == IF thread[t].way = "tool" THEN thread[t].pool ELSE _connection_pool

TakeConn(t) ==
    /\ At(t, "take")
    /\ Source(t) # NoPool
    /\ Used(Source(t)) < MaxConn
    /\ Become(t, [thread[t] EXCEPT !.pc = "use", !.pool = Source(t)])
    /\ UNCHANGED <<globals, places>>

\* What follows the try block of /query/stream and /model-catalog.
AfterGlobal(t) ==
    IF Kind(t) = "stream" THEN Become(t, Begin("check", "stream"))
    ELSE End(t)

\* There is no pool, it has no place left, or the database does not answer.
\* get_db_conn connects directly then.
TakeDirect(t) ==
    /\ At(t, "take")
    /\ thread[t].way = "get_db_conn"
    /\ Become(t, [thread[t] EXCEPT !.pc = "use", !.pool = NoPool])
    /\ UNCHANGED <<globals, places>>

\* If it cannot, the request has failed; a tool returns the failure to its
\* agent. The two routes go on without a connection if there is no pool, and
\* fail if there is none any more where the check has just found one.
TakeFails(t) ==
    /\ At(t, "take")
    /\ \/ thread[t].way = "tool" /\ Goto(t, "running")
       \/ thread[t].way = "global" /\ _connection_pool = NoPool /\ AfterGlobal(t)
       \/ Kind(t) = "test" /\ Become(t, Last)
       \/ thread[t].way # "tool" /\ Kind(t) # "test" /\ End(t)
    /\ UNCHANGED <<globals, places>>

----------------------------------------------------------------------------
\* putconn: thread[t].pool has the place back.

\* Its place stays taken.
Occupy(count, p) == count' = IF p = NoPool THEN count ELSE [count EXCEPT ![p] = @ + 1]
Lose(p) == Occupy(lost, p) /\ UNCHANGED leaked
Leak(p) == Occupy(leaked, p) /\ UNCHANGED lost

\* return_db_conn gives it to the pool of now. A connection of another pool, or
\* of none, is refused by it and closed.
ReturnDbConn(t) ==
    /\ At(t, "use")
    /\ thread[t].way = "get_db_conn"
    /\ Kind(t) # "test"
    /\ IF _connection_pool = thread[t].pool THEN UNCHANGED places ELSE Lose(thread[t].pool)
    /\ End(t)
    /\ UNCHANGED globals

\* /health: the SELECT fails, and the handler returns before the try that has
\* the finally.
HealthFails(t) ==
    /\ At(t, "use")
    /\ Kind(t) = "health"
    /\ Leak(thread[t].pool)
    /\ End(t)
    /\ UNCHANGED globals

\* _run_slow_init closes its test connection.
CloseTest(t) ==
    /\ At(t, "use")
    /\ Kind(t) = "test"
    /\ Leak(thread[t].pool)
    /\ Become(t, Last)
    /\ UNCHANGED globals

\* Mutant: without the finally, a choice that is refused keeps the connection.
PutGlobal_NoFinally(t) ==
    /\ At(t, "use")
    /\ thread[t].way = "global"
    /\ \/ /\ _connection_pool = thread[t].pool
          /\ UNCHANGED places
          /\ AfterGlobal(t)
       \/ Lose(thread[t].pool) /\ End(t)
    /\ UNCHANGED globals

\* The finally of /model-catalog and /query/stream: a pool that has been
\* replaced since refuses the connection with an exception, none at all takes no
\* notice. The route ends here too when the choice was refused (400, 403).
PutGlobal(t) ==
    /\ At(t, "use")
    /\ thread[t].way = "global"
    /\ \/ /\ _connection_pool = thread[t].pool
          /\ UNCHANGED places
          /\ AfterGlobal(t) \/ End(t)
       \/ /\ _connection_pool = NoPool
          /\ Lose(thread[t].pool)
          /\ AfterGlobal(t) \/ End(t)
       \/ /\ _connection_pool \notin {thread[t].pool, NoPool}
          /\ Lose(thread[t].pool)
          /\ End(t)
    /\ UNCHANGED globals

\* The finally of the tools, on the pool of the agent.
PutTool(t) ==
    /\ At(t, "use")
    /\ thread[t].way = "tool"
    /\ UNCHANGED places
    /\ Goto(t, "running")
    /\ UNCHANGED globals

----------------------------------------------------------------------------
\* The agent runs for /query/stream, in run_agent, and for POST /query.

\* query_agent is looked at before ensure_agent is called. POST /query, whose
\* first try has ended by then, goes on to the simple search if there is one.
CheckAgent(t) ==
    /\ At(t, "check")
    /\ \/ /\ query_agent = NoAgent
          /\ Become(t, Begin("pool", IF Kind(t) = "query" THEN "retry" ELSE "stream"))
       \/ query_agent # NoAgent /\ Kind(t) = "stream" /\ Goto(t, "run")
       \/ query_agent # NoAgent /\ Kind(t) = "query" /\ Become(t, Simple)
    /\ UNCHANGED <<globals, places>>

RunAgent(t) ==
    /\ At(t, "run")
    /\ query_agent # NoAgent
    /\ Become(t, [thread[t] EXCEPT !.pc = "running", !.way = "tool", !.pool = query_agent])
    /\ UNCHANGED <<globals, places>>

\* Without a result: an error event, another try, or the simple search.
NoResult(t) ==
    \/ Kind(t) = "stream" /\ End(t)
    \/ Kind(t) = "query" /\ Become(t, Begin("check", "query"))
    \/ Kind(t) = "retry" /\ Become(t, Simple)

NoAgentToRun(t) ==
    /\ At(t, "run")
    /\ query_agent = NoAgent
    /\ NoResult(t)
    /\ UNCHANGED <<globals, places>>

UseTool(t) ==
    /\ At(t, "running")
    /\ Goto(t, "take")
    /\ UNCHANGED <<globals, places>>

Answer(t) == At(t, "running") /\ End(t) /\ UNCHANGED <<globals, places>>

AgentRaises(t) == At(t, "running") /\ NoResult(t) /\ UNCHANGED <<globals, places>>

----------------------------------------------------------------------------
\* _run_slow_init, after init_db_pool.
Started(t) ==
    /\ At(t, "started")
    /\ Become(t, IF _connection_pool = NoPool THEN Last
                 ELSE Begin("get", "test"))
    /\ UNCHANGED <<globals, places>>

Step(t) ==
    \/ CheckPool(t) \/ NewPool(t) \/ NewPoolFails(t) \/ Started(t)
    \/ EnsureAgent(t) \/ ResetError(t)
    \/ ChooseBuild(t) \/ ChooseReason(t)
    \/ Build(t) \/ Install(t) \/ BuildFails(t) \/ Explain(t)
    \/ GetDbConn(t) \/ TakeConn(t) \/ TakeDirect(t) \/ TakeFails(t)
    \/ ReturnDbConn(t) \/ HealthFails(t) \/ CloseTest(t) \/ PutGlobal(t) \/ PutTool(t)
    \/ CheckAgent(t) \/ RunAgent(t) \/ NoAgentToRun(t)
    \/ UseTool(t) \/ Answer(t) \/ AgentRaises(t)

Next == (\E h \in Handlers : Arrive(h)) \/ (\E t \in Threads : Step(t))

Spec == Init /\ [][Next]_vars

----------------------------------------------------------------------------
\* Properties.

\* Of the places of the pool in use, nobody has lost one but /health, with a
\* SELECT that failed, and the start-up test: every other handler has given its
\* connection back, or has it. (A pool that was replaced or dropped is another
\* matter: who took a connection from it cannot give it back.)
OnlyKnownLosses == _connection_pool # NoPool => lost[_connection_pool] = 0

\* Between the reset of the reason and the end of init_agent.
InInitAgent(t) == thread[t].pc \in {"choose", "build", "install", "explain"}

\* "When init fails, store reason so /query/stream can return it": a stream
\* that finds no agent finds the reason, unless init_agent is running right then.
ReasonKnown ==
    \A t \in Threads :
        At(t, "run") /\ Kind(t) # "query" /\ query_agent = NoAgent =>
            _agent_init_error \/ \E u \in Threads : InInitAgent(u)

\* While the first pool that was made is in place, the agent has that one, and
\* never none: two inits at a time only go wrong when both make a pool.
OnePoolServesAll ==
    \A p \in Pools :
        created = {p} /\ _connection_pool = p => query_agent \in {p, NoAgent}
===============================================================================
