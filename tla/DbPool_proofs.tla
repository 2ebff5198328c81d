---------------------------- MODULE DbPool_proofs ----------------------------
(***************************************************************************)
(* What the connections and the agent keep for any number of request       *)
(* threads and of pools that are made.                                     *)
(*                                                                         *)
(* KindOk says which requests can be where, which the CASEs of the routes  *)
(* rely on. KnownInv adds that a pool yet to be made has lost nothing, and *)
(* OnePoolInv that an agent under construction has, and was begun with, a  *)
(* pool: what it reads is the first pool as long as that is in place.      *)
(***************************************************************************)
EXTENDS DbPool, FiniteSetTheorems, TLAPS

Running == {"stream", "query", "retry"}

KindOk(r) ==
    /\ r.pc = "check" => r.kind \in {"stream", "query"}
    /\ r.pc \in {"run", "running"} => r.kind \in Running
    /\ r.pc \in {"take", "use"} /\ r.way = "tool" => r.kind \in Running

KnownInv ==
    /\ OnlyKnownLosses
    /\ \A p \in Pools \ created : lost[p] = 0

Building == {"build", "install", "explain"}

OnePoolInv ==
    /\ OnePoolServesAll
    /\ created = {} => query_agent = NoAgent
    /\ \A t \in Threads : thread[t].pc \in Building => created # {}
    /\ \A p \in Pools, t \in Threads :
        created = {p} /\ _connection_pool = p /\ At(t, "install") => thread[t].pool = p

IInv ==
    /\ TypeOK
    /\ \A t \in Threads : KindOk(thread[t])
    /\ KnownInv
    /\ ReasonKnown
    /\ OnePoolInv

----------------------------------------------------------------------------
\* Who holds a connection of a pool.

LEMMA HoldersFinite == \A p : IsFiniteSet(Holders(p))
  <1>1. IsFiniteSet({Starter})
    BY FS_Singleton
  <1>2. IsFiniteSet(Threads)
    BY <1>1, FS_Union, DbPoolAssumption DEF Threads
  <1> QED BY <1>2, FS_Subset DEF Holders

LEMMA HoldersNat == \A p : Cardinality(Holders(p)) \in Nat
  BY HoldersFinite, FS_CardinalityType

LEMMA InitInv == Init => IInv
  <1> SUFFICES ASSUME Init PROVE IInv
    OBVIOUS
  <1>1. \A t \in Threads : thread[t] \in Doings /\ thread[t].pc \in {"idle", "pool"}
    BY DEF Init, Idle, Begin, Doings, Pcs, Kinds, Ways, Requests
  <1>2. \A p \in Pools : Used(p) = 0
    <2>1. \A p \in Pools : Holders(p) = {}
      BY <1>1 DEF Holders
    <2> QED BY <2>1, FS_EmptySet DEF Used, Init
  <1>3. TypeOK
    <2>1. thread \in [Threads -> Doings]
      BY <1>1 DEF Init
    <2>2. \A p \in Pools : Used(p) <= MaxConn
      BY <1>2, DbPoolAssumption
    <2> QED BY <2>1, <2>2 DEF Init, TypeOK
  <1>4. \A t \in Threads : KindOk(thread[t])
    BY <1>1 DEF KindOk
  <1>5. KnownInv /\ ReasonKnown /\ OnePoolInv
    BY <1>1 DEF Init, KnownInv, OnlyKnownLosses, ReasonKnown, OnePoolInv, OnePoolServesAll,
                At, Building
  <1> QED BY <1>3, <1>4, <1>5 DEF IInv

----------------------------------------------------------------------------
\* The thread t goes on as r.

LEMMA Moved ==
    ASSUME TypeOK, NEW t \in Threads, NEW r, Become(t, r)
    PROVE  thread'[t] = r /\ \A u \in Threads \ {t} : thread'[u] = thread[u]
  BY DEF Become, TypeOK

LEMMA Doing ==
    ASSUME TypeOK, NEW t \in Threads
    PROVE  /\ thread[t] \in Doings
           /\ thread[t].pool \in created \union {NoPool}
           /\ thread[t].kind \in Kinds
           /\ thread[t].way \in Ways
           /\ \A p : At(t, p) => thread[t].pc = p
  BY DEF TypeOK, Doings, At

\* A thread that does not take a connection leaves no more of them in use.
LEMMA TypeMove ==
    ASSUME TypeOK, NEW t \in Threads, NEW r, Become(t, r),
           created \subseteq created', created' \subseteq Pools, r \in Doings',
           _connection_pool' \in created' \union {NoPool},
           query_agent' \in created' \union {NoPool, NoAgent},
           _agent_init_error' \in BOOLEAN,
           UNCHANGED places,
           r.pc = "use" => r.pool = NoPool
    PROVE  TypeOK'
  <1>1. thread' \in [Threads -> Doings']
    BY DEF TypeOK, Become, Doings
  <1>2. ASSUME NEW p \in Pools PROVE Used(p)' <= MaxConn
    <2>1. Holders(p)' \subseteq Holders(p)
      BY Moved, DbPoolAssumption DEF Holders
    <2>2. Cardinality(Holders(p)') <= Cardinality(Holders(p))
      BY <2>1, HoldersFinite, FS_Subset
    <2>3. Cardinality(Holders(p)') \in Nat /\ Cardinality(Holders(p)) \in Nat
      BY <2>1, HoldersFinite, FS_Subset, FS_CardinalityType
    <2>4. Cardinality(Holders(p)) + leaked[p] + lost[p] <= MaxConn
      BY DEF TypeOK, Used
    <2>5. leaked[p] \in Nat /\ lost[p] \in Nat
      BY DEF TypeOK
    <2> QED BY <2>2, <2>3, <2>4, <2>5, DbPoolAssumption DEF Used, places
  <1> QED BY <1>1, <1>2 DEF TypeOK, places

LEMMA KindMove ==
    ASSUME TypeOK, NEW t \in Threads, NEW r, Become(t, r), KindOk(r),
           \A u \in Threads : KindOk(thread[u])
    PROVE  \A u \in Threads : KindOk(thread'[u])
  BY Moved

\* A move that changes nothing but what the thread does.
LEMMA MoveInv ==
    ASSUME IInv, NEW t \in Threads, NEW r \in Doings, Become(t, r), KindOk(r),
           UNCHANGED <<globals, places>>,
           r.pc = "use" => r.pool = NoPool,
           r.pc = "run" => r.kind = "query" \/ query_agent # NoAgent,
           InInitAgent(t) => r.pc \in Building,
           r.pc \in Building => created # {},
           r.pc = "install" => r.pool = _connection_pool
    PROVE  IInv'
  <1>1. TypeOK'
    BY TypeMove DEF IInv, TypeOK, globals, Doings
  <1>2. \A u \in Threads : KindOk(thread'[u])
    BY KindMove DEF IInv
  <1>3. KnownInv'
    BY DEF IInv, KnownInv, OnlyKnownLosses, globals, places
  <1>4. ReasonKnown'
    <2>1. InInitAgent(t) => InInitAgent(t)'
      BY Moved DEF IInv, InInitAgent, Building
    <2>2. \A u \in Threads : InInitAgent(u) => InInitAgent(u)'
      BY <2>1, Moved DEF IInv, InInitAgent
    <2> QED BY <2>2, Moved DEF IInv, ReasonKnown, At, Kind, globals
  <1>5. OnePoolInv'
    <2>1. UNCHANGED <<created, _connection_pool, query_agent>>
      BY DEF globals
    <2>2. \A u \in Threads : thread'[u].pc \in Building => created # {}
      BY Moved DEF IInv, OnePoolInv
    <2>3. \A u \in Threads : thread'[u].pc = "install" =>
            thread'[u].pool = _connection_pool \/ (thread[u].pc = "install" /\ thread'[u] = thread[u])
      BY Moved DEF IInv
    <2> QED BY <2>1, <2>2, <2>3 DEF IInv, OnePoolInv, OnePoolServesAll, At
  <1> QED BY <1>1, <1>2, <1>3, <1>4, <1>5 DEF IInv

----------------------------------------------------------------------------
\* The routes and what a thread does between two looks at the globals.

LEMMA Fresh ==
    ASSUME NEW pc \in Pcs, NEW kind \in Kinds
    PROVE  /\ Begin(pc, kind) \in Doings
           /\ Begin(pc, kind).pc = pc /\ Begin(pc, kind).kind = kind
           /\ Begin(pc, kind).way = "none"
  BY DEF Begin, Doings, Ways

LEMMA Taking ==
    ASSUME NEW way \in Ways, NEW kind \in Kinds
    PROVE  /\ Take(way, kind, NoPool) \in Doings
           /\ Take(way, kind, NoPool).pc = "take" /\ Take(way, kind, NoPool).kind = kind
           /\ Take(way, kind, NoPool).way = way
  BY DEF Take, Doings, Pcs

LEMMA ArriveInv == ASSUME IInv, NEW h \in Handlers, Arrive(h) PROVE IInv'
  <1>1. PICK kind \in Routes[h] :
            \/ kind \in {"plain", "health"} /\ Become(h, Begin("get", kind))
            \/ kind \in {"catalog", "stream"} /\ Become(h, Take("global", kind, NoPool))
            \/ kind = "version" /\ Become(h, Begin("pool", kind))
            \/ kind = "query" /\ Become(h, Begin("run", kind))
    BY DEF Arrive
  <1>2. kind \in Requests /\ h \in Threads
    BY DbPoolAssumption DEF Threads
  <1>3. \E r \in Doings : /\ Become(h, r) /\ KindOk(r)
                          /\ r.pc \in {"get", "take", "pool", "run"}
                          /\ r.pc = "run" => r.kind = "query"
    <2>1. CASE kind \in {"plain", "health"}
      BY SMTT(30), <1>1, <2>1, Fresh DEF Pcs, Kinds, Requests, KindOk
    <2>2. CASE kind \in {"catalog", "stream"}
      BY <1>1, <2>2, Taking DEF Ways, Kinds, Requests, KindOk
    <2>3. CASE kind = "version"
      BY SMTT(30), <1>1, <2>3, Fresh DEF Pcs, Kinds, Requests, KindOk
    <2>4. CASE kind = "query"
      BY <1>1, <2>4, Fresh DEF Pcs, Kinds, Requests, KindOk, Running
    <2> QED BY <1>2, <2>1, <2>2, <2>3, <2>4 DEF Requests
  <1>4. ~InInitAgent(h)
    BY DEF Arrive, At, InInitAgent
  <1> QED BY <1>2, <1>3, <1>4, MoveInv DEF Arrive, Building

LEMMA EndIs ==
    ASSUME TypeOK, NEW t \in Threads, End(t)
    PROVE  Idle \in Doings /\ Become(t, Idle) /\ KindOk(Idle) /\ Idle.pc = "idle"
  BY DEF End, Idle, Begin, Doings, Pcs, Kinds, Ways, KindOk

LEMMA AfterAgentIs ==
    ASSUME TypeOK, NEW t \in Threads, AfterAgent(t)
    PROVE  \E r \in Doings : /\ Become(t, r) /\ KindOk(r)
                             /\ r.pc \in {"take", "run", "idle"}
  <1>1. CASE Kind(t) \in {"plain", "health", "test"}
    BY <1>1, Taking DEF AfterAgent, Ways, Kinds, Requests, KindOk
  <1>2. CASE Kind(t) \in {"stream", "retry"}
    BY SMTT(30), <1>2, Fresh DEF AfterAgent, Pcs, Kinds, Requests, KindOk, Running
  <1>3. CASE End(t)
    BY <1>3, EndIs
  <1> QED BY <1>1, <1>2, <1>3 DEF AfterAgent

LEMMA AfterPoolIs ==
    ASSUME TypeOK, NEW t \in Threads, AfterPool(t)
    PROVE  \E r \in Doings : /\ Become(t, r) /\ KindOk(r)
                             /\ r.pc \in {"started", "reset", "agent"}
  <1>1. PICK pc \in {"started", "reset", "agent"} : Goto(t, pc)
    BY DEF AfterPool
  <1> QED BY <1>1, Doing DEF Goto, Doings, Pcs, KindOk

LEMMA GotoIs ==
    ASSUME TypeOK, NEW t \in Threads, NEW pc \in Pcs, Goto(t, pc)
    PROVE  \E r \in Doings : /\ Become(t, r) /\ r.pc = pc /\ r.kind = thread[t].kind
                             /\ r.way = thread[t].way /\ r.pool = thread[t].pool
  BY Doing DEF Goto, Doings

LEMMA CheckPoolInv == ASSUME IInv, NEW t \in Threads, CheckPool(t) PROVE IInv'
  <1>1. TypeOK /\ ~InInitAgent(t)
    BY DEF IInv, CheckPool, At, InInitAgent
  <1>2. CASE Goto(t, "new")
    BY <1>1, <1>2, GotoIs, MoveInv DEF CheckPool, KindOk, Building, Pcs
  <1>3. CASE AfterPool(t)
    BY <1>1, <1>3, AfterPoolIs, MoveInv DEF CheckPool, Building
  <1> QED BY <1>2, <1>3 DEF CheckPool

LEMMA EnsureAgentInv == ASSUME IInv, NEW t \in Threads, EnsureAgent(t) PROVE IInv'
  <1>1. TypeOK /\ ~InInitAgent(t)
    BY DEF IInv, EnsureAgent, At, InInitAgent
  <1>2. CASE Goto(t, "reset")
    BY <1>1, <1>2, GotoIs, MoveInv DEF EnsureAgent, KindOk, Building, Pcs
  <1>3. CASE AfterAgent(t) /\ query_agent # NoAgent
    BY <1>1, <1>3, AfterAgentIs, MoveInv DEF EnsureAgent, Building
  <1> QED BY <1>2, <1>3 DEF EnsureAgent

LEMMA ChooseBuildInv == ASSUME IInv, NEW t \in Threads, ChooseBuild(t) PROVE IInv'
  <1>1. TypeOK /\ created # {}
    BY DEF IInv, ChooseBuild, TypeOK
  <1>2. PICK r \in Doings : Become(t, r) /\ r.pc = "build"
    BY <1>1, GotoIs DEF ChooseBuild, Pcs
  <1> QED BY <1>1, <1>2, MoveInv DEF ChooseBuild, KindOk, Building

LEMMA BuildInv == ASSUME IInv, NEW t \in Threads, Build(t) PROVE IInv'
  <1> DEFINE r == [thread[t] EXCEPT !.pc = "install", !.pool = _connection_pool]
  <1>1. TypeOK /\ thread[t].pc = "build" /\ _connection_pool \in created \union {NoPool}
    BY DEF IInv, Build, At, TypeOK
  <1>2. r \in Doings /\ r.pc = "install" /\ r.pool = _connection_pool
    BY <1>1, Doing DEF Doings, Pcs
  <1>3. created # {}
    BY <1>1 DEF IInv, OnePoolInv, Building
  <1>4. Become(t, r) /\ UNCHANGED <<globals, places>>
    BY DEF Build
  <1>5. KindOk(r)
    BY <1>2 DEF KindOk
  <1> HIDE DEF r
  <1> QED BY <1>2, <1>3, <1>4, <1>5, MoveInv DEF Building

LEMMA GetInv ==
    ASSUME IInv, NEW t \in Threads, GetDbConn(t) \/ TakeDirect(t) \/ Started(t) PROVE IInv'
  <1>1. TypeOK /\ ~InInitAgent(t) /\ UNCHANGED <<globals, places>>
    BY DEF IInv, GetDbConn, TakeDirect, Started, At, InInitAgent
  <1>2. CASE GetDbConn(t)
    <2>1. PICK r \in Doings : Become(t, r) /\ KindOk(r) /\ r.pc \in {"pool", "take"}
      <3>1. CASE Goto(t, "pool")
        BY <1>1, <3>1, GotoIs DEF Pcs, KindOk
      <3>2. CASE Become(t, Take("get_db_conn", Kind(t), NoPool))
        BY <1>1, <3>2, Doing, Taking DEF Ways, KindOk, Kind
      <3> QED BY <1>2, <3>1, <3>2 DEF GetDbConn
    <2> QED BY <1>1, <2>1, MoveInv DEF Building
  <1>3. CASE TakeDirect(t)
    <2> DEFINE r == [thread[t] EXCEPT !.pc = "use", !.pool = NoPool]
    <2>1. r \in Doings /\ r.pc = "use" /\ r.pool = NoPool /\ r.way = thread[t].way
      BY <1>1, Doing DEF Doings, Pcs
    <2>2. Become(t, r) /\ thread[t].way = "get_db_conn"
      BY <1>3 DEF TakeDirect
    <2>3. KindOk(r)
      BY <2>1, <2>2 DEF KindOk
    <2> HIDE DEF r
    <2> QED BY <1>1, <2>1, <2>2, <2>3, MoveInv DEF Building
  <1>4. CASE Started(t)
    <2>1. PICK r \in Doings : Become(t, r) /\ KindOk(r) /\ r.pc \in {"reset", "get"}
      <3>1. CASE Become(t, Last)
        BY <3>1, Fresh DEF Last, Pcs, Kinds, KindOk
      <3>2. CASE Become(t, Begin("get", "test"))
        BY <3>2, Fresh DEF Pcs, Kinds, KindOk
      <3> QED BY <1>4, <3>1, <3>2 DEF Started
    <2> QED BY <1>1, <2>1, MoveInv DEF Building
  <1> QED BY <1>2, <1>3, <1>4

\* What follows a connection taken from the global pool.
LEMMA AfterGlobalIs ==
    ASSUME TypeOK, NEW t \in Threads, AfterGlobal(t)
    PROVE  \E r \in Doings : Become(t, r) /\ KindOk(r) /\ r.pc \in {"check", "idle"}
  <1>1. CASE Become(t, Begin("check", "stream"))
    BY <1>1, Fresh DEF Pcs, Kinds, Requests, KindOk
  <1>2. CASE End(t)
    BY <1>2, EndIs
  <1> QED BY <1>1, <1>2 DEF AfterGlobal

LEMMA TakeFailsInv == ASSUME IInv, NEW t \in Threads, TakeFails(t) PROVE IInv'
  <1>1. /\ TypeOK /\ KindOk(thread[t]) /\ thread[t].pc = "take" /\ ~InInitAgent(t)
        /\ UNCHANGED <<globals, places>>
    BY DEF IInv, TakeFails, At, InInitAgent
  <1>2. CASE thread[t].way = "tool" /\ Goto(t, "running")
    BY <1>1, <1>2, GotoIs, MoveInv DEF KindOk, Building, Pcs
  <1>3. CASE AfterGlobal(t)
    BY <1>1, <1>3, AfterGlobalIs, MoveInv DEF Building
  <1>4. CASE Become(t, Last)
    <2>1. Last \in Doings /\ KindOk(Last) /\ Last.pc = "reset"
      BY DEF Last, Begin, Doings, Pcs, Kinds, Ways, KindOk
    <2> QED BY <1>1, <1>4, <2>1, MoveInv DEF Building
  <1>5. CASE End(t)
    BY <1>1, <1>5, EndIs, MoveInv DEF Building
  <1> QED BY <1>2, <1>3, <1>4, <1>5 DEF TakeFails

LEMMA NoResultIs ==
    ASSUME TypeOK, NEW t \in Threads, NoResult(t), thread[t].kind \in Running
    PROVE  \E r \in Doings : Become(t, r) /\ KindOk(r) /\ r.pc \in {"idle", "check", "get"}
  <1>1. CASE End(t)
    BY <1>1, EndIs
  <1>2. CASE Become(t, Begin("check", "query"))
    BY <1>2, Fresh DEF Pcs, Kinds, Requests, KindOk
  <1>3. CASE Become(t, Simple)
    BY <1>3, Fresh DEF Simple, Pcs, Kinds, Requests, KindOk
  <1> QED BY <1>1, <1>2, <1>3 DEF NoResult, Running, Kind

LEMMA AgentInv ==
    ASSUME IInv, NEW t \in Threads,
           CheckAgent(t) \/ RunAgent(t) \/ NoAgentToRun(t) \/ UseTool(t) \/ Answer(t)
             \/ AgentRaises(t)
    PROVE  IInv'
  <1>1. /\ TypeOK /\ KindOk(thread[t]) /\ ~InInitAgent(t) /\ UNCHANGED <<globals, places>>
        /\ thread[t].pc \in {"check", "run", "running"}
    BY DEF IInv, CheckAgent, RunAgent, NoAgentToRun, UseTool, Answer, AgentRaises, At, InInitAgent
  <1>2. CASE CheckAgent(t)
    <2>1. thread[t].kind \in {"stream", "query"}
      BY <1>1, <1>2 DEF CheckAgent, At, KindOk
    <2>2. PICK r \in Doings : /\ Become(t, r) /\ KindOk(r) /\ r.pc \in {"pool", "run", "get"}
                              /\ r.pc = "run" => query_agent # NoAgent
      <3>1. CASE query_agent = NoAgent
        <4> DEFINE kind == IF Kind(t) = "query" THEN "retry" ELSE "stream"
        <4>1. kind \in Kinds
          BY DEF Kinds, Requests
        <4>2. Become(t, Begin("pool", kind))
          BY <1>2, <3>1 DEF CheckAgent
        <4> HIDE DEF kind
        <4> QED BY <4>1, <4>2, Fresh DEF Pcs, KindOk
      <3>2. CASE query_agent # NoAgent /\ Goto(t, "run")
        BY <1>1, <2>1, <3>2, GotoIs DEF Pcs, KindOk, Running
      <3>3. CASE Become(t, Simple)
        BY SMTT(30), <3>3, Fresh DEF Simple, Pcs, Kinds, Requests, KindOk
      <3> QED BY <1>2, <2>1, <3>1, <3>2, <3>3 DEF CheckAgent, Kind
    <2> QED BY <1>1, <2>2, MoveInv DEF Building
  <1>3. CASE RunAgent(t)
    <2>1. query_agent \in created \union {NoPool}
      BY <1>1, <1>3 DEF RunAgent, TypeOK
    <2>2. PICK r \in Doings : Become(t, r) /\ KindOk(r) /\ r.pc = "running"
      <3> DEFINE r == [thread[t] EXCEPT !.pc = "running", !.way = "tool", !.pool = query_agent]
      <3>1. r \in Doings /\ r.pc = "running" /\ r.kind = thread[t].kind
        BY <1>1, <2>1, Doing DEF Doings, Pcs, Ways
      <3>2. Become(t, r) /\ thread[t].kind \in Running
        BY <1>1, <1>3 DEF RunAgent, At, KindOk
      <3>3. KindOk(r)
        BY <3>1, <3>2 DEF KindOk
      <3> QED BY <3>1, <3>2, <3>3
    <2> QED BY <1>1, <2>2, MoveInv DEF Building
  <1>4. CASE NoAgentToRun(t) \/ AgentRaises(t)
    <2>1. NoResult(t) /\ thread[t].kind \in Running
      BY <1>1, <1>4 DEF NoAgentToRun, AgentRaises, At, KindOk
    <2> QED BY <1>1, <2>1, NoResultIs, MoveInv DEF Building
  <1>5. CASE UseTool(t)
    <2>1. PICK r \in Doings : Become(t, r) /\ KindOk(r) /\ r.pc = "take"
      BY <1>1, <1>5, GotoIs DEF UseTool, At, KindOk, Pcs
    <2> QED BY <1>1, <2>1, MoveInv DEF Building
  <1>6. CASE Answer(t)
    BY <1>1, <1>6, EndIs, MoveInv DEF Answer, Building
  <1> QED BY <1>2, <1>3, <1>4, <1>5, <1>6
----------------------------------------------------------------------------
\* The steps that change a global.

\* What MoveInv says of the records, for a step that changes the globals.
LEMMA GlobalMove ==
    ASSUME IInv, NEW t \in Threads, NEW r, Become(t, r), KindOk(r),
           created \subseteq created', created' \subseteq Pools, r \in Doings',
           _connection_pool' \in created' \union {NoPool},
           query_agent' \in created' \union {NoPool, NoAgent},
           _agent_init_error' \in BOOLEAN,
           UNCHANGED places,
           r.pc # "use"
    PROVE  TypeOK' /\ \A u \in Threads : KindOk(thread'[u])
  BY TypeMove, KindMove DEF IInv

LEMMA NewPoolInv ==
    ASSUME IInv, NEW t \in Threads, NewPool(t) \/ NewPoolFails(t) PROVE IInv'
  <1>1. TypeOK /\ AfterPool(t) /\ UNCHANGED <<query_agent, _agent_init_error, places>>
    BY DEF IInv, NewPool, NewPoolFails
  <1>2. PICK r \in Doings : Become(t, r) /\ KindOk(r) /\ r.pc \in {"started", "reset", "agent"}
    BY <1>1, AfterPoolIs
  <1>3. /\ created \subseteq created' /\ created' \subseteq Pools
        /\ _connection_pool' \in created' \union {NoPool}
        /\ \/ _connection_pool' = NoPool /\ created' = created
           \/ /\ _connection_pool' \in Pools \ created
              /\ created' = created \union {_connection_pool'}
    BY DEF IInv, NewPool, NewPoolFails, TypeOK
  <1>4. TypeOK' /\ \A u \in Threads : KindOk(thread'[u])
    <2>1. r \in Doings' /\ r.pc # "use"
      BY <1>2, <1>3 DEF Doings
    <2>2. query_agent' \in created' \union {NoPool, NoAgent} /\ _agent_init_error' \in BOOLEAN
      BY <1>1, <1>3 DEF TypeOK
    <2> QED BY <1>1, <1>2, <1>3, <2>1, <2>2, GlobalMove
  <1>5. KnownInv'
    BY <1>1, <1>3, DbPoolAssumption DEF IInv, KnownInv, OnlyKnownLosses, places
  <1>6. thread[t].pc = "new" /\ ~InInitAgent(t)
    BY DEF NewPool, NewPoolFails, At, InInitAgent
  <1>7. ReasonKnown'
    <2>1. \A u \in Threads : InInitAgent(u) => InInitAgent(u)'
      BY <1>1, <1>2, <1>6, Moved DEF InInitAgent
    <2> QED BY <1>1, <1>2, <2>1, Moved DEF IInv, ReasonKnown, At, Kind
  <1>8. OnePoolInv'
    <2>1. \A u \in Threads : thread'[u].pc \in Building \/ thread'[u].pc = "install" =>
            thread'[u] = thread[u]
      BY <1>1, <1>2, Moved DEF Building
    <2>2. created' = {} => created = {}
      BY <1>3
    <2>3. CASE _connection_pool' = NoPool /\ created' = created
      BY <1>1, <2>1, <2>3, DbPoolAssumption DEF IInv, OnePoolInv, OnePoolServesAll, At, Building
    <2>4. CASE /\ _connection_pool' \in Pools \ created
               /\ created' = created \union {_connection_pool'}
      <3>1. ASSUME NEW p \in Pools, created' = {p} PROVE created = {}
        BY <2>4, <3>1
      <3>2. created' # {}
        BY <2>4
      <3> QED BY <1>1, <2>1, <3>1, <3>2 DEF IInv, OnePoolInv, OnePoolServesAll, At, Building
    <2> QED BY <1>3, <2>3, <2>4
  <1> QED BY <1>4, <1>5, <1>7, <1>8 DEF IInv

LEMMA ResetErrorInv == ASSUME IInv, NEW t \in Threads, ResetError(t) PROVE IInv'
  <1>1. /\ TypeOK /\ Goto(t, "choose") /\ _agent_init_error' = FALSE
        /\ UNCHANGED <<_connection_pool, query_agent, created, places>>
    BY DEF IInv, ResetError
  <1>2. PICK r \in Doings : Become(t, r) /\ r.pc = "choose"
    BY <1>1, GotoIs DEF Pcs
  <1>3. TypeOK' /\ \A u \in Threads : KindOk(thread'[u])
    BY <1>1, <1>2, GlobalMove DEF KindOk, TypeOK, Doings
  <1>4. KnownInv'
    BY <1>1 DEF IInv, KnownInv, OnlyKnownLosses, places
  <1>5. InInitAgent(t)'
    BY <1>1, <1>2, Moved DEF InInitAgent
  <1>6. ReasonKnown'
    BY <1>5 DEF ReasonKnown
  <1>7. OnePoolInv'
    BY <1>1, <1>2, Moved DEF IInv, OnePoolInv, OnePoolServesAll, At, Building
  <1> QED BY <1>3, <1>4, <1>6, <1>7 DEF IInv

\* The ends of init_agent store a reason, or make an agent.
LEMMA InitAgentEnds ==
    ASSUME IInv, NEW t \in Threads, ChooseReason(t) \/ Install(t) \/ Explain(t) PROVE IInv'
  <1>1. /\ TypeOK /\ AfterAgent(t) /\ UNCHANGED <<_connection_pool, created, places>>
        /\ thread[t].pc \in {"choose", "install", "explain"}
    BY DEF IInv, ChooseReason, Install, Explain, At
  <1>2. PICK r \in Doings : Become(t, r) /\ KindOk(r) /\ r.pc \in {"take", "run", "idle"}
    BY <1>1, AfterAgentIs
  <1>3. /\ query_agent' \in created \union {NoPool, NoAgent}
        /\ _agent_init_error' \in BOOLEAN
        /\ query_agent' = NoAgent => _agent_init_error'
    BY Doing, DbPoolAssumption DEF IInv, TypeOK, ChooseReason, Install, Explain
  <1>4. TypeOK' /\ \A u \in Threads : KindOk(thread'[u])
    BY <1>1, <1>2, <1>3, GlobalMove DEF TypeOK, Doings
  <1>5. KnownInv'
    BY <1>1 DEF IInv, KnownInv, OnlyKnownLosses, places
  <1>6. ReasonKnown'
    BY <1>3 DEF ReasonKnown
  <1>7. OnePoolInv'
    <2>1. \A u \in Threads : thread'[u].pc \in Building \/ thread'[u].pc = "install" =>
            thread'[u] = thread[u]
      BY <1>1, <1>2, Moved DEF Building
    <2>2. \/ query_agent' = query_agent
          \/ /\ query_agent' = thread[t].pool
             /\ At(t, "install")
             /\ created # {}
      BY DEF IInv, ChooseReason, Install, Explain, At, OnePoolInv, Building
    <2> QED BY <1>1, <2>1, <2>2 DEF IInv, OnePoolInv, OnePoolServesAll, At, Building
  <1> QED BY <1>4, <1>5, <1>6, <1>7 DEF IInv

LEMMA BuildFailsInv == ASSUME IInv, NEW t \in Threads, BuildFails(t) PROVE IInv'
  <1> DEFINE r == [thread[t] EXCEPT !.pc = "explain", !.pool = NoPool]
  <1>1. /\ TypeOK /\ thread[t].pc \in {"build", "install"} /\ query_agent' = NoAgent
        /\ UNCHANGED <<_connection_pool, _agent_init_error, created, places>>
        /\ Become(t, r)
    BY DEF IInv, BuildFails
  <1>2. r \in Doings /\ r.pc = "explain"
    BY <1>1, Doing DEF Doings, Pcs
  <1> HIDE DEF r
  <1>3. TypeOK' /\ \A u \in Threads : KindOk(thread'[u])
    BY <1>1, <1>2, GlobalMove DEF TypeOK, Doings, KindOk
  <1>4. KnownInv'
    BY <1>1 DEF IInv, KnownInv, OnlyKnownLosses, places
  <1>5. InInitAgent(t)'
    BY <1>1, <1>2, Moved DEF InInitAgent
  <1>6. ReasonKnown'
    BY <1>5 DEF ReasonKnown
  <1>7. OnePoolInv'
    BY <1>1, <1>2, Moved DEF IInv, OnePoolInv, OnePoolServesAll, At, Building
  <1> QED BY <1>3, <1>4, <1>6, <1>7 DEF IInv
----------------------------------------------------------------------------
\* The steps that take a connection or have one no more.

\* They leave the globals alone, and the thread does not go on with the agent.
LEMMA PlacesMove ==
    ASSUME IInv, NEW t \in Threads, NEW r, Become(t, r), UNCHANGED globals,
           ~InInitAgent(t), r.pc \notin Building \union {"run"}
    PROVE  ReasonKnown' /\ OnePoolInv'
  <1>1. \A u \in Threads : InInitAgent(u) => InInitAgent(u)'
    BY Moved DEF IInv, InInitAgent
  <1>2. ReasonKnown'
    BY <1>1, Moved DEF IInv, ReasonKnown, At, Kind, globals
  <1>3. \A u \in Threads : thread'[u].pc \in Building => thread'[u] = thread[u]
    BY Moved DEF IInv
  <1>4. OnePoolInv'
    BY <1>3 DEF IInv, OnePoolInv, OnePoolServesAll, At, Building, globals
  <1> QED BY <1>2, <1>4

LEMMA TakeConnInv == ASSUME IInv, NEW t \in Threads, TakeConn(t) PROVE IInv'
  <1> DEFINE r == [thread[t] EXCEPT !.pc = "use", !.pool = Source(t)]
  <1>1. /\ TypeOK /\ thread[t].pc = "take" /\ Source(t) # NoPool /\ Used(Source(t)) < MaxConn
        /\ Become(t, r) /\ UNCHANGED <<globals, places>> /\ KindOk(thread[t])
    BY DEF IInv, TakeConn, At
  <1>2. Source(t) \in created /\ created \subseteq Pools
    BY <1>1, Doing DEF Source, TypeOK
  <1>3. /\ r \in Doings /\ r.pc = "use" /\ r.pool = Source(t)
        /\ r.kind = thread[t].kind /\ r.way = thread[t].way
    BY <1>1, <1>2, Doing DEF Doings, Pcs
  <1> HIDE DEF r
  <1>4. \A p \in Pools : Used(p)' <= MaxConn
    <2> TAKE p \in Pools
    <2>1. Cardinality(Holders(p)) \in Nat /\ leaked[p] \in Nat /\ lost[p] \in Nat
      BY <1>1, HoldersNat DEF TypeOK
    <2>2. Used(p) = Cardinality(Holders(p)) + leaked[p] + lost[p] /\ Used(p) <= MaxConn
      BY <1>1 DEF Used, TypeOK
    <2>3. leaked' = leaked /\ lost' = lost
      BY <1>1 DEF places
    <2>4. CASE p = Source(t)
      <3>1. Holders(p)' \subseteq Holders(p) \union {t}
        BY <1>1, Moved DEF Holders
      <3>2. /\ IsFiniteSet(Holders(p) \union {t})
            /\ Cardinality(Holders(p) \union {t}) <= Cardinality(Holders(p)) + 1
        BY SMTT(30), HoldersFinite, <2>1, FS_AddElement
      <3>3. Cardinality(Holders(p)') <= Cardinality(Holders(p) \union {t})
        BY <3>1, <3>2, FS_Subset
      <3>4. Cardinality(Holders(p)') \in Nat /\ Cardinality(Holders(p) \union {t}) \in Nat
        BY <3>1, <3>2, FS_Subset, FS_CardinalityType
      <3> QED BY <1>1, <2>1, <2>2, <2>3, <2>4, <3>2, <3>3, <3>4, DbPoolAssumption DEF Used
    <2>5. CASE p # Source(t)
      <3>1. Holders(p)' \subseteq Holders(p)
        BY <1>1, <1>3, <2>5, Moved DEF Holders
      <3>2. Cardinality(Holders(p)') <= Cardinality(Holders(p)) /\ Cardinality(Holders(p)') \in Nat
        BY <3>1, HoldersFinite, FS_Subset, FS_CardinalityType
      <3> QED BY <2>1, <2>2, <2>3, <3>2, DbPoolAssumption DEF Used
    <2> QED BY <2>4, <2>5
  <1>5. TypeOK'
    BY <1>1, <1>3, <1>4 DEF TypeOK, Become, globals, places, Doings
  <1>6. \A u \in Threads : KindOk(thread'[u])
    <2>1. KindOk(r)
      BY <1>1, <1>3 DEF KindOk
    <2> QED BY <1>1, <2>1, KindMove DEF IInv
  <1>7. KnownInv'
    BY <1>1 DEF IInv, KnownInv, OnlyKnownLosses, globals, places
  <1>8. ReasonKnown' /\ OnePoolInv'
    BY <1>1, <1>3, PlacesMove DEF InInitAgent, Building
  <1> QED BY <1>5, <1>6, <1>7, <1>8 DEF IInv

\* Either the place is free again, or a count of the pool stands for it.
LEMMA FreedType ==
    ASSUME TypeOK, NEW t \in Threads, NEW r \in Doings, Become(t, r), r.pc # "use",
           At(t, "use"), UNCHANGED globals,
           UNCHANGED places \/ Lose(thread[t].pool) \/ Leak(thread[t].pool)
    PROVE  TypeOK'
  <1>1. thread' \in [Threads -> Doings']
    BY DEF TypeOK, Become, Doings, globals
  <1>2. leaked' \in [Pools -> Nat] /\ lost' \in [Pools -> Nat]
    BY DEF TypeOK, Lose, Leak, Occupy, places
  <1>3. ASSUME NEW p \in Pools PROVE Used(p)' <= MaxConn
    <2>1. Holders(p)' \subseteq Holders(p) \ {t}
      BY Moved DEF Holders
    <2>2. IsFiniteSet(Holders(p) \ {t}) /\ Cardinality(Holders(p)') <= Cardinality(Holders(p) \ {t})
      BY <2>1, HoldersFinite, FS_RemoveElement, FS_Subset
    <2>3. Cardinality(Holders(p)') \in Nat /\ Cardinality(Holders(p) \ {t}) \in Nat
      BY <2>1, <2>2, FS_Subset, FS_CardinalityType
    <2>4. /\ Cardinality(Holders(p)) \in Nat /\ leaked[p] \in Nat /\ lost[p] \in Nat
          /\ Cardinality(Holders(p)) + leaked[p] + lost[p] <= MaxConn
      BY HoldersNat DEF TypeOK, Used
    <2>5. CASE p # thread[t].pool
      <3>1. leaked'[p] = leaked[p] /\ lost'[p] = lost[p]
        BY <2>5 DEF TypeOK, Lose, Leak, Occupy, places
      <3>2. Cardinality(Holders(p) \ {t}) <= Cardinality(Holders(p))
        BY HoldersFinite, FS_Subset
      <3> QED BY <2>2, <2>3, <2>4, <3>1, <3>2, DbPoolAssumption DEF Used
    <2>6. CASE p = thread[t].pool
      <3>1. t \in Holders(p)
        BY <2>6 DEF Holders, At
      <3>2. Cardinality(Holders(p) \ {t}) = Cardinality(Holders(p)) - 1
        BY <3>1, HoldersFinite, FS_RemoveElement
      <3>3. leaked'[p] + lost'[p] <= leaked[p] + lost[p] + 1
        BY <2>4, <2>6 DEF TypeOK, Lose, Leak, Occupy, places
      <3>4. leaked'[p] \in Nat /\ lost'[p] \in Nat
        BY <1>2
      <3> QED BY <2>2, <2>3, <2>4, <3>2, <3>3, <3>4, DbPoolAssumption DEF Used
    <2> QED BY <2>5, <2>6
  <1> QED BY <1>1, <1>2, <1>3 DEF TypeOK, globals

LEMMA FreedInv ==
    ASSUME IInv, NEW t \in Threads, NEW r \in Doings, Become(t, r), KindOk(r),
           r.pc \notin Building \union {"run", "use"},
           At(t, "use"), UNCHANGED globals,
           \/ UNCHANGED places
           \/ _connection_pool # thread[t].pool /\ Lose(thread[t].pool)
           \/ Leak(thread[t].pool)
    PROVE  IInv'
  <1>1. TypeOK'
    BY FreedType DEF IInv
  <1>2. \A u \in Threads : KindOk(thread'[u])
    BY KindMove DEF IInv
  <1>3. KnownInv'
    <2>1. \A p \in Pools : lost'[p] = lost[p] \/ (p = thread[t].pool /\ p # _connection_pool)
      BY DEF IInv, TypeOK, Lose, Leak, Occupy, places
    <2>2. thread[t].pool \in created \union {NoPool} /\ _connection_pool \in created \union {NoPool}
      BY Doing DEF IInv, TypeOK
    <2> QED BY <2>1, <2>2, DbPoolAssumption DEF IInv, TypeOK, KnownInv, OnlyKnownLosses, globals
  <1>4. ReasonKnown' /\ OnePoolInv'
    BY PlacesMove DEF InInitAgent, At, Building
  <1> QED BY <1>1, <1>2, <1>3, <1>4 DEF IInv

LEMMA GivenBackInv ==
    ASSUME IInv, NEW t \in Threads,
           ReturnDbConn(t) \/ HealthFails(t) \/ CloseTest(t) \/ PutGlobal(t) \/ PutTool(t)
    PROVE  IInv'
  <1>1. TypeOK /\ At(t, "use") /\ UNCHANGED globals /\ KindOk(thread[t])
    BY DEF IInv, ReturnDbConn, HealthFails, CloseTest, PutGlobal, PutTool
  <1>2. \/ UNCHANGED places
        \/ _connection_pool # thread[t].pool /\ Lose(thread[t].pool)
        \/ Leak(thread[t].pool)
    BY DbPoolAssumption DEF ReturnDbConn, HealthFails, CloseTest, PutGlobal, PutTool, Lose, Occupy,
       places
  <1>3. CASE End(t)
    BY <1>1, <1>2, <1>3, EndIs, FreedInv DEF Building
  <1>4. CASE AfterGlobal(t)
    BY <1>1, <1>2, <1>4, AfterGlobalIs, FreedInv DEF Building
  <1>5. CASE Become(t, Last)
    <2>1. Last \in Doings /\ KindOk(Last) /\ Last.pc = "reset"
      BY Fresh DEF Last, Pcs, Kinds, KindOk
    <2> QED BY <1>1, <1>2, <1>5, <2>1, FreedInv DEF Building
  <1>6. CASE thread[t].way = "tool" /\ Goto(t, "running")
    <2>1. PICK r \in Doings : Become(t, r) /\ KindOk(r) /\ r.pc = "running"
      BY <1>1, <1>6, GotoIs DEF Pcs, KindOk, At
    <2> QED BY <1>1, <1>2, <2>1, FreedInv DEF Building
  <1> QED BY <1>3, <1>4, <1>5, <1>6 DEF ReturnDbConn, HealthFails, CloseTest, PutGlobal, PutTool

----------------------------------------------------------------------------

LEMMA StepInv == IInv /\ [Next]_vars => IInv'
  <1> SUFFICES ASSUME IInv, [Next]_vars PROVE IInv'
    OBVIOUS
  <1>1. CASE UNCHANGED vars
    BY <1>1 DEF IInv, TypeOK, Used, Holders, Doings, KnownInv, OnlyKnownLosses, ReasonKnown,
       OnePoolInv, OnePoolServesAll, InInitAgent, At, Kind, vars, globals, places
  <1>2. ASSUME NEW h \in Handlers, Arrive(h) PROVE IInv'
    BY <1>2, ArriveInv
  <1>3. ASSUME NEW t \in Threads, Step(t) PROVE IInv'
    BY <1>3, CheckPoolInv, NewPoolInv, EnsureAgentInv, ResetErrorInv, ChooseBuildInv, BuildInv,
       InitAgentEnds, BuildFailsInv, GetInv, TakeConnInv, TakeFailsInv, GivenBackInv, AgentInv
       DEF Step
  <1> QED BY <1>1, <1>2, <1>3 DEF Next

LEMMA Invariance == Spec => []IInv
  BY InitInv, StepInv, PTL DEF Spec

\* However many requests come at a time and whatever they find: every pool has
\* at most maxconn places taken, those that were leaked or lost included.
THEOREM TypeCorrect == Spec => []TypeOK
  BY Invariance, PTL DEF IInv

\* Whoever takes a connection from the pool in use gives it back to it, the two
\* leaks of /health and of the start-up test apart: get_db_conn with
\* return_db_conn, the finally blocks of /query/stream and /model-catalog, and
\* those of the tools pair up on all paths.
THEOREM KnownLosses == Spec => []OnlyKnownLosses
  BY Invariance, PTL DEF IInv, KnownInv

\* A stream that finds no agent finds the reason that init_agent has stored,
\* whichever threads run init_agent at a time, unless one is in it right then.
THEOREM ReasonsKnown == Spec => []ReasonKnown
  BY Invariance, PTL DEF IInv

\* While the first pool is the only one made and in place, the agent has that
\* pool, also if several threads make agents at a time.
THEOREM OnePool == Spec => []OnePoolServesAll
  BY Invariance, PTL DEF IInv, OnePoolInv
=============================================================================
