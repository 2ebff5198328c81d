--------------------------- MODULE Frontend_proofs ---------------------------
(***************************************************************************)
(* Safety of what App.tsx of core_app/frontend shows, and of the streams   *)
(* of the server under it: QueryStream and ChatSession for every set of    *)
(* questions and every MaxProgress, with the refinement of QuestionOutcome *)
(* by ChatSession; then AppShell for every value of its bounds.            *)
(***************************************************************************)
EXTENDS ChatSession, AppShell, SequenceTheorems, TLAPS

----------------------------------------------------------------------------
\* Streams. None of the invariants is inductive by itself: what may be put next
\* depends on where run_agent is, and what was yielded on where generate() is.
\* StreamInv ties the log to the first and the counters to the second.

Before == {"unborn", "start", "run", "raised"}   \* no verdict put yet

\* What the queue holds, by the position of run_agent.
LogInv(s) ==
    /\ agentPc[s] \in Before => \A i \in 1..Len(log[s]) : log[s][i] = "progress"
    /\ agentPc[s] \notin Before => HasVerdict(s)
    /\ agentPc[s] = "returned" =>
        \A i \in 1..Len(log[s]) : log[s][i] \in {"progress", "complete"}
    /\ agentPc[s] # "exited" => \A i \in 1..Len(log[s]) : log[s][i] # "none"
    /\ agentPc[s] = "exited" =>
        /\ Len(log[s]) > 0
        /\ log[s][Len(log[s])] = "none"
        /\ \A i \in 1..(Len(log[s]) - 1) : log[s][i] # "none"
    /\ agent_complete[s] <=> agentPc[s] \in {"sentinel", "exited"}

\* VerdictIsFinal, for one stream.
FinalInv(s) ==
    \A i, j \in 1..Len(log[s]) :
        i < j => /\ log[s][i] = "complete" => log[s][j] \in {"complete", "none"}
                 /\ log[s][i] = "error" => log[s][j] = "none"
                 /\ log[s][i] # "none"

\* What was taken and yielded, by the position of generate().
CountInv(s) ==
    /\ genPc[s] \in {"unborn", "get", "empty", "polled"} => written[s] = taken[s]
    /\ genPc[s] = "yield" => written[s] + 1 = taken[s]
    /\ genPc[s] = "drained" =>
        /\ agentPc[s] = "exited"
        /\ taken[s] = Len(log[s])
        /\ written[s] + 1 = taken[s]
    /\ genPc[s] = "polled" => agent_complete[s]
    /\ genPc[s] = "unborn" <=> agentPc[s] = "unborn"
    /\ conn[s] = "none" => agentPc[s] = "unborn"

StreamInv(s) == LogInv(s) /\ FinalInv(s) /\ CountInv(s)

IInv == TypeOK /\ \A s \in Streams : StreamInv(s)

----------------------------------------------------------------------------
\* What Append does, in the form the steps below use it.
LEMMA AppendFacts ==
    ASSUME NEW S, NEW q \in Seq(S), NEW e \in S
    PROVE  /\ Append(q, e) \in Seq(S)
           /\ Len(q) \in Nat
           /\ Len(Append(q, e)) = Len(q) + 1
           /\ \A i \in 1..Len(q) : Append(q, e)[i] = q[i]
           /\ Append(q, e)[Len(q) + 1] = e
    OBVIOUS

LEMMA InitInv == Init => IInv
  BY DEF Init, IInv, TypeOK, StreamInv, LogInv, FinalInv, CountInv, Before,
         AgentPcs, GenPcs, Conns, Items, HasVerdict

\* A stream whose variables do not change keeps its invariant.
LEMMA Frame ==
    ASSUME IInv, NEW t \in Streams,
           agentPc'[t] = agentPc[t], genPc'[t] = genPc[t], conn'[t] = conn[t],
           log'[t] = log[t], taken'[t] = taken[t], written'[t] = written[t],
           agent_complete'[t] = agent_complete[t]
    PROVE  StreamInv(t)'
  BY DEF IInv, StreamInv, LogInv, FinalInv, CountInv, HasVerdict

\* A put keeps the invariant of its stream when the item fits what was put
\* before it and the next position of run_agent.
LEMMA PutInv ==
    ASSUME IInv, NEW s \in Streams, NEW item \in Items, NEW pc \in AgentPcs,
           Put(s, item, pc),
           \/ agentPc[s] = "start" /\ item = "error" /\ pc = "finally"
           \/ agentPc[s] = "run" /\ item = "progress" /\ pc = "run"
           \/ agentPc[s] = "run" /\ item = "complete" /\ pc = "returned"
           \/ agentPc[s] = "run" /\ item = "error" /\ pc = "finally"
           \/ agentPc[s] = "returned" /\ item = "complete" /\ pc = "finally"
           \/ agentPc[s] = "raised" /\ item = "error" /\ pc = "finally"
           \/ agentPc[s] = "sentinel" /\ item = "none" /\ pc = "exited"
    PROVE  IInv'
<1> DEFINE q == log[s]
           n == Len(log[s])
<1>0. /\ log \in [Streams -> Seq(Items)] /\ agentPc \in [Streams -> AgentPcs]
      /\ StreamInv(s) /\ TypeOK
  BY DEF IInv, TypeOK
<1>1. /\ q \in Seq(Items)
      /\ log'[s] = Append(q, item) /\ agentPc'[s] = pc
      /\ UNCHANGED <<genPc, conn, taken, written, agent_complete>>
  BY <1>0 DEF Put
<1>2. /\ log'[s] \in Seq(Items)
      /\ n \in Nat
      /\ Len(log'[s]) = n + 1
      /\ \A i \in 1..n : log'[s][i] = log[s][i]
      /\ log'[s][n + 1] = item
  BY <1>1, AppendFacts
<1>3. TypeOK'
  <2>1. /\ log' \in [Streams -> Seq(Items)] /\ agentPc' \in [Streams -> AgentPcs]
    BY <1>0, <1>1, <1>2 DEF Put
  <2>2. \A t \in Streams : Len(log[t]) <= Len(log'[t])
    BY <1>0, <1>2 DEF Put
  <2>3. \A t \in Streams : Len(log[t]) \in Nat /\ Len(log'[t]) \in Nat
    BY <1>0, <2>1
  <2> QED
    BY <1>0, <1>1, <2>1, <2>2, <2>3 DEF TypeOK
<1>4. LogInv(s)'
  <2>1. LogInv(s)
    BY <1>0 DEF StreamInv
  <2>2. HasVerdict(s) => HasVerdict(s)'
    BY <1>2 DEF HasVerdict
  <2>3. item \in Verdicts => HasVerdict(s)'
    BY <1>2 DEF HasVerdict
  <2> QED
    BY <1>1, <1>2, <2>1, <2>2, <2>3 DEF LogInv, Before, Verdicts
<1>5. FinalInv(s)'
  <2> SUFFICES ASSUME NEW i \in 1..Len(log'[s]), NEW j \in 1..Len(log'[s]), i < j
               PROVE  /\ log'[s][i] = "complete" => log'[s][j] \in {"complete", "none"}
                      /\ log'[s][i] = "error" => log'[s][j] = "none"
                      /\ log'[s][i] # "none"
    BY DEF FinalInv
  <2>1. CASE j <= n
    BY <1>0, <1>2, <2>1 DEF StreamInv, FinalInv
  <2>2. CASE j = n + 1
    <3>1. i \in 1..n /\ log'[s][i] = log[s][i] /\ log'[s][j] = item
      BY <1>2, <2>2
    <3>2. log[s][i] # "none"
      BY <1>0, <3>1 DEF StreamInv, LogInv
    <3> QED
      BY <1>0, <3>1, <3>2 DEF StreamInv, LogInv, Before
  <2> QED
    BY <1>2, <2>1, <2>2
<1>6. CountInv(s)'
  BY <1>0, <1>1 DEF StreamInv, CountInv, AgentPcs
<1>7. ASSUME NEW t \in Streams PROVE StreamInv(t)'
  <2>1. CASE t = s
    BY <1>4, <1>5, <1>6, <2>1 DEF StreamInv
  <2>2. CASE t # s
    BY <1>0, <1>1, <2>2, Frame DEF Put
  <2> QED
    BY <2>1, <2>2
<1> QED
  BY <1>3, <1>7 DEF IInv

\* Every step of run_agent.
LEMMA AgentInv ==
    ASSUME IInv, NEW s \in Streams, Agent(s)
    PROVE  IInv'
<1>0. TypeOK /\ StreamInv(s)
  BY DEF IInv
<1>1. CASE AgentUnavailable(s)
  BY <1>1, PutInv DEF AgentUnavailable, Items, AgentPcs, Verdicts
<1>2. CASE AgentCall(s)
  <2>1. TypeOK'
    BY <1>0, <1>2 DEF TypeOK, AgentCall, AgentPcs
  <2>2. StreamInv(s)'
    BY <1>0, <1>2 DEF AgentCall, TypeOK, StreamInv, LogInv, FinalInv, CountInv, Before, HasVerdict
  <2>3. ASSUME NEW t \in Streams, t # s PROVE StreamInv(t)'
    BY <1>0, <1>2, <2>3, Frame DEF AgentCall, TypeOK
  <2> QED
    BY <2>1, <2>2, <2>3 DEF IInv
<1>3. CASE AgentProgress(s)
  BY <1>3, PutInv DEF AgentProgress, Items, AgentPcs
<1>4. CASE AgentAnswer(s)
  BY <1>4, PutInv DEF AgentAnswer, Items, AgentPcs, Verdicts
<1>5. CASE AgentFail(s)
  BY <1>5, PutInv DEF AgentFail, Items, AgentPcs, Verdicts
<1>6. CASE AgentRaise(s)
  <2>1. TypeOK'
    BY <1>0, <1>6 DEF TypeOK, AgentRaise, AgentPcs
  <2>2. StreamInv(s)'
    BY <1>0, <1>6 DEF AgentRaise, TypeOK, StreamInv, LogInv, FinalInv, CountInv, Before, HasVerdict
  <2>3. ASSUME NEW t \in Streams, t # s PROVE StreamInv(t)'
    BY <1>0, <1>6, <2>3, Frame DEF AgentRaise, TypeOK
  <2> QED
    BY <2>1, <2>2, <2>3 DEF IInv
<1>7. CASE RepeatComplete(s)
  <2>1. ~agent_complete[s]
    BY <1>0, <1>7 DEF StreamInv, LogInv, RepeatComplete
  <2> QED
    BY <1>7, <2>1, PutInv DEF RepeatComplete, Items, AgentPcs, Verdicts
<1>8. CASE ReportRaise(s)
  BY <1>8, PutInv DEF ReportRaise, Items, AgentPcs, Verdicts
<1>9. CASE SetComplete(s)
  <2>1. TypeOK'
    BY <1>0, <1>9 DEF TypeOK, SetComplete, AgentPcs
  <2>2. StreamInv(s)'
    BY <1>0, <1>9 DEF SetComplete, TypeOK, StreamInv, LogInv, FinalInv, CountInv, Before, HasVerdict
  <2>3. ASSUME NEW t \in Streams, t # s PROVE StreamInv(t)'
    BY <1>0, <1>9, <2>3, Frame DEF SetComplete, TypeOK
  <2> QED
    BY <2>1, <2>2, <2>3 DEF IInv
<1>10. CASE PutSentinel(s)
  BY <1>10, PutInv DEF PutSentinel, Items, AgentPcs
<1> QED
  BY <1>1, <1>2, <1>3, <1>4, <1>5, <1>6, <1>7, <1>8, <1>9, <1>10 DEF Agent

\* Every step of generate(). Only the agent thread puts, so the log stays.
LEMMA GeneratorInv ==
    ASSUME IInv, NEW s \in Streams, Generator(s)
    PROVE  IInv'
<1>0. TypeOK /\ StreamInv(s)
  BY DEF IInv
<1>1. UNCHANGED <<agentPc, conn, log, agent_complete>>
  BY DEF Generator, GetItem, GetTimeout, PollComplete, Yield, YieldFails
<1>2. Len(log[s]) \in Nat /\ taken[s] \in Nat /\ written[s] \in Nat
  BY <1>0 DEF TypeOK
<1>3. LogInv(s)' /\ FinalInv(s)'
  BY <1>0, <1>1 DEF StreamInv, LogInv, FinalInv, HasVerdict
<1>4. TypeOK' /\ CountInv(s)'
  <2>1. CASE GetItem(s)
    <3>1. /\ taken' = [taken EXCEPT ![s] = @ + 1] /\ written' = written
          /\ taken[s] < Len(log[s]) /\ genPc[s] = "get"
      BY <2>1 DEF GetItem
    <3>2. TypeOK'
      BY <1>0, <1>1, <1>2, <2>1, <3>1 DEF TypeOK, GetItem, GenPcs, Ended
    <3>3. CASE log[s][taken[s] + 1] = "none"
      <4>1. agentPc[s] = "exited" /\ taken[s] + 1 = Len(log[s])
        BY <1>0, <1>2, <3>1, <3>3 DEF StreamInv, LogInv
      <4>2. genPc'[s] = "drained" /\ agentPc[s] # "unborn" /\ conn[s] # "none"
        BY <1>0, <2>1, <3>3, <4>1 DEF TypeOK, GetItem, StreamInv, CountInv
      <4> QED
        BY <1>0, <1>1, <1>2, <3>1, <3>2, <4>1, <4>2 DEF TypeOK, StreamInv, CountInv
    <3>4. CASE log[s][taken[s] + 1] # "none"
      <4>1. genPc'[s] = "yield"
        BY <1>0, <2>1, <3>4 DEF TypeOK, GetItem
      <4> QED
        BY <1>0, <1>1, <1>2, <3>1, <3>2, <4>1 DEF TypeOK, StreamInv, CountInv
    <3> QED
      BY <3>3, <3>4, <3>2
  <2>2. CASE GetTimeout(s)
    BY <1>0, <2>2 DEF TypeOK, GetTimeout, GenPcs, StreamInv, CountInv
  <2>3. CASE PollComplete(s)
    BY <1>0, <2>3 DEF TypeOK, PollComplete, GenPcs, Ended, StreamInv, CountInv
  <2>4. CASE Yield(s)
    BY <1>0, <1>2, <2>4 DEF TypeOK, Yield, GenPcs, StreamInv, CountInv
  <2>5. CASE YieldFails(s)
    BY <1>0, <2>5 DEF TypeOK, YieldFails, GenPcs, Ended, StreamInv, CountInv
  <2> QED
    BY <2>1, <2>2, <2>3, <2>4, <2>5 DEF Generator
<1>5. ASSUME NEW t \in Streams, t # s PROVE StreamInv(t)'
  <2>1. genPc'[t] = genPc[t] /\ taken'[t] = taken[t] /\ written'[t] = written[t]
    BY <1>0, <1>5 DEF TypeOK, Generator, GetItem, GetTimeout, PollComplete, Yield, YieldFails
  <2> QED
    BY <1>1, <2>1, Frame
<1> QED
  BY <1>3, <1>4, <1>5 DEF IInv, StreamInv

\* The request handler and the network.
LEMMA ConnectionInv ==
    ASSUME IInv, NEW s \in Streams, Open(s) \/ Refuse(s) \/ Disconnect(s)
    PROVE  IInv'
<1>0. TypeOK /\ StreamInv(s)
  BY DEF IInv
<1>1. TypeOK'
  BY <1>0 DEF TypeOK, Open, Refuse, Disconnect, Conns, AgentPcs, GenPcs
<1>2. StreamInv(s)'
  BY SMTT(30), <1>0 DEF TypeOK, Open, Refuse, Disconnect, StreamInv, LogInv, FinalInv,
              CountInv, Before, HasVerdict
<1>3. ASSUME NEW t \in Streams, t # s PROVE StreamInv(t)'
  BY <1>0, <1>3, Frame DEF TypeOK, Open, Refuse, Disconnect
<1> QED
  BY <1>1, <1>2, <1>3 DEF IInv

LEMMA NextInv == IInv /\ [Next]_vars => IInv'
<1> SUFFICES ASSUME IInv, [Next]_vars PROVE IInv'
  OBVIOUS
<1>1. ASSUME NEW s \in Streams,
             Open(s) \/ Refuse(s) \/ Agent(s) \/ Generator(s) \/ Disconnect(s)
      PROVE  IInv'
  BY <1>1, AgentInv, GeneratorInv, ConnectionInv
<1>2. CASE UNCHANGED vars
  BY <1>2, Frame DEF IInv, TypeOK, vars
<1> QED
  BY <1>1, <1>2 DEF Next

LEMMA Invariance == Spec => []IInv
  BY InitInv, NextInv, PTL DEF Spec

----------------------------------------------------------------------------
\* Every variable keeps its type, and the generator never yields more than it
\* took nor takes more than was put.
THEOREM TypeCorrect == Spec => []TypeOK
<1>1. IInv => TypeOK
  BY DEF IInv
<1> QED
  BY <1>1, Invariance, PTL

\* A verdict is the last thing run_agent says, but for the repeated "complete"
\* and the sentinel, for any number of progress events.
THEOREM VerdictFinal == Spec => []VerdictIsFinal
<1>1. IInv => VerdictIsFinal
  BY DEF IInv, StreamInv, FinalInv, VerdictIsFinal
<1> QED
  BY <1>1, Invariance, PTL

\* agent_complete is set only behind a verdict.
THEOREM FlagBehindVerdict == Spec => []CompleteAfterVerdict
<1>1. IInv => CompleteAfterVerdict
  BY DEF IInv, StreamInv, LogInv, Before, CompleteAfterVerdict
<1> QED
  BY <1>1, Invariance, PTL

\* A stream that ends at the sentinel has yielded the whole run.
THEOREM DrainedWhole == Spec => []DrainedStreamIsWhole
<1>1. IInv => DrainedStreamIsWhole
  <2> SUFFICES ASSUME IInv, NEW s \in Streams, genPc[s] = "drained"
               PROVE  written[s] = Len(log[s]) - 1 /\ HasVerdict(s)
    BY DEF DrainedStreamIsWhole
  <2>1. written[s] \in Nat /\ StreamInv(s)
    BY DEF IInv, TypeOK
  <2>2. agentPc[s] = "exited" /\ written[s] + 1 = Len(log[s])
    BY <2>1 DEF StreamInv, CountInv
  <2>3. HasVerdict(s)
    BY <2>1, <2>2 DEF StreamInv, LogInv, Before
  <2> QED
    BY <2>1, <2>2, <2>3
<1> QED
  BY <1>1, Invariance, PTL

\* All of this together: what a stream owes to its client.
THEOREM VerdictKept == Spec => []VerdictIsKept
  BY VerdictFinal, FlagBehindVerdict, DrainedWhole, PTL DEF VerdictIsKept

\* Whoever closed the generator at the sentinel or the poll, the agent thread
\* has nothing left to put but the sentinel.
THEOREM NothingAfterEnd == Spec => NothingPutAfterEnd
<1>1. ASSUME IInv, [Next]_vars, NEW s \in Streams, genPc[s] \in {"drained", "polled"}
      PROVE  log'[s] = log[s] \/ log'[s] = Append(log[s], "none")
  <2>1. agentPc[s] \in {"sentinel", "exited"} /\ log \in [Streams -> Seq(Items)]
    BY <1>1 DEF IInv, TypeOK, StreamInv, LogInv, CountInv
  <2>2. ASSUME NEW t \in Streams, Agent(t) PROVE log'[s] = log[s] \/ log'[s] = Append(log[s], "none")
    <3>1. CASE t # s
      BY <2>1, <2>2, <3>1 DEF Agent, AgentUnavailable, AgentCall, AgentProgress, AgentAnswer,
        AgentFail, AgentRaise, RepeatComplete, ReportRaise, SetComplete, PutSentinel, Put
    <3>2. CASE t = s
      <4>1. PutSentinel(s)
        BY <2>1, <2>2, <3>2 DEF Agent, AgentUnavailable, AgentCall, AgentProgress, AgentAnswer,
          AgentFail, AgentRaise, RepeatComplete, ReportRaise, SetComplete
      <4> QED
        BY <2>1, <4>1 DEF PutSentinel, Put
    <3> QED
      BY <3>1, <3>2
  <2>3. ASSUME NEW t \in Streams, Open(t) \/ Refuse(t) \/ Generator(t) \/ Disconnect(t)
        PROVE  log' = log
    BY <2>3 DEF Open, Refuse, Disconnect, Generator, GetItem, GetTimeout, PollComplete, Yield, YieldFails
  <2>4. CASE UNCHANGED vars
    BY <2>4 DEF vars
  <2> QED
    BY <1>1, <2>2, <2>3, <2>4 DEF Next
<1>2. IInv /\ [Next]_vars =>
        [\A s \in Streams :
            genPc[s] \in {"drained", "polled"} =>
                log'[s] = log[s] \/ log'[s] = Append(log[s], "none")]_vars
  BY <1>1
<1> QED
  BY <1>2, Invariance, PTL DEF Spec, NothingPutAfterEnd

----------------------------------------------------------------------------
\* The chat. The invariant is that of the streams, and for the panel what an
\* EventSource that is not closed yet has done: an open one has dispatched
\* progress only, so nothing was answered or reported.

PanelInv(s) ==
    /\ es[s] = "none" => conn[s] = "none"
    /\ es[s] # "closed" =>
        /\ answers[s] = 0
        /\ notices[s] = {}
        /\ \A i \in 1..seen[s] : log[s][i] = "progress"
    /\ answers[s] <= 1
    /\ answers[s] = 1 => notices[s] = {}
    /\ genPc[s] = "gone" => conn[s] = "closed"

ChatInv ==
    /\ IInv
    /\ ChatTypeOK
    /\ LockedWhileOpen
    /\ \A s \in Streams : PanelInv(s)

LEMMA ChatInitInv == ChatInit => ChatInv
  <1> SUFFICES ASSUME ChatInit PROVE ChatInv
    OBVIOUS
  <1>1. IInv
    BY InitInv DEF ChatInit
  <1>2. notices \in [Streams -> SUBSET Notices] /\ \A s \in Streams : notices[s] = {}
    BY DEF ChatInit
  <1>3. /\ es = [s \in Streams |-> "none"] /\ conn = [s \in Streams |-> "none"]
        /\ seen = [s \in Streams |-> 0] /\ answers = [s \in Streams |-> 0]
        /\ written = [s \in Streams |-> 0] /\ genPc = [s \in Streams |-> "unborn"]
    BY DEF ChatInit, Init
  <1>4. \A s \in Streams :
          /\ es[s] = "none" /\ conn[s] = "none" /\ genPc[s] = "unborn"
          /\ seen[s] = 0 /\ written[s] = 0 /\ answers[s] = 0
    BY <1>3
  <1>5. ChatTypeOK
    <2>1. /\ es \in [Streams -> {"none", "open", "closed"}]
          /\ seen \in [Streams -> Nat] /\ answers \in [Streams -> Nat]
      BY <1>3
    <2>2. isStreaming \in BOOLEAN /\ mounted \in BOOLEAN
      BY DEF ChatInit
    <2> QED
      BY <1>2, <1>4, <2>1, <2>2 DEF ChatTypeOK
  <1>6. LockedWhileOpen
    BY <1>4 DEF ChatInit, LockedWhileOpen
  <1>7. \A s \in Streams : PanelInv(s)
    <2> TAKE s \in Streams
    <2>1. notices[s] = {} /\ \A i \in 1..seen[s] : log[s][i] = "progress"
      BY <1>2, <1>4
    <2> QED
      BY <1>4, <2>1 DEF PanelInv
  <1> QED
    BY <1>1, <1>5, <1>6, <1>7 DEF ChatInv

\* At the sentinel the verdict and everything else was yielded.
LEMMA DrainedFacts ==
    ASSUME IInv, NEW s \in Streams, genPc[s] = "drained"
    PROVE  /\ Len(log[s]) \in Nat /\ written[s] = Len(log[s]) - 1
           /\ HasVerdict(s) /\ log[s][Len(log[s])] = "none"
<1>1. written[s] \in Nat /\ Len(log[s]) \in Nat /\ StreamInv(s)
  BY DEF IInv, TypeOK
<1> QED
  BY <1>1 DEF StreamInv, CountInv, LogInv, Before

\* The browser closes connections; a request that has none gets none by it.
LEMMA CloseInv ==
    ASSUME IInv, ServerUnchanged, conn' \in [Streams -> Conns],
           \A t \in Streams : conn'[t] = "none" <=> conn[t] = "none"
    PROVE  IInv'
<1>1. TypeOK'
  BY DEF IInv, TypeOK, ServerUnchanged
<1>2. ASSUME NEW t \in Streams PROVE StreamInv(t)'
  <2>1. LogInv(t) /\ FinalInv(t) /\ CountInv(t)
    BY DEF IInv, StreamInv
  <2>2. LogInv(t)'
    BY <2>1 DEF LogInv, HasVerdict, ServerUnchanged
  <2>3. FinalInv(t)'
    BY <2>1 DEF FinalInv, ServerUnchanged
  <2>4. CountInv(t)'
    BY <2>1 DEF CountInv, ServerUnchanged
  <2> QED
    BY <2>2, <2>3, <2>4 DEF StreamInv
<1> QED
  BY <1>1, <1>2 DEF IInv

LEMMA CloseConnInv ==
    ASSUME IInv, NEW s \in Streams, ServerUnchanged, CloseConn(s)
    PROVE  IInv' /\ \A t \in Streams : conn[t] # "none" /\ conn[t] # "open" => conn'[t] = conn[t]
  BY CloseInv DEF CloseConn, IInv, TypeOK, Conns

LEMMA SendInv ==
    ASSUME ChatInv, NEW s \in Streams, SendQuery(s)
    PROVE  ChatInv' /\ (\A t \in Streams \ {s} : es'[t] = es[t]) /\ conn' = conn
<1>0. IInv /\ TypeOK /\ ChatTypeOK /\ LockedWhileOpen /\ \A t \in Streams : PanelInv(t)
  BY DEF ChatInv, IInv
<1>1. \A t \in Streams : es[t] # "open"
  BY <1>0 DEF SendQuery, LockedWhileOpen
<1>2. es' = [es EXCEPT ![s] = "open"] /\ conn' = conn
  BY <1>0, <1>1 DEF SendQuery, ChatTypeOK, TypeOK
<1>3. UNCHANGED vars
  BY <1>2 DEF SendQuery, ServerUnchanged, vars
<1>4. IInv'
  BY <1>0, <1>3, NextInv
<1>5. ChatTypeOK' /\ LockedWhileOpen'
  BY <1>0, <1>1, <1>2, <1>3 DEF SendQuery, ChatTypeOK, LockedWhileOpen, vars
<1>6. \A t \in Streams : PanelInv(t)'
  BY <1>0, <1>2, <1>3 DEF SendQuery, ChatTypeOK, PanelInv, vars
<1> QED
  BY <1>0, <1>2, <1>4, <1>5, <1>6 DEF ChatInv, ChatTypeOK

\* What the listeners have in common: one event is dispatched.
LEMMA ReceivedFacts ==
    ASSUME ChatInv, NEW s \in Streams, NEW kind, Received(s, kind)
    PROVE  /\ es[s] = "open" /\ conn[s] = "open"
           /\ seen' \in [Streams -> Nat]
           /\ seen[s] \in Nat /\ seen'[s] = seen[s] + 1 /\ seen'[s] <= written[s]
           /\ \A t \in Streams \ {s} : seen'[t] = seen[t]
           /\ log[s][seen'[s]] = kind
  BY DEF Received, ChatInv, ChatTypeOK, IInv, TypeOK

LEMMA ProgressInv ==
    ASSUME ChatInv, NEW s \in Streams, OnProgress(s)
    PROVE  ChatInv'
<1>0. IInv /\ ChatTypeOK /\ LockedWhileOpen /\ \A t \in Streams : PanelInv(t)
  BY DEF ChatInv
<1>1. UNCHANGED <<es, isStreaming, mounted, answers, notices, vars>>
  BY DEF OnProgress
<1>2. /\ es[s] = "open" /\ seen' \in [Streams -> Nat]
      /\ seen[s] \in Nat /\ seen'[s] = seen[s] + 1 /\ seen'[s] <= written[s]
      /\ \A t \in Streams \ {s} : seen'[t] = seen[t]
      /\ log[s][seen'[s]] = "progress"
  BY ReceivedFacts DEF OnProgress
<1>3. IInv' /\ LockedWhileOpen'
  BY <1>0, <1>1, NextInv DEF LockedWhileOpen
<1>4. ChatTypeOK'
  BY <1>0, <1>1, <1>2 DEF ChatTypeOK, vars
<1>5. \A t \in Streams \ {s} : PanelInv(t)'
  BY <1>0, <1>1, <1>2 DEF PanelInv, vars
<1>6. PanelInv(s)'
  BY <1>0, <1>1, <1>2 DEF PanelInv, vars
<1> QED
  BY <1>3, <1>4, <1>5, <1>6 DEF ChatInv

\* A handler that ends the stream of s: it is the only open one.
LEMMA EndInv ==
    ASSUME ChatInv, NEW s \in Streams, es[s] = "open",
           isStreaming' = FALSE, es' = [es EXCEPT ![s] = "closed"],
           CloseConn(s), ServerUnchanged, UNCHANGED mounted,
           seen' \in [Streams -> Nat], answers' \in [Streams -> Nat],
           notices' \in [Streams -> SUBSET Notices],
           seen'[s] <= written[s],
           answers'[s] <= 1, answers'[s] = 1 => notices'[s] = {},
           \A t \in Streams \ {s} :
               seen'[t] = seen[t] /\ answers'[t] = answers[t] /\ notices'[t] = notices[t]
    PROVE  ChatInv'
<1>0. IInv /\ ChatTypeOK /\ LockedWhileOpen /\ \A t \in Streams : PanelInv(t)
  BY DEF ChatInv
<1>1. IInv' /\ \A t \in Streams : conn[t] # "none" /\ conn[t] # "open" => conn'[t] = conn[t]
  BY <1>0, CloseConnInv
<1>2. ChatTypeOK'
  BY <1>0 DEF ChatTypeOK, ServerUnchanged
<1>3. LockedWhileOpen'
  BY <1>0 DEF LockedWhileOpen, ChatTypeOK
<1>4. \A t \in Streams \ {s} : es'[t] = es[t] /\ conn'[t] = conn[t]
  BY <1>0 DEF ChatTypeOK, CloseConn, IInv, TypeOK
<1>5. \A t \in Streams \ {s} : PanelInv(t)'
  BY <1>0, <1>4 DEF PanelInv, ServerUnchanged
<1>6. PanelInv(s)'
  BY <1>0, <1>1 DEF PanelInv, ServerUnchanged, ChatTypeOK
<1> QED
  BY <1>1, <1>2, <1>3, <1>5, <1>6 DEF ChatInv

LEMMA CompleteInv ==
    ASSUME ChatInv, NEW s \in Streams, OnComplete(s)
    PROVE  ChatInv' /\ es[s] = "open" /\ answers'[s] = 1
<1>1. /\ answers \in [Streams -> Nat] /\ notices \in [Streams -> SUBSET Notices]
      /\ PanelInv(s)
  BY DEF ChatInv, ChatTypeOK
<1>2. /\ es[s] = "open" /\ seen' \in [Streams -> Nat] /\ seen'[s] <= written[s]
      /\ \A t \in Streams \ {s} : seen'[t] = seen[t]
  BY ReceivedFacts DEF OnComplete
<1>3. answers[s] = 0 /\ notices[s] = {}
  BY <1>1, <1>2 DEF PanelInv
<1>4. /\ answers' \in [Streams -> Nat] /\ answers'[s] = 1 /\ notices' = notices
      /\ \A t \in Streams \ {s} : answers'[t] = answers[t]
  BY <1>1, <1>3 DEF OnComplete
<1>5. /\ isStreaming' = FALSE /\ es' = [es EXCEPT ![s] = "closed"]
      /\ CloseConn(s) /\ ServerUnchanged /\ UNCHANGED mounted
  BY DEF OnComplete
<1>6. \A t \in Streams \ {s} :
        seen'[t] = seen[t] /\ answers'[t] = answers[t] /\ notices'[t] = notices[t]
  BY <1>2, <1>4
<1>7. answers'[s] <= 1 /\ notices'[s] = {} /\ notices' \in [Streams -> SUBSET Notices]
  BY <1>1, <1>3, <1>4
<1>8. ChatInv'
  BY <1>2, <1>4, <1>5, <1>6, <1>7, EndInv
<1> QED
  BY <1>2, <1>4, <1>8

\* Failure on an open stream, whatever the first notice is.
LEMMA FailureInv ==
    ASSUME ChatInv, NEW s \in Streams, NEW n \in Notices, Failure(s, n), es[s] = "open",
           seen' \in [Streams -> Nat], seen'[s] <= written[s],
           \A t \in Streams \ {s} : seen'[t] = seen[t]
    PROVE  /\ ChatInv'
           /\ answers'[s] = 0 /\ notices'[s] = {n, "interrupted"}
           /\ \A t \in Streams \ {s} : notices'[t] = notices[t]
<1>1. /\ answers \in [Streams -> Nat] /\ notices \in [Streams -> SUBSET Notices]
      /\ PanelInv(s)
  BY DEF ChatInv, ChatTypeOK
<1>2. answers[s] = 0 /\ notices[s] = {} /\ answers' = answers
  BY <1>1 DEF PanelInv, Failure
<1>3. notices[s] \union {n, "interrupted"} = {n, "interrupted"}
  BY <1>2
<1>4. {n, "interrupted"} \in SUBSET Notices
  BY DEF Notices
<1>5. /\ notices' \in [Streams -> SUBSET Notices] /\ notices'[s] = {n, "interrupted"}
      /\ \A t \in Streams \ {s} : notices'[t] = notices[t]
  BY <1>1, <1>3, <1>4 DEF Failure
<1>6. /\ isStreaming' = FALSE /\ es' = [es EXCEPT ![s] = "closed"]
      /\ CloseConn(s) /\ ServerUnchanged /\ UNCHANGED mounted
  BY DEF Failure
<1>7. /\ answers' \in [Streams -> Nat] /\ answers'[s] <= 1 /\ answers'[s] # 1
      /\ \A t \in Streams \ {s} :
            seen'[t] = seen[t] /\ answers'[t] = answers[t] /\ notices'[t] = notices[t]
  BY <1>1, <1>2, <1>5
<1>8. ChatInv'
  BY <1>5, <1>6, <1>7, EndInv
<1> QED
  BY <1>2, <1>5, <1>8

LEMMA ServerErrorInv ==
    ASSUME ChatInv, NEW s \in Streams, OnServerError(s)
    PROVE  /\ ChatInv' /\ es[s] = "open"
           /\ answers'[s] = 0 /\ notices'[s] = {"server_error", "interrupted"}
           /\ \A t \in Streams \ {s} : notices'[t] = notices[t]
<1>1. /\ es[s] = "open" /\ seen' \in [Streams -> Nat] /\ seen'[s] <= written[s]
      /\ \A t \in Streams \ {s} : seen'[t] = seen[t]
  BY ReceivedFacts DEF OnServerError
<1>2. "server_error" \in Notices
  BY DEF Notices
<1> QED
  BY <1>1, <1>2, FailureInv DEF OnServerError

LEMMA ConnectionErrorInv ==
    ASSUME ChatInv, NEW s \in Streams, OnConnectionError(s)
    PROVE  /\ ChatInv' /\ es[s] = "open"
           /\ answers'[s] = 0 /\ notices'[s] = {"went_wrong", "interrupted"}
           /\ \A t \in Streams \ {s} : notices'[t] = notices[t]
<1>1. /\ es[s] = "open" /\ seen' \in [Streams -> Nat] /\ seen'[s] <= written[s]
      /\ \A t \in Streams \ {s} : seen'[t] = seen[t]
  BY DEF OnConnectionError, ChatInv, ChatTypeOK
<1>2. "went_wrong" \in Notices
  BY DEF Notices
<1> QED
  BY <1>1, <1>2, FailureInv DEF OnConnectionError

LEMMA UnmountInv == ASSUME ChatInv, Unmount PROVE ChatInv'
<1>0. IInv /\ TypeOK /\ ChatTypeOK /\ LockedWhileOpen /\ \A t \in Streams : PanelInv(t)
  BY DEF ChatInv, IInv
<1>1. /\ conn' \in [Streams -> Conns]
      /\ \A t \in Streams : /\ conn'[t] = "none" <=> conn[t] = "none"
                            /\ conn[t] = "closed" => conn'[t] = "closed"
  BY <1>0 DEF Unmount, TypeOK, Conns
<1>2. IInv'
  BY <1>0, <1>1, CloseInv DEF Unmount
<1>3. \A t \in Streams :
        /\ es'[t] = "closed" <=> es[t] # "none"
        /\ es'[t] = "none" <=> es[t] = "none"
        /\ es'[t] # "open"
  BY <1>0 DEF Unmount, ChatTypeOK
<1>4. ChatTypeOK' /\ LockedWhileOpen'
  BY <1>0, <1>3 DEF Unmount, ChatTypeOK, LockedWhileOpen, ServerUnchanged
<1>5. \A t \in Streams : PanelInv(t)'
  BY <1>0, <1>1, <1>3 DEF Unmount, PanelInv, ServerUnchanged
<1> QED
  BY <1>2, <1>4, <1>5 DEF ChatInv

\* The log of a stream keeps what was put, and the counters of the generator
\* never go back; only a write that fails makes a generator "gone".
LEMMA ServerFacts ==
    ASSUME IInv, NEW s \in Streams,
           Agent(s) \/ Generator(s) \/ Open(s) \/ Refuse(s) \/ Disconnect(s)
    PROVE  \A t \in Streams :
             /\ written[t] <= written'[t]
             /\ \A i \in 1..written[t] : log'[t][i] = log[t][i]
             /\ genPc'[t] = "gone" => genPc[t] = "gone" \/ conn'[t] = "closed"
             /\ conn[t] = "closed" => conn'[t] = "closed"
<1>0. TypeOK
  BY DEF IInv
<1>1. \A t \in Streams : written[t] \in Nat /\ written[t] <= Len(log[t]) /\ Len(log[t]) \in Nat
  BY <1>0 DEF TypeOK
<1>2. CASE Open(s) \/ Refuse(s) \/ Disconnect(s)
  BY <1>0, <1>1, <1>2 DEF TypeOK, Open, Refuse, Disconnect
<1>3. CASE Generator(s)
  BY <1>0, <1>1, <1>3
     DEF TypeOK, Generator, GetItem, GetTimeout, PollComplete, Yield, YieldFails
<1>4. CASE Agent(s)
  <2>1. UNCHANGED <<genPc, conn, written>>
    BY <1>4 DEF Agent, AgentUnavailable, AgentCall, AgentProgress, AgentAnswer, AgentFail,
       AgentRaise, RepeatComplete, ReportRaise, SetComplete, PutSentinel, Put
  <2>2. log' = log \/ \E item \in Items : log' = [log EXCEPT ![s] = Append(@, item)]
    BY <1>4 DEF Agent, AgentUnavailable, AgentCall, AgentProgress, AgentAnswer, AgentFail,
       AgentRaise, RepeatComplete, ReportRaise, SetComplete, PutSentinel, Put, Items, Verdicts
  <2>3. ASSUME NEW item \in Items, log' = [log EXCEPT ![s] = Append(@, item)],
               NEW t \in Streams, NEW i \in 1..written[t]
        PROVE  log'[t][i] = log[t][i]
    BY <1>0, <1>1, <2>3, AppendFacts DEF TypeOK
  <2> QED
    BY <1>1, <2>1, <2>2, <2>3
<1> QED
  BY <1>2, <1>3, <1>4

LEMMA ServerInv ==
    ASSUME ChatInv, NEW s \in Streams, Server(s) \/ Accept(s) \/ Lose(s)
    PROVE  ChatInv'
<1>0. IInv /\ TypeOK /\ ChatTypeOK /\ LockedWhileOpen /\ \A t \in Streams : PanelInv(t)
  BY DEF ChatInv, IInv
<1>1. /\ Agent(s) \/ Generator(s) \/ Open(s) \/ Refuse(s) \/ Disconnect(s)
      /\ UNCHANGED chatVars
  BY DEF Server, Accept, Lose
<1>2. IInv'
  BY <1>0, <1>1, AgentInv, GeneratorInv, ConnectionInv
<1>3. \A t \in Streams :
        /\ written[t] <= written'[t]
        /\ \A i \in 1..written[t] : log'[t][i] = log[t][i]
        /\ genPc'[t] = "gone" => genPc[t] = "gone" \/ conn'[t] = "closed"
        /\ conn[t] = "closed" => conn'[t] = "closed"
  BY <1>0, <1>1, ServerFacts
<1>4. \A t \in Streams : written'[t] \in Nat /\ written[t] \in Nat /\ seen[t] \in Nat
  BY <1>0, <1>2 DEF IInv, TypeOK, ChatTypeOK
<1>5. ChatTypeOK' /\ LockedWhileOpen'
  BY <1>0, <1>1, <1>3, <1>4 DEF ChatTypeOK, LockedWhileOpen, chatVars
<1>6. \A t \in Streams : es[t] = "none" => conn'[t] = conn[t]
  <2>1. CASE Agent(s) \/ Generator(s)
    BY <2>1 DEF Agent, AgentUnavailable, AgentCall, AgentProgress, AgentAnswer, AgentFail,
       AgentRaise, RepeatComplete, ReportRaise, SetComplete, PutSentinel, Put,
       Generator, GetItem, GetTimeout, PollComplete, Yield, YieldFails
  <2>2. CASE Accept(s)
    BY <1>0, <2>2 DEF Accept, Open, Refuse, TypeOK
  <2>3. CASE Lose(s)
    BY <1>0, <2>3 DEF Lose, Disconnect, TypeOK, PanelInv
  <2> QED
    BY <2>1, <2>2, <2>3 DEF Server
<1>7. \A t \in Streams : \A i \in 1..seen[t] : log'[t][i] = log[t][i]
  BY <1>0, <1>3, <1>4 DEF ChatTypeOK
<1>8. \A t \in Streams : PanelInv(t)'
  BY <1>0, <1>1, <1>3, <1>6, <1>7 DEF PanelInv, chatVars
<1> QED
  BY <1>2, <1>5, <1>8 DEF ChatInv

LEMMA ChatNextInv == ChatInv /\ [ChatNext]_allVars => ChatInv'
<1> SUFFICES ASSUME ChatInv, [ChatNext]_allVars PROVE ChatInv'
  OBVIOUS
<1>1. ASSUME NEW s \in Streams,
             SendQuery(s) \/ Browser(s) \/ Accept(s) \/ Server(s) \/ Lose(s)
      PROVE  ChatInv'
  BY <1>1, SendInv, ProgressInv, CompleteInv, ServerErrorInv, ConnectionErrorInv, ServerInv
     DEF Browser
<1>2. CASE UNCHANGED allVars
  <2>1. UNCHANGED vars /\ UNCHANGED chatVars
    BY <1>2 DEF allVars
  <2>2. IInv'
    BY <2>1, NextInv DEF ChatInv
  <2> QED
    BY <2>1, <2>2 DEF ChatInv, ChatTypeOK, LockedWhileOpen, PanelInv, vars, chatVars
<1> QED
  BY <1>1, <1>2, UnmountInv DEF ChatNext, SessionOver

LEMMA ChatInvariance == ChatSpec => []ChatInv
  BY ChatInitInv, ChatNextInv, PTL DEF ChatSpec

----------------------------------------------------------------------------
\* The panel's variables keep their types, no event is dispatched before it was
\* yielded, and a page that was left has no open stream.
THEOREM ChatTypeCorrect == ChatSpec => []ChatTypeOK
<1>1. ChatInv => ChatTypeOK
  BY DEF ChatInv
<1> QED
  BY <1>1, ChatInvariance, PTL

\* What the stream owes to its client holds under the panel too, whenever it
\* closes the connection.
THEOREM VerdictKeptForPanel == ChatSpec => []VerdictIsKept
<1>1. IInv => VerdictIsKept
  <2> SUFFICES ASSUME IInv PROVE VerdictIsKept
    OBVIOUS
  <2>1. VerdictIsFinal
    BY DEF IInv, StreamInv, FinalInv, VerdictIsFinal
  <2>2. CompleteAfterVerdict
    BY DEF IInv, StreamInv, LogInv, Before, CompleteAfterVerdict
  <2>3. DrainedStreamIsWhole
    <3> SUFFICES ASSUME NEW s \in Streams, genPc[s] = "drained"
                 PROVE  written[s] = Len(log[s]) - 1 /\ HasVerdict(s)
      BY DEF DrainedStreamIsWhole
    <3> QED
      BY DrainedFacts
  <2> QED
    BY <2>1, <2>2, <2>3 DEF VerdictIsKept
<1>2. ChatInv => VerdictIsKept
  BY <1>1 DEF ChatInv
<1> QED
  BY <1>2, ChatInvariance, PTL

\* One question never gets two answers, nor an answer and a failure notice.
THEOREM AnswerOnce == ChatSpec => []OneAnswer
<1>1. ChatInv => OneAnswer
  BY DEF ChatInv, PanelInv, OneAnswer
<1> QED
  BY <1>1, ChatInvariance, PTL

\* The form is locked exactly while the one open stream lasts.
THEOREM LockHeld == ChatSpec => []LockedWhileOpen
<1>1. ChatInv => LockedWhileOpen
  BY DEF ChatInv
<1> QED
  BY <1>1, ChatInvariance, PTL

\* Only a refused request, a lost connection and the poll are reported as a
\* connection error: of a drained stream the verdict, still unseen, lies
\* between what was seen and the end.
THEOREM DrainedNeverWrong == ChatSpec => DrainedIsNoConnectionError
<1>1. ASSUME ChatInv, [ChatNext]_allVars, NEW s \in Streams,
             ("went_wrong" \in notices[s])', "went_wrong" \notin notices[s]
      PROVE  conn[s] \in {"refused", "closed"} \/ genPc[s] = "polled"
  <2>1. ASSUME NEW t \in Streams, OnConnectionError(t)
        PROVE  conn[s] \in {"refused", "closed"} \/ genPc[s] = "polled"
    <3>1. t = s
      BY <1>1, <2>1, ConnectionErrorInv
    <3>2. /\ es[s] = "open" /\ PanelInv(s) /\ IInv
          /\ \/ conn[s] \in {"refused", "closed"}
             \/ genPc[s] \in Ended /\ seen[s] = written[s]
      BY <1>1, <2>1, <3>1 DEF OnConnectionError, ChatInv
    <3>3. CASE genPc[s] = "drained" /\ seen[s] = written[s]
      <4>1. written[s] = Len(log[s]) - 1 /\ HasVerdict(s) /\ log[s][Len(log[s])] = "none"
            /\ Len(log[s]) \in Nat
        BY <3>2, <3>3, DrainedFacts
      <4>2. PICK i \in 1..Len(log[s]) : log[s][i] \in Verdicts
        BY <4>1 DEF HasVerdict
      <4>3. i \in 1..seen[s]
        BY <3>3, <4>1, <4>2 DEF Verdicts
      <4> QED
        BY <3>2, <4>2, <4>3 DEF PanelInv, Verdicts
    <3> QED
      BY <3>2, <3>3 DEF PanelInv, Ended
  <2>2. ASSUME NEW t \in Streams, OnServerError(t) PROVE FALSE
    BY <1>1, <2>2, ServerErrorInv
  <2>3. ASSUME NEW t \in Streams,
               \/ SendQuery(t) \/ OnProgress(t) \/ OnComplete(t)
               \/ Accept(t) \/ Server(t) \/ Lose(t)
        PROVE  FALSE
    BY <1>1, <2>3 DEF SendQuery, OnProgress, OnComplete, Accept, Server, Lose, chatVars
  <2>4. ~ (Unmount \/ UNCHANGED allVars)
    BY <1>1 DEF Unmount, allVars, chatVars
  <2> QED
    BY <1>1, <2>1, <2>2, <2>3, <2>4 DEF ChatNext, Browser, SessionOver
<1>2. ChatInv /\ [ChatNext]_allVars =>
        [\A s \in Streams :
            ("went_wrong" \in notices[s])' /\ "went_wrong" \notin notices[s] =>
                conn[s] \in {"refused", "closed"} \/ genPc[s] = "polled"]_allVars
  BY <1>1
<1> QED
  BY <1>2, ChatInvariance, PTL DEF ChatSpec, DrainedIsNoConnectionError

----------------------------------------------------------------------------
\* The panel implements QuestionOutcome.

\* What the outcome of a question is, by its EventSource.
LEMMA OutcomeFacts ==
    ASSUME ChatInv, NEW s \in Streams
    PROVE  /\ es[s] = "none" <=> OutcomeOf(s) = "unasked"
           /\ es[s] = "open" <=> OutcomeOf(s) = "pending"
           /\ es[s] = "closed" => OutcomeOf(s) \in {"answered", "failed", "abandoned"}
  BY DEF OutcomeOf, ChatInv, ChatTypeOK

LEMMA OutcomeFactsAfter ==
    ASSUME ChatInv', NEW s \in Streams
    PROVE  /\ es'[s] = "open" => OutcomeOf(s)' = "pending"
           /\ es'[s] = "closed" => OutcomeOf(s)' \in {"answered", "failed", "abandoned"}
  BY DEF OutcomeOf, ChatInv, ChatTypeOK

\* A question none of whose variables changes keeps its outcome.
LEMMA OutcomeFrame ==
    ASSUME NEW s \in Streams,
           es'[s] = es[s], answers'[s] = answers[s], notices'[s] = notices[s]
    PROVE  OutcomeOf(s)' = OutcomeOf(s)
  BY DEF OutcomeOf

\* The end of an open stream is one Resolve step.
LEMMA ResolveStep ==
    ASSUME ChatInv, ChatInv', NEW s \in Streams, es[s] = "open", es'[s] = "closed",
           \A t \in Streams \ {s} : OutcomeOf(t)' = OutcomeOf(t)
    PROVE  Outcome!Resolve(s)
<1>1. OutcomeOf(s) = "pending" /\ OutcomeOf(s)' \in {"answered", "failed", "abandoned"}
  BY OutcomeFacts, OutcomeFactsAfter
<1>2. [q \in Streams |-> OutcomeOf(q)]' = [[q \in Streams |-> OutcomeOf(q)] EXCEPT ![s] = OutcomeOf(s)']
  OBVIOUS
<1> QED
  BY <1>1, <1>2 DEF Outcome!Resolve

\* Every step of the panel is a step of QuestionOutcome or leaves it alone.
THEOREM ImplementsOutcomeSafety == ChatSpec => Outcome!Safety
<1>1. ChatInit => Outcome!Init
  BY DEF ChatInit, Outcome!Init, OutcomeOf
<1>2. ChatInv /\ ChatInv' /\ [ChatNext]_allVars =>
        [Outcome!Next]_[s \in Streams |-> OutcomeOf(s)]
  <2> DEFINE outcome == [s \in Streams |-> OutcomeOf(s)]
  <2> SUFFICES ASSUME ChatInv, ChatInv', [ChatNext]_allVars
               PROVE  [Outcome!Next]_outcome
    OBVIOUS
  <2>0. /\ es \in [Streams -> {"none", "open", "closed"}]
        /\ answers \in [Streams -> Nat] /\ notices \in [Streams -> SUBSET Notices]
    BY DEF ChatInv, ChatTypeOK
  <2>1. ASSUME NEW s \in Streams, SendQuery(s) PROVE Outcome!Ask(s)
    <3>1. \A t \in Streams : es[t] # "open"
      BY <2>1 DEF SendQuery, ChatInv, LockedWhileOpen
    <3>2. es[s] = "none" /\ es'[s] = "open" /\ \A t \in Streams \ {s} : es'[t] = es[t]
      BY <2>0, <2>1, <3>1 DEF SendQuery
    <3>3. \A t \in Streams \ {s} : OutcomeOf(t)' = OutcomeOf(t)
      BY <2>1, <3>2, OutcomeFrame DEF SendQuery
    <3>4. OutcomeOf(s) = "unasked" /\ OutcomeOf(s)' = "pending"
      BY <3>2, OutcomeFacts, OutcomeFactsAfter
    <3>5. \A t \in Streams : OutcomeOf(t) # "pending"
      BY <3>1, OutcomeFacts
    <3> QED
      BY <3>3, <3>4, <3>5 DEF Outcome!Ask
  <2>2. ASSUME NEW s \in Streams, OnComplete(s) \/ OnServerError(s) \/ OnConnectionError(s)
        PROVE  Outcome!Resolve(s)
    <3>1. /\ es[s] = "open" /\ es'[s] = "closed"
          /\ \A t \in Streams \ {s} :
                es'[t] = es[t] /\ answers'[t] = answers[t] /\ notices'[t] = notices[t]
      BY <2>0, <2>2 DEF OnComplete, OnServerError, OnConnectionError, Received, Failure
    <3> QED
      BY <3>1, ResolveStep, OutcomeFrame
  <2>3. CASE Unmount
    <3>1. /\ \A t \in Streams : es'[t] = IF es[t] = "open" THEN "closed" ELSE es[t]
          /\ UNCHANGED <<answers, notices>>
      BY <2>0, <2>3 DEF Unmount
    <3>2. CASE \A t \in Streams : es[t] # "open"
      BY <3>1, <3>2, OutcomeFrame
    <3>3. ASSUME NEW s \in Streams, es[s] = "open" PROVE Outcome!Resolve(s)
      <4>1. \A t \in Streams \ {s} : es[t] # "open"
        BY <3>3 DEF ChatInv, LockedWhileOpen
      <4>2. es'[s] = "closed" /\ \A t \in Streams \ {s} : OutcomeOf(t)' = OutcomeOf(t)
        BY <3>1, <3>3, <4>1, OutcomeFrame
      <4> QED
        BY <3>3, <4>2, ResolveStep
    <3> QED
      BY <3>2, <3>3 DEF Outcome!Next
  <2>4. ASSUME UNCHANGED <<es, answers, notices>> PROVE UNCHANGED outcome
    BY <2>4 DEF OutcomeOf
  <2>5. ASSUME NEW s \in Streams, OnProgress(s) \/ Accept(s) \/ Server(s) \/ Lose(s)
        PROVE  UNCHANGED <<es, answers, notices>>
    BY <2>5 DEF OnProgress, Accept, Server, Lose, chatVars
  <2>6. CASE UNCHANGED allVars
    BY <2>4, <2>6 DEF allVars, chatVars
  <2> QED
    BY <2>1, <2>2, <2>3, <2>4, <2>5, <2>6 DEF ChatNext, Browser, SessionOver, Outcome!Next
<1> QED
  BY <1>1, <1>2, ChatInvariance, PTL DEF ChatSpec, Outcome!Safety

----------------------------------------------------------------------------
\* The tabs. What a panel shows is explained by the requests under way: an answer
\* that came alone is no older than anything shown before, and of the lists the
\* one sent last decides what will be on show when all have ended.

----------------------------------------------------------------------------
\* The panel of the analytics.

PanelTypeOK ==
    /\ panel \in [mounted : BOOLEAN, data : Batch \union {NoData}, loading : BOOLEAN,
                  refreshing : BOOLEAN, error : BOOLEAN, hasLoaded : BOOLEAN]
    /\ gets \in Seq(Gets)
    /\ newest \in Nat

\* An answer is no newer than the table; one that came alone is no older than
\* anything the panel has shown.
GetInv(g) ==
    /\ g.answer.snapshot <= batch.snapshot
    /\ g.pc \in {"row", "answered"} =>
        /\ g.answer.snapshot > 0
        /\ ~g.overlapped => newest <= g.answer.snapshot

AnalyticsInv ==
    /\ AnalyticsTypeOK
    /\ PanelTypeOK
    /\ newest <= batch.snapshot
    /\ ~panel.mounted => newest = 0
    /\ panel.loading \/ panel.refreshing => gets # <<>>
    /\ \A i \in DOMAIN gets : GetInv(gets[i])

\* The table of records.
Grids == [mounted : BOOLEAN, total : 0..MaxRecords, page : AllPages,
          shown : AllPages \union {NoPage}, loading : BOOLEAN, saving : BOOLEAN,
          dialog : {"none", "add", "edit", "delete"}, missed : BOOLEAN, late : BOOLEAN]

GridTypeOK ==
    /\ grid \in Grids
    /\ ~grid.mounted => grid = Unmounted
    /\ lists \in Seq(Lists)

\* An edit or a delete is committed, and the load that follows it not sent yet.
Owed == write # NoWrite /\ write.pc = "done" /\ write.kind \in {"edit", "delete"}

Newest == lists[Len(lists)]

\* What was sent last decides what will be on show.
LastSentRight ==
    IF lists = <<>>
    THEN grid.shown = NoPage \/ grid.late \/ (grid.shown = grid.page /\ (Owed \/ ~grid.missed))
    ELSE Newest.late \/ (Newest.page = grid.page /\ (Owed \/ ~Newest.missed))

RecordsInv ==
    /\ RecordsTypeOK
    /\ GridTypeOK
    /\ grid.loading => lists # <<>>
    /\ grid.saving <=> write # NoWrite
    /\ LastSentRight

ShellInv == ShellTypeOK /\ AnalyticsInv /\ RecordsInv

----------------------------------------------------------------------------
\* RemoveAt of SequencesExt, element by element.
LEMMA RemoveAtFacts ==
    ASSUME NEW S, NEW q \in Seq(S), NEW i \in 1..Len(q)
    PROVE  /\ RemoveAt(q, i) \in Seq(S)
           /\ Len(RemoveAt(q, i)) = Len(q) - 1
           /\ \A k \in 1..(Len(q) - 1) :
                RemoveAt(q, i)[k] = IF k < i THEN q[k] ELSE q[k + 1]
  <1> DEFINE left == SubSeq(q, 1, i - 1)
             right == SubSeq(q, i + 1, Len(q))
  <1>1. left \in Seq(S) /\ Len(left) = i - 1 /\ \A k \in 1..(i - 1) : left[k] = q[k]
    OBVIOUS
  <1>2. right \in Seq(S) /\ Len(right) = Len(q) - i /\ \A k \in 1..(Len(q) - i) : right[k] = q[k + i]
    OBVIOUS
  <1>3. RemoveAt(q, i) = left \o right
    BY DEF RemoveAt
  <1> HIDE DEF left, right
  <1>4. /\ left \o right \in Seq(S)
        /\ Len(left \o right) = Len(left) + Len(right)
        /\ \A k \in 1..(Len(left) + Len(right)) :
             (left \o right)[k] = IF k <= Len(left) THEN left[k] ELSE right[k - Len(left)]
    BY <1>1, <1>2, ConcatProperties
  <1>5. i \in Nat /\ Len(q) \in Nat /\ i >= 1 /\ i <= Len(q) /\ Len(left) + Len(right) = Len(q) - 1
    BY <1>1, <1>2
  <1>6. ASSUME NEW k \in 1..(Len(q) - 1)
        PROVE  (left \o right)[k] = IF k < i THEN q[k] ELSE q[k + 1]
    <2>1. CASE k < i
      BY <1>1, <1>4, <1>5, <2>1
    <2>2. CASE ~(k < i)
      <3>1. k - Len(left) \in 1..(Len(q) - i) /\ (k - Len(left)) + i = k + 1 /\ ~(k <= Len(left))
        BY <1>1, <1>5, <2>2
      <3>2. (left \o right)[k] = right[k - Len(left)]
        BY <1>4, <1>5, <3>1
      <3>3. right[k - Len(left)] = q[(k - Len(left)) + i]
        BY <1>2, <3>1
      <3> QED BY <2>2, <3>1, <3>2, <3>3
    <2> QED BY <2>1, <2>2
  <1> QED BY <1>3, <1>4, <1>5, <1>6

\* A sequence changed element by element is one of the same length.
LEMMA MappedFacts ==
    ASSUME NEW S, NEW T, NEW q \in Seq(S), NEW r, DOMAIN r = DOMAIN q,
           r = [k \in DOMAIN q |-> r[k]], \A k \in DOMAIN q : r[k] \in T
    PROVE  r \in Seq(T) /\ Len(r) = Len(q)
  <1>1. DOMAIN q = 1..Len(q) /\ Len(q) \in Nat
    OBVIOUS
  <1>2. r \in [1..Len(q) -> T]
    BY <1>1
  <1> QED BY <1>1, <1>2

\* A page is never beyond the last of one record more than the table may have.
LEMMA PageFacts ==
    ASSUME NEW n \in 0..MaxRecords
    PROVE  LastPage(n) \in AllPages /\ LastPage(n + 1) \in AllPages
  <1>1. \A k \in Nat : k \div PageSize \in 0..k
    <2> SUFFICES ASSUME NEW k \in Nat PROVE k \div PageSize \in 0..k
      OBVIOUS
    <2> QED BY RecordsAssumption
  <1> QED BY <1>1, RecordsAssumption DEF LastPage, AllPages

----------------------------------------------------------------------------
LEMMA ShellInitInv == ShellInit => ShellInv
  <1> USE AnalyticsAssumption, RecordsAssumption
  <1> SUFFICES ASSUME ShellInit PROVE ShellInv
    OBVIOUS
  <1>1. AnalyticsInv
    BY DEF ShellInit, AnalyticsClosed, AnalyticsInv, AnalyticsTypeOK, PanelTypeOK, Closed, NoBatch, Batch
  <1>2. RecordsInv
    BY DEF ShellInit, RecordsClosed, RecordsInv, RecordsTypeOK, GridTypeOK, Grids, Unmounted, AllPages, LastSentRight
  <1>3. ShellTypeOK
    BY <1>1, <1>2 DEF ShellInit, ShellTypeOK, AnalyticsInv, RecordsInv, AnalyticsClosed, RecordsClosed, Closed, Unmounted
  <1> QED BY <1>1, <1>2, <1>3 DEF ShellInv

----------------------------------------------------------------------------
\* The requests of the analytics panel, after one has been answered or changed.

LEMMA RestFacts ==
    ASSUME AnalyticsInv, NEW i \in DOMAIN gets
    PROVE  /\ Rest(i) \in Seq(Gets)
           /\ Len(Rest(i)) = Len(gets) - 1
           /\ \A k \in DOMAIN Rest(i) : /\ Rest(i)[k].overlapped
                                        /\ Rest(i)[k].answer.snapshot <= batch.snapshot
                                        /\ Rest(i)[k].pc \in {"row", "answered"} =>
                                             Rest(i)[k].answer.snapshot > 0
  <1> DEFINE r == RemoveAt(gets, i)
  <1>1. gets \in Seq(Gets) /\ DOMAIN gets = 1..Len(gets) /\ i \in 1..Len(gets)
    BY DEF AnalyticsInv, PanelTypeOK
  <1>2. /\ r \in Seq(Gets) /\ Len(r) = Len(gets) - 1
        /\ \A k \in 1..(Len(gets) - 1) : r[k] = IF k < i THEN gets[k] ELSE gets[k + 1]
    BY <1>1, RemoveAtFacts
  <1>3. Rest(i) = [k \in DOMAIN r |-> [r[k] EXCEPT !.overlapped = TRUE]]
    BY DEF Rest
  <1> HIDE DEF r
  <1>4. DOMAIN r = 1..(Len(gets) - 1) /\ Len(gets) \in Nat
    BY <1>1, <1>2
  <1>5. ASSUME NEW k \in DOMAIN r
        PROVE  /\ r[k] \in Gets /\ r[k].answer.snapshot <= batch.snapshot
               /\ r[k].pc \in {"row", "answered"} => r[k].answer.snapshot > 0
    <2>1. PICK j \in DOMAIN gets : r[k] = gets[j]
      <3>1. k \in 1..(Len(gets) - 1) /\ k \in DOMAIN gets /\ k + 1 \in DOMAIN gets
        BY <1>1, <1>4
      <3> QED BY <1>2, <3>1
    <2> QED BY <2>1 DEF AnalyticsInv, AnalyticsTypeOK, GetInv
  <1>6. DOMAIN Rest(i) = DOMAIN r /\ \A k \in DOMAIN r : Rest(i)[k] = [r[k] EXCEPT !.overlapped = TRUE]
    BY <1>3
  <1>7. \A k \in DOMAIN r : Rest(i)[k] \in Gets
    BY <1>5, <1>6 DEF Gets
  <1>8. Rest(i) \in Seq(Gets) /\ Len(Rest(i)) = Len(r)
    BY <1>2, <1>3, <1>6, <1>7, MappedFacts
  <1> QED BY <1>2, <1>5, <1>6, <1>8 DEF Gets

\* One request changed, the panel left alone.
LEMMA ServeInv ==
    ASSUME AnalyticsInv, NEW i \in DOMAIN gets,
           NEW g \in Gets, gets' = [gets EXCEPT ![i] = g],
           GetInv(g), UNCHANGED <<batch, panel, newest>>
    PROVE  AnalyticsInv'
  <1>1. gets \in Seq(Gets) /\ DOMAIN gets = 1..Len(gets)
    BY DEF AnalyticsInv, PanelTypeOK
  <1>2. gets' \in Seq(Gets) /\ Len(gets') = Len(gets) /\ DOMAIN gets' = DOMAIN gets
    BY <1>1, ExceptSeq
  <1>3. \A k \in DOMAIN gets' : gets'[k] = IF k = i THEN g ELSE gets[k]
    BY <1>1
  <1>4. \A k \in DOMAIN gets' : GetInv(gets[k]) /\ gets[k] \in Gets
    BY <1>2 DEF AnalyticsInv, AnalyticsTypeOK
  <1>5. AnalyticsTypeOK' /\ PanelTypeOK'
    <2>1. panel.mounted
      BY <1>1 DEF AnalyticsInv, AnalyticsTypeOK
    <2> QED BY <1>2, <1>3, <1>4, <2>1 DEF AnalyticsInv, AnalyticsTypeOK, PanelTypeOK
  <1>6. (\A k \in DOMAIN gets : GetInv(gets[k]))'
    BY <1>3, <1>4 DEF GetInv
  <1>7. gets # <<>> => gets' # <<>>
    BY <1>1, <1>2
  <1> QED BY <1>5, <1>6, <1>7 DEF AnalyticsInv

\* What a panel that is opened asks for, or an open one asks for again.
LEMMA FetchInv ==
    ASSUME AnalyticsInv, panel.mounted, FetchAnalytics
    PROVE  AnalyticsInv'
  <1> USE AnalyticsAssumption
  <1>1. Sent \in Gets /\ GetInv(Sent) /\ batch.snapshot \in Nat /\ Sent.pc = "sent" /\ Sent.answer.snapshot = 0
    BY DEF AnalyticsInv, AnalyticsTypeOK, Sent, Gets, NoBatch, Batch, GetInv
  <1>2. gets \in Seq(Gets) /\ DOMAIN gets = 1..Len(gets) /\ Len(gets) < MaxGets
    BY DEF AnalyticsInv, PanelTypeOK, FetchAnalytics
  <1>3. /\ gets' \in Seq(Gets) /\ Len(gets') = Len(gets) + 1 /\ DOMAIN gets' = 1..(Len(gets) + 1)
        /\ \A k \in DOMAIN gets' : gets'[k] = IF k \in DOMAIN gets THEN gets[k] ELSE Sent
    BY <1>1, <1>2 DEF FetchAnalytics
  <1>4. /\ UNCHANGED <<batch, newest>>
        /\ \E l, r \in BOOLEAN :
                panel' = [panel EXCEPT !.loading = l, !.refreshing = r, !.error = FALSE]
    BY DEF FetchAnalytics, AnalyticsInv, PanelTypeOK
  <1>5. AnalyticsTypeOK' /\ PanelTypeOK'
    <2>1. PICK l \in BOOLEAN, r \in BOOLEAN :
                panel' = [panel EXCEPT !.loading = l, !.refreshing = r, !.error = FALSE]
      BY <1>4
    <2>2. /\ panel' \in [mounted : BOOLEAN, data : Batch \union {NoData}, loading : BOOLEAN,
                  refreshing : BOOLEAN, error : BOOLEAN, hasLoaded : BOOLEAN]
          /\ panel'.mounted /\ panel'.data = panel.data /\ ~panel'.error
          /\ panel'.hasLoaded = panel.hasLoaded
      BY <2>1 DEF AnalyticsInv, PanelTypeOK
    <2>3. \A k \in DOMAIN gets' : gets'[k] \in Gets
      BY <1>3
    <2> QED BY <1>2, <1>3, <1>4, <2>2, <2>3 DEF AnalyticsInv, AnalyticsTypeOK, PanelTypeOK
  <1>6. (\A k \in DOMAIN gets : GetInv(gets[k]))'
    BY <1>1, <1>3, <1>4 DEF AnalyticsInv, GetInv
  <1>7. gets' # <<>>
    BY <1>2, <1>3
  <1> QED BY <1>4, <1>5, <1>6, <1>7 DEF AnalyticsInv, PanelTypeOK

LEMMA AnalyticsOpens ==
    ASSUME AnalyticsInv, ~panel.mounted, OpenAnalytics
    PROVE  AnalyticsInv' /\ panel'.mounted
  <1> USE AnalyticsAssumption
  <1>1. Sent \in Gets /\ Sent.answer.snapshot = 0 /\ Sent.pc = "sent"
    BY DEF Sent, Gets, NoBatch, Batch
  <1>2. gets' = <<Sent>> /\ newest' = 0 /\ batch' \in Batch
        /\ panel' = [Closed EXCEPT !.mounted = TRUE, !.loading = TRUE]
    BY DEF OpenAnalytics, AnalyticsInv
  <1>3. gets' \in Seq(Gets) /\ DOMAIN gets' = {1} /\ gets'[1] = Sent /\ Len(gets') = 1
    BY <1>1, <1>2
  <1>4. panel' \in [mounted : BOOLEAN, data : {NoData}, loading : BOOLEAN,
                    refreshing : BOOLEAN, error : BOOLEAN, hasLoaded : BOOLEAN]
    BY <1>2 DEF Closed
  <1>5. panel'.mounted /\ panel'.data = NoData
    BY <1>2 DEF Closed
  <1>6. AnalyticsTypeOK' /\ PanelTypeOK'
    BY <1>1, <1>2, <1>3, <1>4, <1>5 DEF AnalyticsTypeOK, PanelTypeOK
  <1>7. (\A i \in DOMAIN gets : GetInv(gets[i]))'
    BY <1>1, <1>2, <1>3 DEF GetInv, Batch
  <1> QED BY <1>2, <1>3, <1>5, <1>6, <1>7 DEF AnalyticsInv, Batch

LEMMA AnalyticsCloses ==
    ASSUME CloseAnalytics
    PROVE  AnalyticsInv' /\ ~panel'.mounted
  BY AnalyticsAssumption DEF CloseAnalytics, AnalyticsInv, AnalyticsTypeOK, PanelTypeOK, Closed, NoBatch, Batch

LEMMA AnalyticsStepInv ==
    ASSUME AnalyticsInv, AnalyticsStep
    PROVE  AnalyticsInv' /\ panel'.mounted = panel.mounted
  <1> USE AnalyticsAssumption
  <1>0. gets \in Seq(Gets) /\ DOMAIN gets = 1..Len(gets)
    BY DEF AnalyticsInv, PanelTypeOK
  <1>1. CASE SnapshotAdded \/ AttemptRecorded
    <2>1. batch' \in Batch /\ batch'.snapshot >= batch.snapshot /\ batch'.snapshot \in Nat
      BY <1>1 DEF SnapshotAdded, AttemptRecorded, AnalyticsInv, AnalyticsTypeOK, Batch
    <2>2. UNCHANGED <<panel, gets, newest>>
      BY <1>1 DEF SnapshotAdded, AttemptRecorded
    <2>3. \A k \in DOMAIN gets : gets[k] \in Gets /\ GetInv(gets[k])
      BY DEF AnalyticsInv, AnalyticsTypeOK
    <2>4. (\A k \in DOMAIN gets : GetInv(gets[k]))'
      BY <2>1, <2>2, <2>3 DEF GetInv, Gets, Batch, AnalyticsInv, AnalyticsTypeOK
    <2>5. AnalyticsTypeOK' /\ PanelTypeOK'
      BY <2>1, <2>2 DEF AnalyticsInv, AnalyticsTypeOK, PanelTypeOK
    <2> QED BY <2>1, <2>2, <2>4, <2>5 DEF AnalyticsInv, PanelTypeOK, Batch, AnalyticsTypeOK
  <1>2. ASSUME NEW i \in DOMAIN gets, ReadSnapshot(i) \/ ReadStatus(i) \/ StatusUnread(i) \/ GetFails(i)
        PROVE  AnalyticsInv' /\ panel' = panel
    <2>1. gets[i] \in Gets /\ GetInv(gets[i]) /\ batch \in Batch /\ newest <= batch.snapshot
      BY DEF AnalyticsInv, AnalyticsTypeOK
    <2>2. UNCHANGED <<batch, panel, newest>>
      BY <1>2 DEF ReadSnapshot, ReadStatus, StatusUnread, GetFails
    <2>3. PICK g \in Gets : gets' = [gets EXCEPT ![i] = g] /\ GetInv(g)
      <3>1. CASE ReadSnapshot(i)
        <4> DEFINE g == [gets[i] EXCEPT !.answer.snapshot = batch.snapshot,
                        !.pc = IF batch.snapshot = 0 THEN "failed" ELSE "row"]
        <4>1. g \in Gets /\ GetInv(g)
          BY <2>1, <3>1 DEF ReadSnapshot, GetInv, Gets, Batch
        <4>2. gets' = [gets EXCEPT ![i] = g]
          BY <3>1 DEF ReadSnapshot
        <4> QED BY <4>1, <4>2
      <3>2. CASE ReadStatus(i)
        <4> DEFINE g == [gets[i] EXCEPT !.answer.status = batch.status, !.pc = "answered"]
        <4>1. g \in Gets /\ GetInv(g)
          BY <2>1, <3>2 DEF ReadStatus, GetInv, Gets, Batch
        <4>2. gets' = [gets EXCEPT ![i] = g]
          BY <3>2 DEF ReadStatus
        <4> QED BY <4>1, <4>2
      <3>3. CASE StatusUnread(i)
        <4> DEFINE g == [gets[i] EXCEPT !.pc = "answered"]
        <4>1. g \in Gets /\ GetInv(g)
          BY <2>1, <3>3 DEF StatusUnread, GetInv, Gets, Batch
        <4>2. gets' = [gets EXCEPT ![i] = g]
          BY <3>3 DEF StatusUnread
        <4> QED BY <4>1, <4>2
      <3>4. CASE GetFails(i)
        <4> DEFINE g == [gets[i] EXCEPT !.pc = "failed"]
        <4>1. g \in Gets /\ GetInv(g)
          BY <2>1, <3>4 DEF GetFails, GetInv, Gets, Batch
        <4>2. gets' = [gets EXCEPT ![i] = g]
          BY <3>4 DEF GetFails
        <4> QED BY <4>1, <4>2
      <3> QED BY <1>2, <3>1, <3>2, <3>3, <3>4
    <2> QED BY <2>2, <2>3, ServeInv
  <1>3. CASE Poll \/ Reload
    <2>1. panel.mounted /\ FetchAnalytics
      BY <1>3 DEF Poll, Reload
    <2>2. panel'.mounted = panel.mounted
      BY <2>1 DEF FetchAnalytics, AnalyticsInv, PanelTypeOK
    <2> QED BY <2>1, <2>2, FetchInv
  <1>4. ASSUME NEW i \in DOMAIN gets, ShowData(i) \/ ShowError(i)
        PROVE  AnalyticsInv' /\ panel'.mounted = panel.mounted
    <2>1. gets[i] \in Gets /\ GetInv(gets[i]) /\ batch \in Batch /\ panel.mounted
      BY <1>0 DEF AnalyticsInv, AnalyticsTypeOK
    <2>2. /\ gets' \in Seq(Gets) /\ Len(gets') = Len(gets) - 1
          /\ \A k \in DOMAIN gets' : /\ gets'[k].overlapped
                                     /\ gets'[k].answer.snapshot <= batch.snapshot
                                     /\ gets'[k].pc \in {"row", "answered"} => gets'[k].answer.snapshot > 0
      BY <1>4, RestFacts DEF ShowData, ShowError
    <2>3. batch' = batch /\ newest' \in Nat /\ newest' <= batch.snapshot
      BY <1>4, <2>1 DEF ShowData, ShowError, AnalyticsInv, PanelTypeOK, Gets, Batch, GetInv
    <2>4. /\ panel' \in [mounted : BOOLEAN, data : Batch \union {NoData}, loading : BOOLEAN,
                  refreshing : BOOLEAN, error : BOOLEAN, hasLoaded : BOOLEAN]
          /\ panel'.mounted /\ ~panel'.loading /\ ~panel'.refreshing
          /\ panel'.data # NoData => panel'.hasLoaded /\ ~panel'.error /\ panel'.data.snapshot > 0
      BY ZenonT(60), <1>4, <2>1 DEF ShowData, ShowError, AnalyticsInv, PanelTypeOK, Gets, GetInv
    <2>5. AnalyticsTypeOK' /\ PanelTypeOK'
      BY <1>0, <2>1, <2>2, <2>3, <2>4 DEF AnalyticsInv, AnalyticsTypeOK, PanelTypeOK
    <2>6. (\A k \in DOMAIN gets : GetInv(gets[k]))'
      BY <2>2, <2>3 DEF GetInv
    <2> QED BY <2>1, <2>3, <2>4, <2>5, <2>6 DEF AnalyticsInv
  <1> QED BY <1>1, <1>2, <1>3, <1>4 DEF AnalyticsStep, Serve, Arrive

----------------------------------------------------------------------------
\* What was asked for last is for the page the grid is on, or late, and nothing
\* was committed since.
LEMMA FetchDataFacts ==
    ASSUME GridTypeOK, NEW g \in Grids, NEW page \in AllPages, FetchData(g, page)
    PROVE  /\ lists' \in Seq(Lists) /\ lists' # <<>>
           /\ grid' \in Grids /\ grid'.mounted = g.mounted /\ grid'.dialog = g.dialog
           /\ grid'.saving = g.saving
           /\ LastSentRight'
  <1> DEFINE sent == [pc |-> "sent", page |-> page, total |-> 0,
                      missed |-> FALSE, late |-> page # g.page]
  <1>1. PICK b \in BOOLEAN : b = (page # g.page)
    OBVIOUS
  <1>2. sent \in Lists /\ sent.page = page /\ ~sent.missed /\ (sent.late \/ page = g.page)
    <2>1. sent = [pc |-> "sent", page |-> page, total |-> 0, missed |-> FALSE, late |-> b]
      BY <1>1
    <2>2. 0 \in AllPages
      BY RecordsAssumption DEF AllPages
    <2>3. sent \in Lists
      BY <2>1, <2>2 DEF Lists, AllPages
    <2> QED BY <1>1, <2>1, <2>3
  <1>3. lists \in Seq(Lists) /\ Len(lists) \in Nat /\ lists' = Append(lists, sent)
    BY DEF GridTypeOK, FetchData
  <1> HIDE DEF sent
  <1>4. /\ lists' \in Seq(Lists) /\ Len(lists') = Len(lists) + 1
        /\ lists'[Len(lists')] = sent /\ lists' # <<>>
    BY <1>2, <1>3
  <1>5. /\ grid' \in Grids /\ grid'.mounted = g.mounted /\ grid'.dialog = g.dialog
        /\ grid'.saving = g.saving /\ grid'.page = g.page
    BY DEF FetchData, Grids
  <1> QED BY <1>2, <1>4, <1>5 DEF LastSentRight, Newest

\* The same, or nothing is asked for and only the rest of the render changes.
LEMMA SetPageFacts ==
    ASSUME GridTypeOK, LastSentRight, NEW g \in Grids, NEW page \in AllPages,
           SetPaginationModel(g, page),
           g.page = grid.page, g.shown = grid.shown, g.missed = grid.missed, g.late = grid.late,
           Owed' = Owed
    PROVE  /\ lists' \in Seq(Lists) /\ (lists' = lists \/ lists' # <<>>)
           /\ grid' \in Grids /\ grid'.mounted = g.mounted /\ grid'.dialog = g.dialog
           /\ grid'.saving = g.saving /\ (lists' = lists => grid'.loading = g.loading \/ lists' # <<>>)
           /\ LastSentRight'
  <1>1. CASE page = g.page
    <2>1. grid' = g /\ lists' = lists
      BY <1>1 DEF SetPaginationModel
    <2> QED BY <2>1 DEF GridTypeOK, LastSentRight, Newest
  <1>2. CASE page # g.page
    <2> DEFINE h == [g EXCEPT !.page = page]
    <2>1. h \in Grids /\ h.mounted = g.mounted /\ h.dialog = g.dialog /\ h.saving = g.saving
      BY DEF Grids
    <2>2. FetchData(h, page)
      BY <1>2 DEF SetPaginationModel
    <2> HIDE DEF h
    <2> QED BY <2>1, <2>2, FetchDataFacts
  <1> QED BY <1>1, <1>2

\* An answer that is taken: what was sent before it is late.
LEMMA OthersFacts ==
    ASSUME GridTypeOK, NEW i \in DOMAIN lists
    PROVE  /\ Others(i) \in Seq(Lists)
           /\ Len(Others(i)) = Len(lists) - 1
           /\ i = Len(lists) /\ Others(i) # <<>> => Others(i)[Len(Others(i))].late
           /\ i # Len(lists) => /\ Others(i) # <<>>
                               /\ Others(i)[Len(Others(i))].late = Newest.late
                               /\ Others(i)[Len(Others(i))].page = Newest.page
                               /\ Others(i)[Len(Others(i))].missed = Newest.missed
  <1> DEFINE m == [k \in DOMAIN lists |-> [lists[k] EXCEPT !.late = @ \/ k < i]]
  <1>1. lists \in Seq(Lists) /\ DOMAIN lists = 1..Len(lists) /\ i \in 1..Len(lists) /\ Len(lists) \in Nat
    BY DEF GridTypeOK
  <1>2. ASSUME NEW k \in DOMAIN lists
        PROVE  /\ m[k] \in Lists /\ m[k].page = lists[k].page /\ m[k].missed = lists[k].missed
               /\ k < i => m[k].late
               /\ ~(k < i) => m[k].late = lists[k].late
    <2>1. lists[k] \in Lists
      BY <1>1
    <2>2. PICK b \in BOOLEAN : b = (lists[k].late \/ k < i)
      OBVIOUS
    <2>3. m[k] = [lists[k] EXCEPT !.late = b]
      BY <2>2
    <2> QED BY <2>1, <2>2, <2>3 DEF Lists
  <1>3. Others(i) = RemoveAt(m, i) /\ DOMAIN m = DOMAIN lists /\ m = [k \in DOMAIN lists |-> m[k]]
    BY DEF Others
  <1> HIDE DEF m
  <1>4. m \in Seq(Lists) /\ Len(m) = Len(lists)
    BY <1>1, <1>2, <1>3, MappedFacts
  <1>5. /\ Others(i) \in Seq(Lists) /\ Len(Others(i)) = Len(lists) - 1
        /\ \A k \in 1..(Len(lists) - 1) : Others(i)[k] = IF k < i THEN m[k] ELSE m[k + 1]
    <2>1. i \in 1..Len(m) /\ m \in Seq(Lists)
      BY <1>1, <1>4
    <2> QED BY ZenonT(60), <1>3, <1>4, <2>1, RemoveAtFacts
  <1>6. ASSUME i = Len(lists), Others(i) # <<>>
        PROVE  Others(i)[Len(Others(i))].late
    <2>1. Len(lists) - 1 \in 1..(Len(lists) - 1) /\ Len(lists) - 1 \in DOMAIN lists /\ Len(lists) - 1 < i
      BY <1>1, <1>5, <1>6
    <2> QED BY <1>2, <1>5, <2>1
  <1>7. ASSUME i # Len(lists)
        PROVE  /\ Others(i) # <<>> /\ Others(i)[Len(Others(i))] = m[Len(lists)]
               /\ ~(Len(lists) < i) /\ Len(lists) \in DOMAIN lists
    <2>1. Len(lists) - 1 \in 1..(Len(lists) - 1) /\ ~(Len(lists) - 1 < i) /\ (Len(lists) - 1) + 1 = Len(lists)
      BY <1>1, <1>7
    <2> QED BY <1>1, <1>5, <2>1
  <1> QED BY <1>2, <1>5, <1>6, <1>7 DEF Newest

\* The table changes: what was read before is missing an own edit.
LEMMA ChangeTableFacts ==
    ASSUME RecordsInv, grid.mounted, NEW n, NEW own \in BOOLEAN, ChangeTable(n, own),
           own \/ Owed => Owed'
    PROVE  /\ table' \in 0..MaxRecords /\ grid' \in Grids /\ lists' \in Seq(Lists)
           /\ grid'.mounted = grid.mounted /\ grid'.dialog = grid.dialog
           /\ grid'.saving = grid.saving /\ grid'.loading = grid.loading
           /\ grid.loading => lists' # <<>>
           /\ LastSentRight'
  <1>1. lists \in Seq(Lists) /\ DOMAIN lists = 1..Len(lists) /\ Len(lists) \in Nat /\ grid \in Grids
    BY DEF RecordsInv, GridTypeOK
  <1>2. PICK b \in BOOLEAN : b = (grid.missed \/ (own /\ grid.shown # NoPage))
    OBVIOUS
  <1>3. grid' = [grid EXCEPT !.missed = b]
    BY <1>2 DEF ChangeTable
  <1>4. /\ grid' \in Grids /\ grid'.missed = b
        /\ grid'.mounted = grid.mounted /\ grid'.dialog = grid.dialog
        /\ grid'.saving = grid.saving /\ grid'.loading = grid.loading
        /\ grid'.page = grid.page /\ grid'.shown = grid.shown /\ grid'.late = grid.late
    BY <1>1, <1>3 DEF Grids
  <1>5. DOMAIN lists' = DOMAIN lists /\ lists' = [k \in DOMAIN lists |-> lists'[k]]
    BY DEF ChangeTable
  <1>6. ASSUME NEW k \in DOMAIN lists
        PROVE  /\ lists'[k] \in Lists
               /\ lists'[k].page = lists[k].page /\ lists'[k].late = lists[k].late
               /\ ~own => lists'[k].missed = lists[k].missed
    <2>1. lists[k] \in Lists
      BY <1>1
    <2>2. PICK c \in BOOLEAN : c = (lists[k].missed \/ (own /\ lists[k].pc = "answered"))
      OBVIOUS
    <2>3. lists'[k] = [lists[k] EXCEPT !.missed = c]
      BY <2>2 DEF ChangeTable
    <2> QED BY <2>1, <2>2, <2>3 DEF Lists
  <1>7. lists' \in Seq(Lists) /\ Len(lists') = Len(lists)
    BY <1>1, <1>5, <1>6, MappedFacts
  <1>8. LastSentRight'
    <2>1. CASE lists = <<>>
      <3>1. lists' = <<>>
        BY <1>7, <2>1
      <3> QED BY <1>2, <1>4, <2>1, <3>1 DEF LastSentRight, RecordsInv
    <2>2. CASE lists # <<>>
      <3>1. lists' # <<>> /\ Len(lists) \in DOMAIN lists
        BY <1>1, <1>7, <2>2
      <3>2. /\ Newest'.page = Newest.page /\ Newest'.late = Newest.late
            /\ ~own => Newest'.missed = Newest.missed
        BY <1>6, <1>7, <3>1 DEF Newest
      <3> QED BY <1>4, <2>2, <3>1, <3>2 DEF LastSentRight, RecordsInv
    <2> QED BY <2>1, <2>2
  <1>9. grid.loading => lists' # <<>>
    BY <1>1, <1>7 DEF RecordsInv
  <1>10. table' \in 0..MaxRecords
    BY DEF ChangeTable
  <1> QED BY <1>4, <1>7, <1>8, <1>9, <1>10

LEMMA RecordsOpens ==
    ASSUME RecordsInv, ~grid.mounted, OpenRecords
    PROVE  RecordsInv' /\ grid'.mounted
  <1> DEFINE g == [Unmounted EXCEPT !.mounted = TRUE]
  <1>1. 0 \in AllPages
    BY RecordsAssumption DEF AllPages
  <1>2. g \in Grids /\ g.mounted /\ g.dialog = "none" /\ ~g.saving
    BY <1>1, RecordsAssumption DEF Grids, Unmounted, AllPages
  <1>3. FetchData(g, 0) /\ write' = write /\ write = NoWrite /\ table' \in 0..MaxRecords
    BY DEF OpenRecords, RecordsInv, RecordsTypeOK
  <1> HIDE DEF g
  <1>4. /\ lists' \in Seq(Lists) /\ lists' # <<>>
        /\ grid' \in Grids /\ grid'.mounted /\ grid'.dialog = "none"
        /\ ~grid'.saving /\ LastSentRight'
    BY <1>1, <1>2, <1>3, FetchDataFacts DEF RecordsInv
  <1>5. RecordsTypeOK'
    BY <1>3, <1>4 DEF RecordsTypeOK, Grids
  <1> QED BY <1>3, <1>4, <1>5 DEF RecordsInv, GridTypeOK

LEMMA RecordsCloses ==
    ASSUME RecordsInv, CloseRecords
    PROVE  RecordsInv' /\ ~grid'.mounted
  <1>1. 0 \in AllPages /\ 0 \in 0..MaxRecords
    BY RecordsAssumption DEF AllPages
  <1>2. Unmounted \in Grids
    BY <1>1 DEF Unmounted, Grids
  <1> QED BY <1>1, <1>2 DEF CloseRecords, RecordsInv, RecordsTypeOK, GridTypeOK, LastSentRight, Unmounted, AllPages

LEMMA RecordsStepInv ==
    ASSUME RecordsInv, RecordsStep
    PROVE  RecordsInv' /\ grid'.mounted = grid.mounted
  <1>0. /\ lists \in Seq(Lists) /\ DOMAIN lists = 1..Len(lists) /\ Len(lists) \in Nat
        /\ grid \in Grids /\ table \in 0..MaxRecords /\ write \in Writes \union {NoWrite}
        /\ write # NoWrite => write.kind = grid.dialog
        /\ grid.saving <=> write # NoWrite
        /\ LastSentRight
    BY DEF RecordsInv, RecordsTypeOK, GridTypeOK
  <1>m. \/ write # NoWrite \/ lists # <<>> \/ grid.dialog # "none" => grid.mounted
    BY DEF RecordsInv, RecordsTypeOK, GridTypeOK, Unmounted
  <1>1. ASSUME NEW i \in DOMAIN lists, List(i)
        PROVE  RecordsInv' /\ grid'.mounted = grid.mounted
    <2>1. UNCHANGED <<table, grid, write>>
      BY <1>1 DEF List
    <2> DEFINE l == [lists[i] EXCEPT !.pc = "answered", !.total = table]
    <2>2. lists' = [lists EXCEPT ![i] = l] /\ l \in Lists
      <3>1. l \in Lists
        <4>1. lists[i] \in Lists
          BY <1>0
        <4> QED BY <1>0, <4>1 DEF Lists
      <3>2. lists' = [lists EXCEPT ![i].pc = "answered", ![i].total = table]
        BY <1>1 DEF List
      <3> QED BY <1>0, <3>1, <3>2
    <2>3. /\ l.page = lists[i].page /\ l.late = lists[i].late /\ l.missed = lists[i].missed
      BY <1>0 DEF Lists
    <2> HIDE DEF l
    <2>4. lists' \in Seq(Lists) /\ Len(lists') = Len(lists) /\ DOMAIN lists' = DOMAIN lists
      BY <1>0, <2>2, ExceptSeq
    <2>5. \A k \in DOMAIN lists : lists'[k] = IF k = i THEN l ELSE lists[k]
      BY <1>0, <2>2
    <2>6. lists # <<>> /\ lists' # <<>> /\ Len(lists) \in DOMAIN lists
      BY <1>0, <2>4
    <2>7. LastSentRight'
      BY <1>0, <2>1, <2>3, <2>4, <2>5, <2>6 DEF LastSentRight, Newest, Owed
    <2>8. RecordsTypeOK' /\ GridTypeOK'
      BY <1>0, <1>m, <2>1, <2>4, <2>6 DEF RecordsInv, RecordsTypeOK, GridTypeOK
    <2> QED BY <2>1, <2>6, <2>7, <2>8 DEF RecordsInv
  <1>2. ASSUME NEW i \in DOMAIN lists, ShowRows(i) \/ ShowNothing(i)
        PROVE  RecordsInv' /\ grid'.mounted = grid.mounted
    <2>1. lists[i] \in Lists /\ lists # <<>> /\ grid.mounted /\ Len(lists) >= 1
      BY <1>0, <1>m
    <2>2. lists' = Others(i) /\ table' = table /\ write' = write
      BY <1>2 DEF ShowRows, ShowNothing
    <2>3. /\ lists' \in Seq(Lists) /\ Len(lists') = Len(lists) - 1
          /\ i = Len(lists) /\ lists' # <<>> => Newest'.late
          /\ i # Len(lists) => /\ lists' # <<>> /\ Newest'.late = Newest.late
                               /\ Newest'.page = Newest.page /\ Newest'.missed = Newest.missed
      BY <2>2, OthersFacts DEF RecordsInv, Newest
    <2>4. /\ grid' \in Grids /\ grid'.mounted /\ grid'.dialog = grid.dialog /\ ~grid'.loading
          /\ grid'.saving = grid.saving /\ grid'.page = grid.page
          /\ \/ grid'.shown = NoPage
             \/ grid'.shown = lists[i].page /\ grid'.missed = lists[i].missed /\ grid'.late = lists[i].late
      <3>1. CASE ShowRows(i)
        <4>1. grid' = [grid EXCEPT !.total = lists[i].total,
                            !.shown = lists[i].page, !.loading = FALSE,
                            !.missed = lists[i].missed, !.late = lists[i].late]
          BY <3>1 DEF ShowRows
        <4>2. /\ lists[i].total \in 0..MaxRecords /\ lists[i].page \in AllPages
              /\ lists[i].missed \in BOOLEAN /\ lists[i].late \in BOOLEAN
          BY <2>1 DEF Lists, AllPages
        <4> QED BY <1>0, <2>1, <4>1, <4>2 DEF Grids
      <3>2. CASE ShowNothing(i)
        <4>1. grid' = [grid EXCEPT !.total = 0, !.shown = NoPage,
                            !.loading = FALSE, !.missed = FALSE, !.late = FALSE]
          BY <3>2 DEF ShowNothing
        <4>2. 0 \in 0..MaxRecords
          BY RecordsAssumption
        <4> QED BY <1>0, <2>1, <4>1, <4>2 DEF Grids
      <3> QED BY <1>2, <3>1, <3>2
    <2>5. LastSentRight'
      <3>1. CASE lists' = <<>>
        <4>1. i = Len(lists)
          BY <2>3, <3>1
        <4> QED BY <1>0, <2>1, <2>2, <2>4, <3>1, <4>1 DEF LastSentRight, Newest, Owed
      <3>2. CASE lists' # <<>>
        BY <1>0, <2>1, <2>2, <2>3, <2>4, <3>2 DEF LastSentRight, Owed
      <3> QED BY <3>1, <3>2
    <2>6. RecordsTypeOK' /\ GridTypeOK'
      BY <1>0, <2>1, <2>2, <2>3, <2>4 DEF RecordsTypeOK, GridTypeOK, Grids
    <2> QED BY <1>0, <2>1, <2>2, <2>4, <2>5, <2>6 DEF RecordsInv
  <1>3. ASSUME NEW page \in AllPages, grid.mounted, NEW g \in Grids, SetPaginationModel(g, page),
               g.page = grid.page, g.shown = grid.shown, g.missed = grid.missed, g.late = grid.late,
               g.loading = grid.loading, g.mounted,
               ~Owed, table' = table,
               \/ g.dialog = grid.dialog /\ g.saving = grid.saving /\ write' = write
               \/ g.dialog = "none" /\ ~g.saving /\ write' = NoWrite
        PROVE  RecordsInv' /\ grid'.mounted = grid.mounted
    <2>1. Owed' = Owed
      BY <1>3 DEF Owed
    <2>2. /\ lists' \in Seq(Lists) /\ (lists' = lists \/ lists' # <<>>)
          /\ grid' \in Grids /\ grid'.mounted = g.mounted /\ grid'.dialog = g.dialog
          /\ grid'.saving = g.saving /\ (lists' = lists => grid'.loading = g.loading \/ lists' # <<>>)
          /\ LastSentRight'
      BY <1>0, <1>3, <2>1, SetPageFacts DEF RecordsInv
    <2>3. RecordsTypeOK' /\ GridTypeOK'
      BY <1>0, <1>3, <2>2 DEF RecordsTypeOK, GridTypeOK, Grids
    <2> QED BY <1>0, <1>3, <2>2, <2>3 DEF RecordsInv, Grids
  <1>4. CASE Turn \/ GridValidPage
    <2>1. grid.mounted /\ table' = table /\ write' = write
      BY <1>4 DEF Turn, GridValidPage, Free
    <2>2. PICK page : SetPaginationModel(grid, page) /\ page \in AllPages
      <3>1. grid.total \in 0..MaxRecords
        BY <1>0 DEF Grids
      <3>2. LastPage(grid.total) \in AllPages
        BY <3>1, PageFacts
      <3>3. 0..LastPage(grid.total) \subseteq AllPages
        BY <3>2, RecordsAssumption DEF AllPages
      <3> QED BY <1>4, <3>2, <3>3 DEF Turn, GridValidPage
    <2>3. CASE Owed
      <3>1. Owed' = Owed
        BY <2>1 DEF Owed
      <3>2. /\ lists' \in Seq(Lists) /\ (lists' = lists \/ lists' # <<>>)
            /\ grid' \in Grids /\ grid'.mounted = grid.mounted /\ grid'.dialog = grid.dialog
            /\ grid'.saving = grid.saving /\ (lists' = lists => grid'.loading = grid.loading \/ lists' # <<>>)
            /\ LastSentRight'
        BY <1>0, <2>2, <3>1, SetPageFacts DEF RecordsInv
      <3>3. RecordsTypeOK' /\ GridTypeOK'
        BY <1>0, <2>1, <3>2 DEF RecordsTypeOK, GridTypeOK, Grids
      <3> QED BY <1>0, <2>1, <3>2, <3>3 DEF RecordsInv, Grids
    <2>4. CASE ~Owed
      BY <1>0, <1>3, <2>1, <2>2, <2>4
    <2> QED BY <2>3, <2>4
  <1>5. CASE OpenDialog \/ Cancel \/ Submit
    <2>1. grid.mounted /\ table' = table /\ lists' = lists /\ write = NoWrite
      BY <1>0, <1>m, <1>5 DEF OpenDialog, Cancel, Submit, Free, Writes
    <2>2. /\ grid' \in Grids /\ grid'.mounted /\ grid'.loading = grid.loading
          /\ grid'.page = grid.page /\ grid'.shown = grid.shown
          /\ grid'.late = grid.late /\ grid'.missed = grid.missed
      BY <1>0, <1>5, <2>1 DEF OpenDialog, Cancel, Submit, Grids
    <2>3. \/ write' = NoWrite /\ ~grid'.saving
          \/ /\ write' \in Writes /\ write' # NoWrite /\ write'.pc = "sent"
             /\ write'.kind = grid'.dialog /\ grid'.saving
      <3>1. CASE OpenDialog \/ Cancel
        BY <1>0, <2>1, <3>1 DEF OpenDialog, Cancel, Grids
      <3>2. CASE Submit
        <4> DEFINE p == IF grid.dialog = "add" THEN LastPage(grid.total + 1) ELSE grid.page
        <4>1. p \in AllPages
          <5>1. grid.total \in 0..MaxRecords /\ grid.page \in AllPages
            BY <1>0 DEF Grids
          <5> QED BY <5>1, PageFacts
        <4>2. /\ write' = [pc |-> "sent", kind |-> grid.dialog, page |-> p]
              /\ grid' = [grid EXCEPT !.saving = TRUE] /\ grid.dialog # "none"
          BY <3>2 DEF Submit
        <4> HIDE DEF p
        <4>3. write' \in Writes
          BY <1>0, <4>1, <4>2 DEF Writes, Grids
        <4> QED BY <1>0, <4>2, <4>3, NoWriteAssumption DEF Grids
      <3> QED BY <1>5, <3>1, <3>2
    <2>4. ~Owed /\ ~Owed'
      BY <2>1, <2>3 DEF Owed
    <2>5. LastSentRight'
      BY <1>0, <2>1, <2>2, <2>4 DEF LastSentRight, Newest
    <2>6. RecordsTypeOK' /\ GridTypeOK'
      BY <1>0, <2>1, <2>2, <2>3 DEF RecordsTypeOK, GridTypeOK, Grids
    <2> QED BY <2>1, <2>2, <2>3, <2>5, <2>6 DEF RecordsInv
  <1>6. ASSUME grid.mounted, NEW n, NEW own \in BOOLEAN, ChangeTable(n, own),
               own \/ Owed => Owed',
               write' \in Writes \union {NoWrite}, write' # NoWrite <=> write # NoWrite,
               write' # NoWrite => write'.kind = write.kind
        PROVE  RecordsInv' /\ grid'.mounted = grid.mounted
    <2>1. /\ table' \in 0..MaxRecords /\ grid' \in Grids /\ lists' \in Seq(Lists)
          /\ grid'.mounted = grid.mounted /\ grid'.dialog = grid.dialog
          /\ grid'.saving = grid.saving /\ grid'.loading = grid.loading
          /\ grid.loading => lists' # <<>>
          /\ LastSentRight'
      BY <1>6, ChangeTableFacts
    <2>2. RecordsTypeOK' /\ GridTypeOK'
      BY <1>0, <1>6, <2>1 DEF RecordsTypeOK, GridTypeOK, Grids
    <2> QED BY <1>0, <1>6, <2>1, <2>2 DEF RecordsInv
  <1>7. CASE Committed
    <2>1. /\ write \in Writes /\ write # NoWrite /\ write.pc = "sent" /\ grid.mounted
          /\ write' = [write EXCEPT !.pc = "done"]
      BY <1>0, <1>m, <1>7 DEF Committed
    <2>2. /\ write' \in Writes /\ write' # NoWrite /\ write'.kind = write.kind /\ write'.pc = "done"
      BY <2>1, NoWriteAssumption DEF Writes
    <2>3. ~Owed
      BY <2>1 DEF Owed
    <2>4. PICK n \in {table, table + 1, table - 1}, own \in BOOLEAN : ChangeTable(n, own) /\ (own => write.kind \in {"edit", "delete"})
      <3>1. CASE write.kind = "add"
        BY <1>7, <3>1 DEF Committed
      <3>2. CASE write.kind = "edit"
        BY <1>7, <3>2 DEF Committed
      <3>3. CASE write.kind = "delete"
        BY <1>7, <3>3 DEF Committed
      <3> QED BY <2>1, <3>1, <3>2, <3>3 DEF Writes
    <2>5. own \/ Owed => Owed'
      BY <2>2, <2>3, <2>4 DEF Owed
    <2> QED BY <1>6, <2>1, <2>2, <2>4, <2>5
  <1>8. CASE OtherEdit
    <2>1. grid.mounted /\ write' = write
      BY <1>8 DEF OtherEdit
    <2>2. PICK n : ChangeTable(n, FALSE)
      BY <1>8 DEF OtherEdit
    <2>3. Owed => Owed'
      BY <2>1 DEF Owed
    <2> QED BY <1>0, <1>6, <2>1, <2>2, <2>3
  <1>9. Answered \in Grids /\ Answered.mounted = grid.mounted /\ ~Answered.saving /\ Answered.dialog = "none"
        /\ Answered.page = grid.page /\ Answered.shown = grid.shown /\ Answered.missed = grid.missed
        /\ Answered.late = grid.late /\ Answered.loading = grid.loading
    BY <1>0 DEF Answered, Grids
  <1>10. CASE SaveOrDelete
    <2>1. /\ write \in Writes /\ write # NoWrite /\ grid.mounted /\ write.page \in AllPages
          /\ FetchData(Answered, write.page) /\ write' = NoWrite /\ table' = table
      BY <1>0, <1>m, <1>10 DEF SaveOrDelete, Writes
    <2>2. /\ lists' \in Seq(Lists) /\ lists' # <<>>
          /\ grid' \in Grids /\ grid'.mounted = grid.mounted /\ grid'.dialog = "none"
          /\ ~grid'.saving /\ LastSentRight'
      BY <1>9, <2>1, FetchDataFacts DEF RecordsInv
    <2>3. RecordsTypeOK' /\ GridTypeOK'
      BY <1>0, <2>1, <2>2 DEF RecordsTypeOK, GridTypeOK, Grids
    <2> QED BY <2>1, <2>2, <2>3 DEF RecordsInv
  <1>11. CASE Added
    <2>1. /\ write \in Writes /\ write # NoWrite /\ grid.mounted /\ write.page \in AllPages
          /\ SetPaginationModel(Answered, write.page) /\ write' = NoWrite /\ table' = table
          /\ ~Owed
      BY <1>0, <1>m, <1>11 DEF Added, Writes, Owed
    <2> QED BY <1>3, <1>9, <2>1
  <1>12. CASE WriteFailed
    <2>1. /\ write # NoWrite /\ write.pc = "sent" /\ grid.mounted
          /\ grid' = [grid EXCEPT !.saving = FALSE] /\ write' = NoWrite
          /\ UNCHANGED <<table, lists>>
      BY <1>m, <1>12 DEF WriteFailed
    <2>2. /\ grid' \in Grids /\ grid'.mounted /\ grid'.loading = grid.loading /\ ~grid'.saving
          /\ grid'.page = grid.page /\ grid'.shown = grid.shown
          /\ grid'.late = grid.late /\ grid'.missed = grid.missed
      BY <1>0, <2>1 DEF Grids
    <2>3. ~Owed /\ ~Owed'
      BY <2>1 DEF Owed
    <2>4. LastSentRight'
      BY <1>0, <2>1, <2>2, <2>3 DEF LastSentRight, Newest
    <2>5. RecordsTypeOK' /\ GridTypeOK'
      BY <1>0, <2>1, <2>2 DEF RecordsTypeOK, GridTypeOK, Grids
    <2> QED BY <2>1, <2>2, <2>4, <2>5 DEF RecordsInv
  <1> QED BY <1>1, <1>2, <1>4, <1>5, <1>7, <1>8, <1>10, <1>11, <1>12 DEF RecordsStep

----------------------------------------------------------------------------
LEMMA ShellNextInv == ShellInv /\ [ShellNext]_shellVars => ShellInv'
  <1> SUFFICES ASSUME ShellInv, [ShellNext]_shellVars PROVE ShellInv'
    OBVIOUS
  <1> USE DEF ShellInv
  <1>t. ASSUME AnalyticsInv', RecordsInv', (panel.mounted => tab = "main")', (grid.mounted <=> tab = "data")'
        PROVE  ShellInv'
    BY <1>t DEF ShellTypeOK, AnalyticsInv, RecordsInv
  <1>s. ASSUME UNCHANGED analyticsVars PROVE AnalyticsInv' /\ panel' = panel
    BY <1>s DEF analyticsVars, AnalyticsInv, AnalyticsTypeOK, PanelTypeOK, GetInv
  <1>r. ASSUME UNCHANGED recordsVars PROVE RecordsInv' /\ grid' = grid
    BY <1>r DEF recordsVars, RecordsInv, RecordsTypeOK, GridTypeOK, LastSentRight, Newest, Owed
  <1>p. (panel.mounted => tab = "main") /\ (grid.mounted <=> tab = "data")
    BY DEF ShellTypeOK
  <1>m. ASSUME MainShown, ~panel.mounted PROVE AnalyticsInv' /\ tab' = "main"
    BY <1>m, <1>s, AnalyticsOpens DEF MainShown
  <1>1. CASE OpenPage
    BY <1>1, <1>p, <1>t, <1>r, <1>m DEF OpenPage
  <1>2. CASE ClosePage
    BY <1>2, <1>t, AnalyticsCloses, RecordsCloses DEF ClosePage
  <1>3. CASE ToData
    BY <1>3, <1>p, <1>t, AnalyticsCloses, RecordsOpens DEF ToData
  <1>4. CASE ToMain
    BY <1>4, <1>p, <1>t, <1>m, RecordsCloses DEF ToMain
  <1>5. CASE Hide
    BY <1>5, <1>p, <1>t, <1>r, AnalyticsCloses DEF Hide
  <1>6. CASE Show
    BY <1>6, <1>p, <1>t, <1>r, AnalyticsOpens DEF Show
  <1>7. CASE AnalyticsStep /\ UNCHANGED <<tab, recordsVars>>
    BY <1>7, <1>p, <1>t, <1>r, AnalyticsStepInv
  <1>8. CASE RecordsStep /\ UNCHANGED <<tab, analyticsVars>>
    BY <1>8, <1>p, <1>t, <1>s, RecordsStepInv
  <1>9. CASE UNCHANGED shellVars
    BY <1>9, <1>p, <1>t, <1>s, <1>r DEF shellVars
  <1> QED BY <1>1, <1>2, <1>3, <1>4, <1>5, <1>6, <1>7, <1>8, <1>9 DEF ShellNext

LEMMA ShellInvariant == ShellSpec => []ShellInv
  BY ShellInitInv, ShellNextInv, PTL DEF ShellSpec

----------------------------------------------------------------------------
\* What the table of records shows is of its own page and of after the user's own
\* edits, and no panel is busy for nothing, for any number of requests under way
\* and any order of their answers.
THEOREM RowsStayRight == ShellSpec => []RowsAreRight
  <1>1. ShellInv => RowsAreRight
    BY DEF ShellInv, RowsAreRight, AnalyticsInv, RecordsInv, BusyMeansPending, RightPageUnlessLate,
           OwnEditsAreShown, AtRest, LastSentRight, Owed
  <1> QED BY <1>1, ShellInvariant, PTL

\* The panel goes back to an older snapshot only where two of its requests were
\* under way at one time.
THEOREM BackIsByOverlap == ShellSpec => BackOnlyByOverlap
  <1> DEFINE Back == panel'.data \notin {NoData, panel.data} /\ panel'.data.snapshot < newest
             Overlap == \E i \in DOMAIN gets : gets[i].overlapped
  <1>1. ShellInv /\ [ShellNext]_shellVars => [Back => Overlap]_analyticsVars
    <2> SUFFICES ASSUME ShellInv, ShellNext, Back PROVE Overlap
      BY DEF shellVars, analyticsVars
    <2>1. \A i \in DOMAIN gets : ShowData(i) => gets[i].overlapped
      <3> SUFFICES ASSUME NEW i \in DOMAIN gets, ShowData(i) PROVE gets[i].overlapped
        OBVIOUS
      <3>1. gets[i] \in Gets /\ GetInv(gets[i]) /\ newest \in Nat
        BY DEF ShellInv, AnalyticsInv, AnalyticsTypeOK, PanelTypeOK
      <3>2. panel'.data = gets[i].answer /\ gets[i].pc = "answered"
        BY DEF ShowData, ShellInv, AnalyticsInv, PanelTypeOK
      <3> QED BY <3>1, <3>2 DEF GetInv, Gets, Batch
    <2>2. ASSUME CloseAnalytics \/ OpenAnalytics \/ UNCHANGED analyticsVars PROVE FALSE
      <3>1. panel'.data \in {NoData, panel.data}
        <4>1. CASE CloseAnalytics
          BY <4>1 DEF CloseAnalytics, Closed
        <4>2. CASE OpenAnalytics
          BY <4>2 DEF OpenAnalytics, Closed
        <4>3. CASE UNCHANGED analyticsVars
          BY <4>3 DEF analyticsVars
        <4> QED BY <2>2, <4>1, <4>2, <4>3
      <3> QED BY <3>1
    <2>3. CASE AnalyticsStep
      <3>1. ASSUME NEW i \in DOMAIN gets, ~ShowData(i), panel' = panel \/ ShowError(i) PROVE FALSE
        BY <3>1 DEF ShowError, ShellInv, AnalyticsInv, PanelTypeOK
      <3>2. ASSUME FetchAnalytics PROVE FALSE
        BY <3>2 DEF FetchAnalytics, ShellInv, AnalyticsInv, PanelTypeOK
      <3>3. panel' # panel
        OBVIOUS
      <3> QED BY <2>1, <2>3, <3>1, <3>2, <3>3 DEF AnalyticsStep, SnapshotAdded, AttemptRecorded, Serve,
                ReadSnapshot, ReadStatus, StatusUnread, GetFails, Poll, Reload, Arrive
    <2> QED BY <2>2, <2>3 DEF ShellNext, OpenPage, ClosePage, ToData, ToMain, Hide, Show, MainShown
  <1>2. ShellSpec => [][Back => Overlap]_analyticsVars
    BY <1>1, ShellInvariant, PTL DEF ShellSpec
  <1> QED BY <1>2 DEF BackOnlyByOverlap
==============================================================================
