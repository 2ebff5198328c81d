----------------------------- MODULE QueryAgent -----------------------------
(***************************************************************************)
(* QueryAgent.process_query of core_app/backend/agents/query_agent.py: the *)
(* planner proposes tool calls, the tools run, and after at most           *)
(* MaxIterations rounds the answer is synthesised from what they returned. *)
(*                                                                         *)
(* One QueryAgent and its three tools serve every request, each request in *)
(* a thread of its own. A request keeps its progress in local variables;   *)
(* the LLM client of generate_sql and _current_question are shared.        *)
(***************************************************************************)
EXTENDS Naturals, Sequences

CONSTANTS
    Requests,
    NoRequest,
    MaxIterations,  \* QueryAgent.MAX_ITERATIONS
    Plans           \* bound: the sequences of tool calls the planner proposes

ASSUME QueryAgentAssumption ==
    /\ MaxIterations \in Nat \ {0}
    /\ NoRequest \notin Requests

VARIABLES
    pc,             \* where process_query is
    iteration,
    tool_calls,     \* the calls of the current plan that are still to run
    tool_results,   \* what the tools returned, in order
    stop,           \* should_break_early
    answer,         \* final_answer
    running,        \* rows the Execution Log shows as running
    recovered,      \* the post-loop execute_sql: "no", "run", or it "raised"
    llm_client,     \* whose client the generate_sql tool holds
    _current_question   \* whose question is the fallback of semantic_search

\* Each request overwrites what the others hold here, and nothing it does is
\* decided on it: whose client or question a tool had is not in its result.
shared == <<llm_client, _current_question>>
vars == <<pc, iteration, tool_calls, tool_results, stop, answer, running,
          recovered, shared>>

\* Tools the planner may name; "other" is a name that is not in self.tools.
Tools == {"execute_sql", "semantic_search", "generate_sql", "other"}
ASSUME PlansAssumption == Plans \subseteq Seq(Tools)

Rows == Tools \union {"llm_plan", "llm_synthesize_answer"}

\* What a tool returned: rows, no rows, or a failure; generate_sql returns SQL
\* that is executable, text that is not, or nothing at all. Of an execute_sql,
\* the place of the generate_sql whose SQL it ran; 0 is SQL of the planner.
Results == [tool : {"execute_sql"}, got : {"rows", "empty", "failed"}, of : Nat]
    \union [tool : {"semantic_search"}, got : {"rows", "empty", "failed"}]
    \union [tool : {"generate_sql"}, got : {"select", "text", "blank", "failed"}]

Pcs == {"idle", "client", "plan", "tools", "chain", "recover", "synthesis",
        "done", "failed", "raised"}
Answers == {"none", "llm", "no_data", "limit", "cannot"}

TypeOK ==
    /\ pc \in [Requests -> Pcs]
    /\ iteration \in [Requests -> 0..MaxIterations]
    /\ \A r \in Requests : pc[r] = "plan" => iteration[r] < MaxIterations
    /\ tool_calls \in [Requests -> Seq(Tools)]
    /\ tool_results \in [Requests -> Seq(Results)]
    /\ stop \in [Requests -> BOOLEAN]
    /\ answer \in [Requests -> Answers]
    /\ running \in [Requests -> SUBSET Rows]
    /\ recovered \in [Requests -> {"no", "run", "raised"}]
    /\ llm_client \in Requests \union {NoRequest}
    /\ _current_question \in Requests \union {NoRequest}

Init ==
    /\ pc = [r \in Requests |-> "idle"]
    /\ iteration = [r \in Requests |-> 0]
    /\ tool_calls = [r \in Requests |-> <<>>]
    /\ tool_results = [r \in Requests |-> <<>>]
    /\ stop = [r \in Requests |-> FALSE]
    /\ answer = [r \in Requests |-> "none"]
    /\ running = [r \in Requests |-> {}]
    /\ recovered = [r \in Requests |-> "no"]
    /\ llm_client = NoRequest
    /\ _current_question = NoRequest

----------------------------------------------------------------------------
\* What the tools return, by what the agent tells apart. Each catches what its
\* database or LLM raises, and returns its connection to the pool.

\* SQLTool.execute: anything but a SELECT is refused.
SqlResults == {"rows", "empty", "failed"}

\* SemanticSearchTool.execute: a query shorter than three characters is refused.
SearchResults == {"rows", "empty", "failed"}

\* SQLGeneratorTool.execute: an LLM that has answered has succeeded, whether its
\* text is an executable SELECT, another text or empty.
GeneratedSql == {"select", "text", "blank", "failed"}

----------------------------------------------------------------------------
\* Helpers.

ResultsOf(r) == {tool_results[r][i] : i \in 1..Len(tool_results[r])}

Retrievals(r) == {x \in ResultsOf(r) : x.tool # "generate_sql"}

HasSqlRows(r) == \E x \in ResultsOf(r) : x.tool = "execute_sql" /\ x.got = "rows"

HasRows(r) == \E x \in ResultsOf(r) : x.got = "rows"

\* The i-th result is an executable SELECT, and nothing of what is in gots was
\* generated after it.
LatestSelect(r, i, gots) ==
    /\ tool_results[r][i].got = "select"
    /\ \A j \in (i + 1)..Len(tool_results[r]) : tool_results[r][j].got \notin gots

\* The SQL of the last generate_sql that succeeded is an executable SELECT: here
\* an empty text counts as the last one.
LastSelect(r, i) == LatestSelect(r, i, {"select", "text", "blank"})

LastSqlExecutable(r) == \E i \in 1..Len(tool_results[r]) : LastSelect(r, i)

\* Mutant: the fallback is any SELECT generated so far.
ResolveSql_Stale(r) ==
    {0} \union {i \in 1..Len(tool_results[r]) : tool_results[r][i].got = "select"}

\* resolve_execute_sql: an executable SELECT of the call comes first, else the
\* latest text that was generated, when it is an executable SELECT: here an empty
\* text is passed over. With neither the call is run as it is, and refused.
ResolveSql(r) ==
    {0} \union {i \in 1..Len(tool_results[r]) : LatestSelect(r, i, {"select", "text"})}

Goto(r, where) == pc' = [pc EXCEPT ![r] = where]

Record(r, result) == tool_results' = [tool_results EXCEPT ![r] = Append(@, result)]

\* tool_call_start and tool_call_complete, as the Execution Log shows them: one
\* row per tool name is running.
Start(r, row) == running' = [running EXCEPT ![r] = @ \union {row}]
Complete(r, row) == running' = [running EXCEPT ![r] = @ \ {row}]

----------------------------------------------------------------------------
\* create_llm_client_for_choice, then set_request_llm on the shared tool.
SetRequestLlm(r) ==
    /\ pc[r] = "idle"
    /\ llm_client' = r
    /\ Goto(r, "client")
    /\ UNCHANGED <<iteration, tool_calls, tool_results, stop, answer, running,
                   recovered, _current_question>>

\* The factory raises before the try: the caller gets the exception, and no
\* event and no metric is recorded.
ClientFails(r) ==
    /\ pc[r] = "idle"
    /\ Goto(r, "raised")
    /\ UNCHANGED <<iteration, tool_calls, tool_results, stop, answer, running,
                   recovered, shared>>

SetCurrentQuestion(r) ==
    /\ pc[r] = "client"
    /\ _current_question' = r
    /\ Goto(r, "plan")
    /\ UNCHANGED <<iteration, tool_calls, tool_results, stop, answer, running,
                   recovered, llm_client>>

\* One round of planning. No call means the agent thinks it is done.
Plan(r) ==
    /\ pc[r] = "plan"
    /\ iteration[r] < MaxIterations
    /\ iteration' = [iteration EXCEPT ![r] = @ + 1]
    /\ \E calls \in Plans :
        /\ tool_calls' = [tool_calls EXCEPT ![r] = calls]
        /\ Goto(r, IF calls = <<>> THEN "recover" ELSE "tools")
    /\ UNCHANGED <<tool_results, stop, answer, running, recovered, shared>>

\* The planner's LLM call raises: "error" goes out, its row stays.
PlanFails(r) ==
    /\ pc[r] = "plan"
    /\ iteration[r] < MaxIterations
    /\ iteration' = [iteration EXCEPT ![r] = @ + 1]
    /\ Start(r, "llm_plan")
    /\ Goto(r, "failed")
    /\ UNCHANGED <<tool_calls, tool_results, stop, answer, recovered, shared>>

----------------------------------------------------------------------------
\* The for loop over the calls of a plan.

NextCall(r, tool) ==
    /\ pc[r] = "tools"
    /\ ~stop[r]
    /\ tool_calls[r] # <<>>
    /\ Head(tool_calls[r]) = tool
    /\ tool_calls' = [tool_calls EXCEPT ![r] = Tail(@)]

\* A name that is no tool: the row was started, the loop goes on.
UnknownTool(r) ==
    /\ NextCall(r, "other")
    /\ Start(r, "other")
    /\ UNCHANGED <<pc, iteration, tool_results, stop, answer, recovered, shared>>

\* _run_execute_sql_for_agent: rows end the search.
RunExecuteSql(r, of) ==
    \E got \in SqlResults :
        /\ Record(r, [tool |-> "execute_sql", got |-> got, of |-> of])
        /\ stop' = [stop EXCEPT ![r] = got = "rows"]

\* Mutant: a failed execute_sql ends without its tool_call_complete.
ExecuteSql_NoComplete(r) ==
    /\ NextCall(r, "execute_sql")
    /\ \E of \in ResolveSql(r), got \in SqlResults :
        /\ Record(r, [tool |-> "execute_sql", got |-> got, of |-> of])
        /\ stop' = [stop EXCEPT ![r] = got = "rows"]
        /\ running' = [running EXCEPT ![r] =
                IF got = "failed" THEN @ \union {"execute_sql"} ELSE @ \ {"execute_sql"}]
    /\ UNCHANGED <<pc, iteration, answer, recovered, shared>>

ExecuteSql(r) ==
    /\ NextCall(r, "execute_sql")
    /\ \E of \in ResolveSql(r) : RunExecuteSql(r, of)
    /\ Complete(r, "execute_sql")
    /\ UNCHANGED <<pc, iteration, answer, recovered, shared>>

\* semantic_search: without a query_text in the call the fallback is
\* _current_question, whoever set it last. Rows end the search, so the check
\* for a search that was already successful never finds one.
SemanticSearch(r) ==
    /\ NextCall(r, "semantic_search")
    /\ \E got \in SearchResults :
        /\ Record(r, [tool |-> "semantic_search", got |-> got])
        /\ stop' = [stop EXCEPT ![r] = got = "rows"]
    /\ Complete(r, "semantic_search")
    /\ UNCHANGED <<pc, iteration, answer, recovered, shared>>

\* generate_sql asks the LLM client the tool holds. An executable SELECT with
\* no execute_sql left in the plan is chained.
GenerateSql(r) ==
    /\ NextCall(r, "generate_sql")
    /\ \E got \in GeneratedSql :
        /\ Record(r, [tool |-> "generate_sql", got |-> got])
        /\ Goto(r, IF got = "select"
                      /\ \A i \in 2..Len(tool_calls[r]) : tool_calls[r][i] # "execute_sql"
                   THEN "chain" ELSE "tools")
    /\ Complete(r, "generate_sql")
    /\ UNCHANGED <<iteration, stop, answer, recovered, shared>>

\* Mutant: the rows of a chained execute_sql do not leave the loop.
AutoChain_GoOn(r) ==
    /\ pc[r] = "chain"
    /\ \E got \in SqlResults :
        Record(r, [tool |-> "execute_sql", got |-> got, of |-> Len(tool_results[r])])
    /\ Complete(r, "execute_sql")
    /\ Goto(r, "tools")
    /\ UNCHANGED <<iteration, tool_calls, stop, answer, recovered, shared>>

\* What is chained is the SQL of the result just recorded.
AutoChain(r) ==
    /\ pc[r] = "chain"
    /\ RunExecuteSql(r, Len(tool_results[r]))
    /\ Complete(r, "execute_sql")
    /\ Goto(r, "tools")
    /\ UNCHANGED <<iteration, tool_calls, answer, recovered, shared>>

\* A tool raises instead of returning a failure: "error" goes out, its row
\* stays.
ToolRaises(r) ==
    /\ \/ \E tool \in Tools \ {"other"} : NextCall(r, tool) /\ Start(r, tool)
       \/ pc[r] = "chain" /\ Start(r, "execute_sql") /\ UNCHANGED tool_calls
    /\ Goto(r, "failed")
    /\ UNCHANGED <<iteration, tool_results, stop, answer, recovered, shared>>

\* The plan is worked off, or was left early: another round, or the end of it.
EndIteration(r) ==
    /\ pc[r] = "tools"
    /\ stop[r] \/ tool_calls[r] = <<>>
    /\ Goto(r, IF stop[r] \/ HasSqlRows(r) \/ iteration[r] = MaxIterations
               THEN "recover" ELSE "plan")
    /\ UNCHANGED <<iteration, tool_calls, tool_results, stop, answer, running,
                   recovered, shared>>

----------------------------------------------------------------------------
NeedsRecovery(r) == ~HasSqlRows(r) /\ LastSqlExecutable(r)

\* After the loop: the last generated SQL is run when no SQL returned rows. An
\* exception is logged and forgotten, with the result. No row is started.
Recover(r) ==
    /\ pc[r] = "recover"
    /\ NeedsRecovery(r)
    /\ \/ /\ \E got \in SqlResults, of \in 1..Len(tool_results[r]) :
                /\ LastSelect(r, of)
                /\ Record(r, [tool |-> "execute_sql", got |-> got, of |-> of])
          /\ Complete(r, "execute_sql")
          /\ recovered' = [recovered EXCEPT ![r] = "run"]
       \/ /\ recovered' = [recovered EXCEPT ![r] = "raised"]
          /\ UNCHANGED <<tool_results, running>>
    /\ Goto(r, "synthesis")
    /\ UNCHANGED <<iteration, tool_calls, stop, answer, shared>>

SkipRecovery(r) ==
    /\ pc[r] = "recover"
    /\ ~NeedsRecovery(r)
    /\ Goto(r, "synthesis")
    /\ UNCHANGED <<iteration, tool_calls, tool_results, stop, answer, running,
                   recovered, shared>>

\* _select_synthesis_inputs hands rows to the LLM; without any its text is
\* replaced. With results the verdict on the retrieval tools is recomputed;
\* without any the flag still has its initial TRUE.
AllRetrievalsSuccessful(r) ==
    \/ tool_results[r] = <<>>
    \/ Retrievals(r) # {} /\ \A x \in Retrievals(r) : x.got # "failed"

\* Mutant: the LLM's text is kept when some tool succeeded.
FinalAnswer_AnySuccess(r) ==
    IF \E x \in ResultsOf(r) : x.got # "failed" THEN "llm"
    ELSE IF AllRetrievalsSuccessful(r) THEN "no_data"
    ELSE IF iteration[r] >= MaxIterations THEN "limit" ELSE "cannot"

FinalAnswer(r) ==
    IF HasRows(r) THEN "llm"
    ELSE IF AllRetrievalsSuccessful(r) THEN "no_data"
    ELSE IF iteration[r] >= MaxIterations THEN "limit" ELSE "cannot"

Synthesize(r) ==
    /\ pc[r] = "synthesis"
    /\ answer' = [answer EXCEPT ![r] = FinalAnswer(r)]
    /\ Complete(r, "llm_synthesize_answer")
    /\ Goto(r, "done")
    /\ UNCHANGED <<iteration, tool_calls, tool_results, stop, recovered, shared>>

\* Only a run with results asks the LLM, which may raise.
SynthesisFails(r) ==
    /\ pc[r] = "synthesis"
    /\ tool_results[r] # <<>>
    /\ Start(r, "llm_synthesize_answer")
    /\ Goto(r, "failed")
    /\ UNCHANGED <<iteration, tool_calls, tool_results, stop, answer, recovered, shared>>

----------------------------------------------------------------------------
Step(r) ==
    \/ ClientFails(r) \/ SetRequestLlm(r) \/ SetCurrentQuestion(r)
    \/ Plan(r) \/ PlanFails(r)
    \/ UnknownTool(r) \/ ExecuteSql(r) \/ SemanticSearch(r) \/ GenerateSql(r)
    \/ AutoChain(r) \/ ToolRaises(r) \/ EndIteration(r)
    \/ Recover(r) \/ SkipRecovery(r) \/ Synthesize(r) \/ SynthesisFails(r)

Over(r) == pc[r] \in {"done", "failed", "raised"}

AllOver == (\A r \in Requests : Over(r)) /\ UNCHANGED vars

Next == (\E r \in Requests : Step(r)) \/ AllOver

Spec == Init /\ [][Next]_vars

----------------------------------------------------------------------------
\* Properties.

\* The search stops at the first rows, whether they come from a planned call,
\* a chained execute_sql or a semantic search: nothing is recorded behind
\* them but the result of the post-loop execute_sql.
RowsEndTheSearch ==
    \A r \in Requests : \A i \in 1..Len(tool_results[r]) :
        tool_results[r][i].got = "rows" =>
            \/ i = Len(tool_results[r])
            \/ recovered[r] = "run" /\ i = Len(tool_results[r]) - 1

\* The user reads a text of the LLM exactly when some retrieval returned rows
\* it was given; every other answer is one of the fixed messages.
GroundedAnswer ==
    \A r \in Requests : pc[r] = "done" => (answer[r] = "llm" <=> HasRows(r))

\* "After planning loop, ensure we have executed SQL if SQL was generated": in
\* an answered request the very SQL that was generated last, if it can be executed
\* at all, has been run, even when the loop was left before its turn and however
\* the calls of the plans named their SQL. Two things stand in its place: rows of
\* a SELECT the planner wrote itself, and a post-loop execution that raised.
LastSqlIsRun ==
    \A r \in Requests : \A i \in 1..Len(tool_results[r]) :
        pc[r] = "done" /\ LastSelect(r, i) =>
            \/ \E x \in ResultsOf(r) : x.tool = "execute_sql" /\ x.of = i
            \/ \E x \in ResultsOf(r) : x.tool = "execute_sql" /\ x.of = 0 /\ x.got = "rows"
            \/ recovered[r] = "raised"

\* "tool_call_complete per tool": when a request is answered no step of it is
\* shown as running any more, but for a name the planner invented, which is
\* started and never completed.
OnlyUnknownLeftRunning ==
    \A r \in Requests : pc[r] = "done" => running[r] \subseteq {"other"}
=============================================================================
