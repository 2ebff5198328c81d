-------------------------- MODULE QueryAgent_proofs --------------------------
(***************************************************************************)
(* Safety of QueryAgent for every set of requests, every MAX_ITERATIONS    *)
(* and plans of any length.                                                *)
(*                                                                         *)
(* RowsEndTheSearch is not inductive: whether a result may still be        *)
(* recorded depends on where process_query is and on should_break_early.   *)
(* RequestInv says for every position which results may already be rows,   *)
(* and RunningInv which calls the execution log may show as running.       *)
(* LastSqlIsRun rests on SourceInv: what an execute_sql took from a        *)
(* generate_sql was the latest SQL there was when it ran.                  *)
(***************************************************************************)
EXTENDS QueryAgent, TLAPS

\* The results of the tools are small sets, looked into wherever one is recorded.
USE DEF SqlResults, SearchResults, GeneratedSql

\* None of the first n results of r is rows.
NoRows(r, n) == \A i \in 1..n : tool_results[r][i].got # "rows"

\* RowsEndTheSearch, for one request.
RowsEnd(r) ==
    \A i \in 1..Len(tool_results[r]) :
        tool_results[r][i].got = "rows" =>
            \/ i = Len(tool_results[r])
            \/ recovered[r] = "run" /\ i = Len(tool_results[r]) - 1

\* The result at place of is a SELECT with no generated text between it and n.
Latest(results, of, n) ==
    /\ of \in 1..(n - 1)
    /\ results[of].got = "select"
    /\ \A k \in (of + 1)..(n - 1) : results[k].got \notin {"select", "text"}

\* Generated SQL that was run was the latest one when it was run.
SourceInv(r) ==
    \A n \in 1..Len(tool_results[r]) :
        tool_results[r][n].tool = "execute_sql" /\ tool_results[r][n].of # 0 =>
            Latest(tool_results[r], tool_results[r][n].of, n)

\* LastSqlIsRun, for one request.
LastIsRun(r) ==
    \A i \in 1..Len(tool_results[r]) : LastSelect(r, i) =>
        \/ \E x \in ResultsOf(r) : x.tool = "execute_sql" /\ x.of = i
        \/ \E x \in ResultsOf(r) : x.tool = "execute_sql" /\ x.of = 0 /\ x.got = "rows"
        \/ recovered[r] = "raised"

RequestInv(r) ==
    /\ RowsEnd(r)
    /\ SourceInv(r)
    /\ pc[r] = "chain" =>
        Latest(tool_results[r], Len(tool_results[r]), Len(tool_results[r]) + 1)
    /\ pc[r] \in {"idle", "client"} => iteration[r] = 0
    /\ pc[r] \in {"idle", "client", "plan", "chain"} => ~stop[r]
    /\ pc[r] \in {"idle", "client", "plan", "chain", "tools", "recover"} => recovered[r] = "no"
    /\ pc[r] \in {"idle", "client", "plan", "chain"} \/ (pc[r] = "tools" /\ ~stop[r]) =>
        NoRows(r, Len(tool_results[r]))
    /\ pc[r] = "done" => (answer[r] = "llm" <=> HasRows(r))
    /\ pc[r] \in {"synthesis", "done"} => LastIsRun(r)

\* Only a step that fails leaves a row of a real step running.
RunningInv(r) == pc[r] # "failed" => running[r] \subseteq {"other"}

IInv == TypeOK /\ \A r \in Requests : RequestInv(r) /\ RunningInv(r)

\* Nothing RequestInv speaks of changes for t.
Same(t) ==
    /\ pc'[t] = pc[t]
    /\ iteration'[t] = iteration[t]
    /\ tool_results'[t] = tool_results[t]
    /\ stop'[t] = stop[t]
    /\ answer'[t] = answer[t]
    /\ recovered'[t] = recovered[t]

\* A step that records nothing leaves alone what is said of the results.
LEMMA ResultsKept ==
    ASSUME NEW r \in Requests, tool_results'[r] = tool_results[r]
    PROVE  /\ HasRows(r)' <=> HasRows(r)
           /\ SourceInv(r)' <=> SourceInv(r)
           /\ recovered'[r] = recovered[r] => (LastIsRun(r)' <=> LastIsRun(r))
  <1>1. \A i : LastSelect(r, i)' <=> LastSelect(r, i)
    BY DEF LastSelect, LatestSelect
  <1>2. ResultsOf(r)' = ResultsOf(r)
    BY DEF ResultsOf
  <1> QED BY <1>1, <1>2 DEF HasRows, SourceInv, LastIsRun

LEMMA InitInv == Init => IInv
  BY QueryAgentAssumption
     DEF Init, IInv, TypeOK, RequestInv, RowsEnd, SourceInv, NoRows, RunningInv, Pcs, Answers

\* A request nothing happens to keeps its invariant.
LEMMA Frame ==
    ASSUME NEW t \in Requests, RequestInv(t), Same(t)
    PROVE  RequestInv(t)'
  BY ResultsKept DEF RequestInv, RowsEnd, NoRows, Same

\* What a tool may have recorded.
LEMMA RecordType ==
    ASSUME TypeOK, NEW r \in Requests, NEW result \in Results, Record(r, result)
    PROVE  /\ tool_results' \in [Requests -> Seq(Results)]
           /\ tool_results'[r] = Append(tool_results[r], result)
           /\ \A t \in Requests \ {r} : tool_results'[t] = tool_results[t]
  BY DEF TypeOK, Record

\* What the Execution Log may show as running.
LEMMA RunningType ==
    ASSUME TypeOK, NEW r \in Requests, NEW row \in Rows, Start(r, row) \/ Complete(r, row)
    PROVE  running' \in [Requests -> SUBSET Rows]
  <1>1. running \in [Requests -> SUBSET Rows]
    BY DEF TypeOK
  <1>2. running[r] \union {row} \in SUBSET Rows /\ running[r] \ {row} \in SUBSET Rows
    BY <1>1
  <1> QED BY <1>1, <1>2 DEF Start, Complete

\* The calls left after the first one.
LEMMA NextCallType ==
    ASSUME TypeOK, NEW r \in Requests, NEW tool, NextCall(r, tool)
    PROVE  tool_calls' \in [Requests -> Seq(Tools)]
  <1>1. tool_calls[r] \in Seq(Tools) /\ tool_calls[r] # <<>>
    BY DEF TypeOK, NextCall
  <1>2. Tail(tool_calls[r]) \in Seq(Tools)
    BY <1>1
  <1> QED BY <1>2 DEF TypeOK, NextCall

\* A step keeps the types and concerns its own request only.
LEMMA StepType ==
    ASSUME TypeOK, NEW r \in Requests, Step(r), RequestInv(r)
    PROVE  TypeOK' /\ \A t \in Requests \ {r} : Same(t)
  <1> USE QueryAgentAssumption
  <1>1. CASE ClientFails(r) \/ SetRequestLlm(r)
    BY <1>1 DEF TypeOK, ClientFails, SetRequestLlm, Goto, Pcs, Same, shared
  <1>14. CASE SetCurrentQuestion(r)
    <2>1. iteration[r] < MaxIterations
      BY <1>14 DEF SetCurrentQuestion, RequestInv
    <2> QED BY <1>14, <2>1 DEF TypeOK, SetCurrentQuestion, Goto, Pcs, Same
  <1>2. CASE Plan(r)
    <2>1. PICK calls \in Plans :
            /\ tool_calls' = [tool_calls EXCEPT ![r] = calls]
            /\ Goto(r, IF calls = <<>> THEN "recover" ELSE "tools")
      BY <1>2 DEF Plan
    <2>2. calls \in Seq(Tools)
      BY PlansAssumption
    <2> QED BY <1>2, <2>1, <2>2, SMTT(30) DEF Plan, TypeOK, Goto, Pcs, Same, shared
  <1>3. CASE PlanFails(r) \/ SynthesisFails(r)
    <2>1. running' \in [Requests -> SUBSET Rows]
      BY <1>3, RunningType DEF PlanFails, SynthesisFails, Rows
    <2>2. CASE PlanFails(r)
      BY <2>1, <2>2 DEF TypeOK, PlanFails, Goto, Pcs, Same, shared
    <2>3. CASE SynthesisFails(r)
      BY <2>1, <2>3 DEF TypeOK, SynthesisFails, Goto, Pcs, Same, shared
    <2> QED BY <1>3, <2>2, <2>3
  <1>4. CASE UnknownTool(r)
    <2>1. running' \in [Requests -> SUBSET Rows] /\ tool_calls' \in [Requests -> Seq(Tools)]
      BY <1>4, RunningType, NextCallType DEF UnknownTool, Rows, Tools
    <2> QED BY <1>4, <2>1 DEF TypeOK, UnknownTool, Same, shared
  <1>5. CASE ExecuteSql(r)
    <2>1. PICK of \in ResolveSql(r), got \in {"rows", "empty", "failed"} :
            /\ Record(r, [tool |-> "execute_sql", got |-> got, of |-> of])
            /\ stop' = [stop EXCEPT ![r] = got = "rows"]
      BY <1>5 DEF ExecuteSql, RunExecuteSql
    <2>4. of \in Nat
      BY DEF ResolveSql, TypeOK
    <2>2. /\ tool_results' \in [Requests -> Seq(Results)]
          /\ \A t \in Requests \ {r} : tool_results'[t] = tool_results[t]
      BY <2>1, <2>4, RecordType DEF Results
    <2>3. running' \in [Requests -> SUBSET Rows] /\ tool_calls' \in [Requests -> Seq(Tools)]
      BY <1>5, RunningType, NextCallType DEF ExecuteSql, Rows, Tools
    <2> QED BY <1>5, <2>1, <2>2, <2>3 DEF TypeOK, ExecuteSql, Same, shared
  <1>6. CASE SemanticSearch(r)
    <2>1. PICK got \in {"rows", "empty", "failed"} : 
            /\ Record(r, [tool |-> "semantic_search", got |-> got])
            /\ stop' = [stop EXCEPT ![r] = got = "rows"]
      BY <1>6 DEF SemanticSearch
    <2>2. /\ tool_results' \in [Requests -> Seq(Results)]
          /\ \A t \in Requests \ {r} : tool_results'[t] = tool_results[t]
      BY <2>1, RecordType DEF Results
    <2>3. running' \in [Requests -> SUBSET Rows] /\ tool_calls' \in [Requests -> Seq(Tools)]
      BY <1>6, RunningType, NextCallType DEF SemanticSearch, Rows, Tools
    <2> QED BY <1>6, <2>1, <2>2, <2>3 DEF TypeOK, SemanticSearch, Same, shared
  <1>7. CASE GenerateSql(r)
    <2>1. PICK got \in {"select", "text", "blank", "failed"} :
            /\ Record(r, [tool |-> "generate_sql", got |-> got])
            /\ \/ Goto(r, "chain")
               \/ Goto(r, "tools")
      BY <1>7 DEF GenerateSql
    <2>2. /\ tool_results' \in [Requests -> Seq(Results)]
          /\ \A t \in Requests \ {r} : tool_results'[t] = tool_results[t]
      BY <2>1, RecordType DEF Results
    <2>3. running' \in [Requests -> SUBSET Rows] /\ tool_calls' \in [Requests -> Seq(Tools)]
      BY <1>7, RunningType, NextCallType DEF GenerateSql, Rows, Tools
    <2> QED BY <1>7, <2>1, <2>2, <2>3 DEF TypeOK, Same, GenerateSql, Goto, Pcs, shared
  <1>8. CASE AutoChain(r)
    <2>1. PICK got \in {"rows", "empty", "failed"} :
            /\ Record(r, [tool |-> "execute_sql", got |-> got, of |-> Len(tool_results[r])])
            /\ stop' = [stop EXCEPT ![r] = got = "rows"]
      BY <1>8 DEF AutoChain, RunExecuteSql
    <2>2. /\ tool_results' \in [Requests -> Seq(Results)]
          /\ \A t \in Requests \ {r} : tool_results'[t] = tool_results[t]
      BY <2>1, RecordType, SMTT(30) DEF Results, TypeOK
    <2> QED BY <1>8, <2>1, <2>2 DEF TypeOK, AutoChain, RunExecuteSql, Complete, Same, Goto, Pcs, shared
  <1>9. CASE ToolRaises(r)
    <2>1. running' \in [Requests -> SUBSET Rows]
      BY <1>9, RunningType DEF ToolRaises, Rows, Tools
    <2>2. tool_calls' \in [Requests -> Seq(Tools)]
      BY <1>9, NextCallType DEF ToolRaises, TypeOK
    <2> QED BY <1>9, <2>1, <2>2 DEF TypeOK, ToolRaises, Same, Goto, Pcs, shared
  <1>10. CASE EndIteration(r)
    BY <1>10 DEF TypeOK, EndIteration, Same, Goto, Pcs, shared
  <1>11. CASE Recover(r)
    <2>1. ASSUME NEW got \in {"rows", "empty", "failed"}, NEW of \in 1..Len(tool_results[r]),
                 Record(r, [tool |-> "execute_sql", got |-> got, of |-> of])
          PROVE  /\ tool_results' \in [Requests -> Seq(Results)]
                 /\ \A t \in Requests \ {r} : tool_results'[t] = tool_results[t]
      BY <2>1, RecordType DEF Results
    <2>2. /\ tool_results' \in [Requests -> Seq(Results)]
          /\ \A t \in Requests \ {r} : tool_results'[t] = tool_results[t]
          /\ running' \in [Requests -> SUBSET Rows]
      BY <1>11, <2>1, RunningType DEF Recover, TypeOK, Rows, Tools
    <2> QED BY <1>11, <2>2 DEF TypeOK, Recover, Same, Goto, Pcs, shared
  <1>12. CASE SkipRecovery(r)
    BY <1>12 DEF TypeOK, SkipRecovery, Same, Goto, Pcs, shared
  <1>13. CASE Synthesize(r)
    BY <1>13 DEF TypeOK, Synthesize, FinalAnswer, Answers, Complete, Same, Goto, Pcs, shared
  <1> QED BY <1>1, <1>2, <1>3, <1>4, <1>5, <1>6, <1>7, <1>8, <1>9, <1>10, <1>11, <1>12,
             <1>13, <1>14 DEF Step

\* A result is recorded only while there are no rows yet.
LEMMA RecordInv ==
    ASSUME TypeOK, NEW r \in Requests, RequestInv(r), NEW result \in Results,
           Record(r, result), NoRows(r, Len(tool_results[r]))
    PROVE  /\ RowsEnd(r)'
           /\ result.got # "rows" => NoRows(r, Len(tool_results[r]))'
  <1> DEFINE s == tool_results[r]
  <1>1. s \in Seq(Results)
    BY DEF TypeOK
  <1>2. tool_results'[r] = Append(s, result)
    BY RecordType
  <1>3. /\ Len(tool_results'[r]) = Len(s) + 1
        /\ \A i \in 1..Len(s) : tool_results'[r][i] = s[i]
        /\ tool_results'[r][Len(s) + 1] = result
    BY <1>1, <1>2
  <1> QED BY <1>1, <1>3, SMTT(30) DEF RowsEnd, NoRows

\* An execute_sql takes the latest SQL there is, or SQL of its own.
LEMMA RecordSource ==
    ASSUME TypeOK, NEW r \in Requests, SourceInv(r), NEW result \in Results, Record(r, result),
           result.tool = "execute_sql" /\ result.of # 0 =>
               Latest(tool_results[r], result.of, Len(tool_results[r]) + 1)
    PROVE  /\ SourceInv(r)'
           /\ result.got = "select" =>
                Latest(tool_results[r], Len(tool_results[r]), Len(tool_results[r]) + 1)'
  <1> DEFINE s == tool_results[r]
             t == tool_results'[r]
             n == Len(s) + 1
  <1>1. s \in Seq(Results) /\ Len(s) \in Nat
    BY DEF TypeOK
  <1>2. t = Append(s, result)
    BY RecordType
  <1>3. Len(t) = n /\ (\A i \in 1..Len(s) : t[i] = s[i]) /\ t[n] = result
    BY <1>1, <1>2
  <1> HIDE DEF s, t, n
  <1>n. n = Len(s) + 1
    BY DEF n
  <1>4. ASSUME NEW m \in 1..n, NEW of, Latest(s, of, m)
        PROVE  Latest(t, of, m)
    <2>1. of \in 1..Len(s) /\ \A k \in (of + 1)..(m - 1) : k \in 1..Len(s)
      BY <1>1, <1>4, <1>n DEF Latest
    <2> QED BY <1>3, <1>4, <2>1 DEF Latest
  <1>5. ASSUME NEW m \in 1..n, t[m].tool = "execute_sql", t[m].of # 0
        PROVE  Latest(t, t[m].of, m)
    <2>1. CASE m = n
      <3>1. Latest(s, result.of, n)
        BY <1>3, <1>5, <2>1 DEF s, n
      <3> QED BY <1>1, <1>3, <1>4, <1>n, <2>1, <3>1
    <2>2. CASE m # n
      <3>1. m \in 1..Len(s) /\ t[m] = s[m]
        BY <1>1, <1>3, <1>n, <2>2
      <3>2. Latest(s, s[m].of, m)
        BY <1>5, <3>1 DEF SourceInv, s
      <3> QED BY <1>4, <3>1, <3>2
    <2> QED BY <2>1, <2>2
  <1>6. SourceInv(r)'
    BY <1>3, <1>5 DEF SourceInv, t
  <1>7. result.got = "select" => Latest(t, Len(t), Len(t) + 1)
    BY <1>1, <1>3, <1>n DEF Latest
  <1> QED BY <1>6, <1>7 DEF t

\* Without rows of generated SQL that was run last, the post-loop execution is due.
LEMMA NoRecoveryDue ==
    ASSUME TypeOK, NEW r \in Requests, RequestInv(r), recovered[r] = "no", ~NeedsRecovery(r)
    PROVE  LastIsRun(r)
  <1> SUFFICES ASSUME NEW i \in 1..Len(tool_results[r]), LastSelect(r, i)
               PROVE  \E x \in ResultsOf(r) : /\ x.tool = "execute_sql"
                                              /\ x.of = i \/ (x.of = 0 /\ x.got = "rows")
    BY DEF LastIsRun
  <1>1. tool_results[r] \in Seq(Results) /\ Len(tool_results[r]) \in Nat
    BY DEF TypeOK
  <1>2. HasSqlRows(r)
    BY DEF NeedsRecovery, LastSqlExecutable
  <1>3. PICK j \in 1..Len(tool_results[r]) :
          tool_results[r][j].tool = "execute_sql" /\ tool_results[r][j].got = "rows"
    BY <1>2 DEF HasSqlRows, ResultsOf
  <1>4. j = Len(tool_results[r])
    BY <1>3 DEF RequestInv, RowsEnd
  <1>5. /\ tool_results[r][i].got = "select"
        /\ \A k \in (i + 1)..Len(tool_results[r]) :
              tool_results[r][k].got \notin {"select", "text", "blank"}
    BY DEF LastSelect, LatestSelect
  <1> DEFINE of == tool_results[r][j].of
  <1>6. tool_results[r][j] \in ResultsOf(r)
    BY DEF ResultsOf
  <1>7. CASE of = 0
    BY <1>3, <1>6, <1>7
  <1>8. CASE of # 0
    <2>1. Latest(tool_results[r], of, j)
      BY <1>3, <1>8 DEF RequestInv, SourceInv
    <2>2. /\ of \in 1..(j - 1) /\ tool_results[r][of].got = "select"
          /\ \A k \in (of + 1)..(j - 1) : tool_results[r][k].got \notin {"select", "text"}
      BY <2>1 DEF Latest
    <2>3. i < j
      BY <1>1, <1>3, <1>4, <1>5
    <2>4. ~(i < of) /\ ~(of < i)
      BY <1>1, <1>4, <1>5, <2>2, <2>3
    <2>5. i = of
      BY <1>1, <2>2, <2>4
    <2> QED BY <1>3, <1>6, <2>5
  <1> QED BY <1>7, <1>8

\* A step of a request keeps its invariant.
LEMMA StepInv ==
    ASSUME IInv, NEW r \in Requests, Step(r)
    PROVE  RequestInv(r)'
  <1> USE DEF IInv
  <1>0. TypeOK /\ RequestInv(r)
    OBVIOUS
  <1>n. Len(tool_results[r]) \in Nat
    BY DEF TypeOK
  <1>1. CASE ClientFails(r) \/ SetRequestLlm(r) \/ SetCurrentQuestion(r) \/ PlanFails(r)
             \/ SynthesisFails(r) \/ UnknownTool(r) \/ ToolRaises(r)
    <2>1. tool_results' = tool_results /\ recovered' = recovered
      BY <1>1 DEF ClientFails, SetRequestLlm, SetCurrentQuestion, PlanFails, SynthesisFails,
         UnknownTool, ToolRaises, shared
    <2>2. /\ SourceInv(r)' <=> SourceInv(r)
          /\ pc'[r] \notin {"synthesis", "done", "chain"}
      BY <1>0, <1>1, <2>1, ResultsKept
         DEF TypeOK, ClientFails, SetRequestLlm, SetCurrentQuestion, PlanFails,
             SynthesisFails, UnknownTool, NextCall, ToolRaises, Goto
    <2> QED BY <1>0, <1>1, <2>1, <2>2
            DEF TypeOK, RequestInv, RowsEnd, NoRows, ClientFails, SetRequestLlm,
                SetCurrentQuestion, PlanFails, SynthesisFails, UnknownTool, NextCall,
                ToolRaises, Goto, shared
  <1>12. CASE SkipRecovery(r)
    <2>1. /\ tool_results' = tool_results /\ recovered' = recovered /\ ~NeedsRecovery(r)
          /\ pc[r] = "recover" /\ pc'[r] = "synthesis"
      BY <1>0, <1>12 DEF SkipRecovery, Goto, TypeOK
    <2>2. recovered[r] = "no"
      BY <1>0, <2>1 DEF RequestInv
    <2>3. LastIsRun(r)
      BY <1>0, <2>1, <2>2, NoRecoveryDue
    <2>4. LastIsRun(r)' /\ SourceInv(r)'
      BY <1>0, <2>1, <2>3, ResultsKept DEF RequestInv
    <2> QED BY <1>0, <2>1, <2>4 DEF RequestInv, RowsEnd
  <1>2. CASE Plan(r)
    <2>1. pc'[r] \in {"recover", "tools"}
      BY <1>2 DEF Plan, Goto, TypeOK
    <2>2. SourceInv(r)'
      BY <1>0, <1>2, ResultsKept DEF Plan, RequestInv
    <2> QED BY <1>0, <1>2, <2>1, <2>2
            DEF Plan, TypeOK, RequestInv, RowsEnd, NoRows, HasRows, ResultsOf
  <1>3. CASE ExecuteSql(r)
    <2>1. PICK of \in ResolveSql(r), got \in {"rows", "empty", "failed"} :
            /\ Record(r, [tool |-> "execute_sql", got |-> got, of |-> of])
            /\ stop' = [stop EXCEPT ![r] = got = "rows"]
      BY <1>3 DEF ExecuteSql, RunExecuteSql
    <2>2. of \in Nat /\ (of # 0 => Latest(tool_results[r], of, Len(tool_results[r]) + 1))
      BY <1>n DEF ResolveSql, LatestSelect, Latest
    <2>3. [tool |-> "execute_sql", got |-> got, of |-> of] \in Results
      BY <2>2 DEF Results
    <2>4. SourceInv(r)'
      BY <1>0, <2>1, <2>2, <2>3, RecordSource DEF RequestInv
    <2>5. pc[r] = "tools" /\ ~stop[r] /\ NoRows(r, Len(tool_results[r]))
      BY <1>0, <1>3 DEF ExecuteSql, NextCall, RequestInv
    <2>6. RowsEnd(r)' /\ (got # "rows" => NoRows(r, Len(tool_results[r]))')
      BY <1>0, <2>1, <2>3, <2>5, RecordInv
    <2> QED BY <1>0, <1>3, <2>1, <2>4, <2>5, <2>6 DEF TypeOK, ExecuteSql, RequestInv
  <1>4. CASE SemanticSearch(r)
    <2>1. PICK got \in {"rows", "empty", "failed"} :
            /\ Record(r, [tool |-> "semantic_search", got |-> got])
            /\ stop' = [stop EXCEPT ![r] = got = "rows"]
      BY <1>4 DEF SemanticSearch
    <2>2. [tool |-> "semantic_search", got |-> got] \in Results
      BY DEF Results
    <2>3. SourceInv(r)'
      BY <1>0, <2>1, <2>2, RecordSource DEF RequestInv
    <2>4. pc[r] = "tools" /\ ~stop[r] /\ NoRows(r, Len(tool_results[r]))
      BY <1>0, <1>4 DEF SemanticSearch, NextCall, RequestInv
    <2>5. RowsEnd(r)' /\ (got # "rows" => NoRows(r, Len(tool_results[r]))')
      BY <1>0, <2>1, <2>2, <2>4, RecordInv
    <2> QED BY <1>0, <1>4, <2>1, <2>3, <2>4, <2>5 DEF TypeOK, SemanticSearch, RequestInv
  <1>5. CASE GenerateSql(r)
    <2>1. PICK got \in {"select", "text", "blank", "failed"} :
            /\ Record(r, [tool |-> "generate_sql", got |-> got])
            /\ pc'[r] = "tools" \/ (pc'[r] = "chain" /\ got = "select")
      BY <1>0, <1>5 DEF GenerateSql, Goto, TypeOK
    <2>2. [tool |-> "generate_sql", got |-> got] \in Results
      BY DEF Results
    <2>3. /\ SourceInv(r)'
          /\ got = "select" =>
                Latest(tool_results[r], Len(tool_results[r]), Len(tool_results[r]) + 1)'
      BY <1>0, <2>1, <2>2, RecordSource DEF RequestInv
    <2>4. pc[r] = "tools" /\ ~stop[r] /\ NoRows(r, Len(tool_results[r]))
      BY <1>0, <1>5 DEF GenerateSql, NextCall, RequestInv
    <2>5. RowsEnd(r)' /\ NoRows(r, Len(tool_results[r]))'
      BY <1>0, <2>1, <2>2, <2>4, RecordInv
    <2>6. UNCHANGED <<iteration, stop, answer, recovered>>
      BY <1>5 DEF GenerateSql
    <2>7. recovered[r] = "no" /\ ~stop[r]
      BY <1>0, <2>4 DEF RequestInv
    <2> QED BY <2>1, <2>3, <2>5, <2>6, <2>7 DEF RequestInv
  <1>6. CASE AutoChain(r)
    <2>1. PICK got \in {"rows", "empty", "failed"} :
            /\ Record(r, [tool |-> "execute_sql", got |-> got, of |-> Len(tool_results[r])])
            /\ stop' = [stop EXCEPT ![r] = got = "rows"]
      BY <1>6 DEF AutoChain, RunExecuteSql
    <2>2. [tool |-> "execute_sql", got |-> got, of |-> Len(tool_results[r])] \in Results
      BY <1>n DEF Results
    <2>3. pc[r] = "chain" /\ pc'[r] = "tools"
      BY <1>0, <1>6 DEF AutoChain, Goto, TypeOK
    <2>4. /\ NoRows(r, Len(tool_results[r])) /\ recovered[r] = "no"
          /\ Latest(tool_results[r], Len(tool_results[r]), Len(tool_results[r]) + 1)
      BY <1>0, <2>3 DEF RequestInv
    <2>5. SourceInv(r)'
      BY <1>0, <2>1, <2>2, <2>4, RecordSource DEF RequestInv
    <2>6. RowsEnd(r)' /\ (got # "rows" => NoRows(r, Len(tool_results[r]))')
      BY <1>0, <2>1, <2>2, <2>4, RecordInv
    <2> QED BY <1>0, <1>6, <2>1, <2>3, <2>4, <2>5, <2>6 DEF TypeOK, AutoChain, RequestInv
  <1>7. CASE EndIteration(r)
    <2>1. SourceInv(r)' /\ pc'[r] \in {"recover", "plan"}
      BY <1>0, <1>7, ResultsKept DEF EndIteration, RequestInv, Goto, TypeOK
    <2> QED BY <1>0, <1>7, <2>1
            DEF TypeOK, EndIteration, RequestInv, RowsEnd, NoRows, HasRows, ResultsOf, Goto
  <1>8. CASE Recover(r)
    <2>1. /\ pc[r] = "recover" /\ pc'[r] = "synthesis" /\ recovered[r] = "no"
          /\ UNCHANGED <<iteration, stop, answer>>
      BY <1>0, <1>8 DEF Recover, Goto, TypeOK, RequestInv
    <2>2. CASE UNCHANGED tool_results /\ recovered'[r] = "raised"
      <3>1. SourceInv(r)' /\ LastIsRun(r)'
        BY <1>0, <2>2, ResultsKept DEF RequestInv, LastIsRun
      <3> QED BY <1>0, <2>1, <2>2, <3>1 DEF RequestInv, RowsEnd
    <2>3. ASSUME NEW got \in {"rows", "empty", "failed"}, NEW of \in 1..Len(tool_results[r]),
                 LastSelect(r, of), recovered'[r] = "run",
                 Record(r, [tool |-> "execute_sql", got |-> got, of |-> of])
          PROVE  RequestInv(r)'
      <3> DEFINE s == tool_results[r]
                 result == [tool |-> "execute_sql", got |-> got, of |-> of]
      <3>1. s \in Seq(Results) /\ result \in Results
        BY <1>0, <1>n, <2>3 DEF TypeOK, Results
      <3>2. tool_results'[r] = Append(s, result)
        BY <1>0, <2>3, <3>1, RecordType
      <3>3. /\ Len(tool_results'[r]) = Len(s) + 1
            /\ \A i \in 1..Len(s) : tool_results'[r][i] = s[i]
            /\ tool_results'[r][Len(s) + 1] = result
        BY <3>1, <3>2
      <3>4. \A i \in 1..Len(s) : s[i].got = "rows" => i = Len(s)
        BY <1>0, <2>1 DEF RequestInv, RowsEnd
      <3>5. RowsEnd(r)'
        BY <1>n, <2>3, <3>1, <3>3, <3>4, SMTT(30) DEF RowsEnd
      <3>6. Latest(s, of, Len(s) + 1)
        BY <1>n, <2>3 DEF LastSelect, LatestSelect, Latest
      <3>7. SourceInv(r)'
        BY <1>0, <2>3, <3>1, <3>6, RecordSource DEF RequestInv
      <3>8. ASSUME NEW i \in 1..(Len(s) + 1), LastSelect(r, i)'
            PROVE  i = of
        <4>1. /\ tool_results'[r][i].got = "select"
              /\ \A j \in (i + 1)..(Len(s) + 1) :
                    tool_results'[r][j].got \notin {"select", "text", "blank"}
          BY <3>3, <3>8 DEF LastSelect, LatestSelect
        <4>2. i \in 1..Len(s)
          BY <1>n, <3>3, <4>1
        <4>3. /\ s[of].got = "select" /\ s[i].got = "select"
              /\ \A j \in (of + 1)..Len(s) : s[j].got # "select"
              /\ \A j \in (i + 1)..Len(s) : s[j].got # "select"
          BY <1>n, <2>3, <3>3, <4>1, <4>2 DEF LastSelect, LatestSelect
        <4> QED BY <1>n, <4>2, <4>3
      <3>9. result \in ResultsOf(r)'
        BY <1>n, <3>3 DEF ResultsOf
      <3>10. LastIsRun(r)'
        BY <3>3, <3>8, <3>9 DEF LastIsRun
      <3> QED BY <2>1, <2>3, <3>5, <3>7, <3>10 DEF RequestInv
    <2>4. recovered \in [Requests -> {"no", "run", "raised"}]
      BY <1>0 DEF TypeOK
    <2> QED BY <1>8, <2>2, <2>3, <2>4 DEF Recover
  <1>9. CASE Synthesize(r)
    <2>1. /\ pc'[r] = "done" /\ answer'[r] = FinalAnswer(r) /\ pc[r] = "synthesis"
          /\ UNCHANGED <<tool_results, recovered>>
      BY <1>9 DEF Synthesize, Goto, TypeOK
    <2>2. FinalAnswer(r) = "llm" <=> HasRows(r)
      BY DEF FinalAnswer
    <2>3. (HasRows(r)' <=> HasRows(r)) /\ SourceInv(r)' /\ LastIsRun(r)'
      BY <1>0, <2>1, ResultsKept DEF RequestInv
    <2> QED BY <1>0, <2>1, <2>2, <2>3 DEF RequestInv, RowsEnd
  <1> QED BY <1>1, <1>2, <1>3, <1>4, <1>5, <1>6, <1>7, <1>8, <1>9, <1>12 DEF Step

\* A row is left running by the steps that fail and by UnknownTool only.
LEMMA StepRunningInv ==
    ASSUME IInv, NEW r \in Requests, Step(r)
    PROVE  \A t \in Requests : RunningInv(t)'
  <1>0. /\ running \in [Requests -> SUBSET Rows] /\ pc \in [Requests -> Pcs]
        /\ \A t \in Requests : RunningInv(t)
    BY DEF IInv, TypeOK
  <1>1. \A t \in Requests \ {r} : pc'[t] = pc[t]
    BY StepType DEF IInv, Same
  <1>2. CASE PlanFails(r) \/ SynthesisFails(r) \/ ToolRaises(r)
    <2>1. pc'[r] = "failed"
      BY <1>0, <1>2 DEF PlanFails, SynthesisFails, ToolRaises, Goto
    <2>2. \A t \in Requests \ {r} : running'[t] = running[t]
      BY <1>0, <1>2 DEF PlanFails, SynthesisFails, ToolRaises, Start
    <2> QED BY <1>0, <1>1, <2>1, <2>2 DEF RunningInv
  <1>3. CASE UnknownTool(r)
    <2>1. /\ pc' = pc /\ pc[r] = "tools"
          /\ running' = [running EXCEPT ![r] = @ \union {"other"}]
      BY <1>3 DEF UnknownTool, NextCall, Start
    <2> QED BY <1>0, <2>1 DEF RunningInv
  <1>4. ASSUME pc[r] # "failed", NEW row, Complete(r, row) \/ UNCHANGED running
        PROVE  \A t \in Requests : RunningInv(t)'
    <2>1. \A t \in Requests : running'[t] \subseteq running[t]
      BY <1>0, <1>4 DEF Complete
    <2> QED BY <1>0, <1>1, <1>4, <2>1 DEF RunningInv
  <1>5. CASE \/ ClientFails(r) \/ SetRequestLlm(r) \/ SetCurrentQuestion(r) \/ Plan(r)
             \/ EndIteration(r) \/ SkipRecovery(r)
    BY <1>4, <1>5 DEF ClientFails, SetRequestLlm, SetCurrentQuestion, Plan, EndIteration, SkipRecovery
  <1>6. CASE \/ ExecuteSql(r) \/ SemanticSearch(r) \/ GenerateSql(r) \/ AutoChain(r)
             \/ Recover(r) \/ Synthesize(r)
    BY <1>4, <1>6 DEF ExecuteSql, SemanticSearch, GenerateSql, AutoChain, Recover, Synthesize, NextCall
  <1> QED BY <1>2, <1>3, <1>5, <1>6 DEF Step

LEMMA NextInv == IInv /\ [Next]_vars => IInv'
  <1> SUFFICES ASSUME IInv, [Next]_vars PROVE IInv'
    OBVIOUS
  <1>1. CASE \E r \in Requests : Step(r)
    <2>1. PICK r \in Requests : Step(r)
      BY <1>1
    <2>2. TypeOK' /\ \A t \in Requests \ {r} : Same(t)
      BY <2>1, StepType DEF IInv
    <2>3. \A t \in Requests \ {r} : RequestInv(t)'
      BY <2>2, Frame DEF IInv
    <2>4. \A t \in Requests : RunningInv(t)'
      BY <2>1, StepRunningInv
    <2> QED BY <2>1, <2>2, <2>3, <2>4, StepInv DEF IInv
  <1>2. CASE UNCHANGED vars
    <2>1. TypeOK'
      BY <1>2 DEF IInv, TypeOK, vars, shared
    <2>2. \A t \in Requests : RequestInv(t)'
      BY <1>2, Frame DEF IInv, vars, Same
    <2>3. \A t \in Requests : RunningInv(t)'
      BY <1>2 DEF IInv, vars, RunningInv
    <2> QED BY <2>1, <2>2, <2>3 DEF IInv
  <1> QED BY <1>1, <1>2 DEF Next, AllOver

LEMMA Invariance == Spec => []IInv
  BY InitInv, NextInv, PTL DEF Spec

\* Types, and a round is only planned while there is one left.
THEOREM TypeCorrect == Spec => []TypeOK
  <1>1. IInv => TypeOK
    BY DEF IInv
  <1> QED BY <1>1, Invariance, PTL

\* The search stops at the first rows, however long the plans are.
THEOREM SearchEnds == Spec => []RowsEndTheSearch
  <1>1. IInv => RowsEndTheSearch
    BY DEF IInv, RequestInv, RowsEnd, RowsEndTheSearch
  <1> QED BY <1>1, Invariance, PTL

\* An answer is a text of the LLM exactly when it was given rows.
THEOREM AnswerGrounded == Spec => []GroundedAnswer
  <1>1. IInv => GroundedAnswer
    BY DEF IInv, RequestInv, GroundedAnswer
  <1> QED BY <1>1, Invariance, PTL

\* Whatever the plans were and whatever SQL their calls named, the SQL generated
\* last was run, or rows of the planner's own SELECT stand in its place.
THEOREM LastSqlRun == Spec => []LastSqlIsRun
  <1>1. IInv => LastSqlIsRun
    BY DEF IInv, RequestInv, LastIsRun, LastSqlIsRun
  <1> QED BY <1>1, Invariance, PTL

\* Of an answered request nothing is left running but names that are no tool.
THEOREM OnlyUnknownRuns == Spec => []OnlyUnknownLeftRunning
  <1>1. IInv => OnlyUnknownLeftRunning
    BY DEF IInv, RunningInv, OnlyUnknownLeftRunning
  <1> QED BY <1>1, Invariance, PTL
=============================================================================
