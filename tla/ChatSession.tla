---------------------------- MODULE ChatSession ----------------------------
(***************************************************************************)
(* The chat panel of core_app/frontend/src/App.tsx in front of             *)
(* QueryStream: sendQuery opens an EventSource on /query/stream, and the   *)
(* listeners turn its events into chat messages.                           *)
(*                                                                         *)
(* JavaScript runs one handler at a time, so a handler is one action. The  *)
(* browser dispatches the events of a stream in the order they were        *)
(* yielded, and none once the page has called close().                     *)
(***************************************************************************)
EXTENDS QueryStream

VARIABLES
    es,             \* readyState of the EventSource of each question
    seen,           \* how many yielded events the browser dispatched
    isStreaming,    \* executionState.isStreaming, and loading which follows it
    mounted,        \* the page is open
    answers,        \* how many assistant messages carry an answer
    notices         \* which failure texts were appended as assistant messages

chatVars == <<es, seen, isStreaming, mounted, answers, notices>>
allVars == <<vars, chatVars>>

\* "Sorry, an error occurred: ...", "Sorry, something went wrong ...",
\* "Sorry, the connection was interrupted ..."
Notices == {"server_error", "went_wrong", "interrupted"}

ChatTypeOK ==
    /\ es \in [Streams -> {"none", "open", "closed"}]
    /\ seen \in [Streams -> Nat]
    /\ isStreaming \in BOOLEAN
    /\ mounted \in BOOLEAN
    /\ answers \in [Streams -> Nat]
    /\ notices \in [Streams -> SUBSET Notices]
    /\ \A s \in Streams : seen[s] <= written[s]
    /\ ~mounted => \A s \in Streams : es[s] # "open"

ChatInit ==
    /\ Init
    /\ es = [s \in Streams |-> "none"]
    /\ seen = [s \in Streams |-> 0]
    /\ isStreaming = FALSE
    /\ mounted = TRUE
    /\ answers = [s \in Streams |-> 0]
    /\ notices = [s \in Streams |-> {}]

----------------------------------------------------------------------------
\* close() drops the connection of s if it has one.
CloseConn(s) ==
    conn' = [conn EXCEPT ![s] = IF @ = "open" THEN "closed" ELSE @]

ServerUnchanged == UNCHANGED <<agentPc, genPc, log, taken, written, agent_complete>>

\* Mutant: the form can be submitted while a stream is open.
SendQuery_NoLock(s) ==
    /\ mounted
    /\ es[s] = "none"
    /\ es' = [t \in Streams |->
                IF t = s THEN "open" ELSE IF es[t] = "open" THEN "closed" ELSE es[t]]
    /\ conn' = [t \in Streams |->
                IF es[t] = "open" /\ conn[t] = "open" THEN "closed" ELSE conn[t]]
    /\ isStreaming' = TRUE
    /\ UNCHANGED <<seen, mounted, answers, notices>>
    /\ ServerUnchanged

\* The user submits a question; the form is dead while one is streaming. A
\* stream still referenced by eventSourceRef is closed first.
SendQuery(s) ==
    /\ mounted
    /\ ~isStreaming
    /\ es[s] = "none"
    /\ es' = [t \in Streams |->
                IF t = s THEN "open" ELSE IF es[t] = "open" THEN "closed" ELSE es[t]]
    /\ conn' = [t \in Streams |->
                IF es[t] = "open" /\ conn[t] = "open" THEN "closed" ELSE conn[t]]
    /\ isStreaming' = TRUE
    /\ UNCHANGED <<seen, mounted, answers, notices>>
    /\ ServerUnchanged

\* The next event the browser has received on an open stream.
Received(s, kind) ==
    /\ es[s] = "open"
    /\ conn[s] = "open"
    /\ seen[s] < written[s]
    /\ log[s][seen[s] + 1] = kind
    /\ seen' = [seen EXCEPT ![s] = @ + 1]

OnProgress(s) ==
    /\ Received(s, "progress")
    /\ UNCHANGED <<es, isStreaming, mounted, answers, notices, vars>>

\* Mutant: the listener leaves the stream open.
OnComplete_NoClose(s) ==
    /\ Received(s, "complete")
    /\ answers' = [answers EXCEPT ![s] = @ + 1]
    /\ isStreaming' = FALSE
    /\ UNCHANGED <<es, conn, mounted, notices>>
    /\ ServerUnchanged

\* Mutant: the listener leaves isStreaming on.
OnComplete_KeepLock(s) ==
    /\ Received(s, "complete")
    /\ answers' = [answers EXCEPT ![s] = @ + 1]
    /\ es' = [es EXCEPT ![s] = "closed"]
    /\ CloseConn(s)
    /\ UNCHANGED <<isStreaming, mounted, notices>>
    /\ ServerUnchanged

OnComplete(s) ==
    /\ Received(s, "complete")
    /\ answers' = [answers EXCEPT ![s] = @ + 1]
    /\ isStreaming' = FALSE
    /\ es' = [es EXCEPT ![s] = "closed"]
    /\ CloseConn(s)
    /\ UNCHANGED <<mounted, notices>>
    /\ ServerUnchanged

\* Both the "error" listener and onerror run, whatever fired the event: close()
\* in the first does not stop the dispatch to the second.
Failure(s, listenerNotice) ==
    /\ notices' = [notices EXCEPT ![s] = @ \union {listenerNotice, "interrupted"}]
    /\ isStreaming' = FALSE
    /\ es' = [es EXCEPT ![s] = "closed"]
    /\ CloseConn(s)
    /\ UNCHANGED <<mounted, answers>>
    /\ ServerUnchanged

\* An event the server named "error": its data parses.
OnServerError(s) ==
    /\ Received(s, "error")
    /\ Failure(s, "server_error")

\* The browser fires its own "error" event, with no data to parse: the request
\* was refused, the connection was lost, or the response ended.
OnConnectionError(s) ==
    /\ es[s] = "open"
    /\ \/ conn[s] \in {"refused", "closed"}
       \/ genPc[s] \in Ended /\ seen[s] = written[s]
    /\ Failure(s, "went_wrong")
    /\ UNCHANGED seen

\* The page is left: the effect that unmounts App closes the stream.
Unmount ==
    /\ mounted
    /\ mounted' = FALSE
    /\ isStreaming' = FALSE
    /\ es' = [s \in Streams |-> IF es[s] = "open" THEN "closed" ELSE es[s]]
    /\ conn' = [s \in Streams |->
                IF es[s] = "open" /\ conn[s] = "open" THEN "closed" ELSE conn[s]]
    /\ UNCHANGED <<seen, answers, notices>>
    /\ ServerUnchanged

Browser(s) ==
    OnProgress(s) \/ OnComplete(s) \/ OnServerError(s) \/ OnConnectionError(s)

----------------------------------------------------------------------------
\* The server accepts or refuses a request that was sent; the network may lose
\* a connection at any time.
Accept(s) == es[s] # "none" /\ (Open(s) \/ Refuse(s)) /\ UNCHANGED chatVars

Server(s) == (Agent(s) \/ Generator(s)) /\ UNCHANGED chatVars

Lose(s) == Disconnect(s) /\ UNCHANGED chatVars

SessionOver ==
    /\ \A s \in Streams : es[s] # "none" \/ ~mounted
    /\ \A s \in Streams : es[s] # "open"
    /\ \A s \in Streams :
        es[s] = "none" \/ conn[s] = "refused" \/ (agentPc[s] = "exited" /\ genPc[s] \in Ended)
    /\ UNCHANGED allVars

ChatNext ==
    \/ \E s \in Streams :
        SendQuery(s) \/ Browser(s) \/ Accept(s) \/ Server(s) \/ Lose(s)
    \/ Unmount
    \/ SessionOver

\* A request that was sent is handled; the browser dispatches what it receives
\* and notices a connection that is gone; the server's threads are scheduled.
ChatFairness ==
    \A s \in Streams :
        /\ WF_allVars(Accept(s))
        /\ WF_allVars(Browser(s))
        /\ WF_allVars(Agent(s) /\ UNCHANGED chatVars)
        /\ WF_allVars(Generator(s) /\ UNCHANGED chatVars)

ChatSpec == ChatInit /\ [][ChatNext]_allVars /\ ChatFairness

----------------------------------------------------------------------------
\* Properties.

\* The run sends "complete" twice, yet one question never gets two answers, nor
\* an answer and a failure notice: close() comes before the second event.
OneAnswer ==
    \A s \in Streams :
        /\ answers[s] <= 1
        /\ answers[s] = 1 => notices[s] = {}

\* The form is locked exactly while a stream is open, and at most one is: the
\* lock is neither left on by a stream that ended nor lifted under a live one.
LockedWhileOpen ==
    /\ isStreaming <=> \E s \in Streams : es[s] = "open"
    /\ \A s, t \in Streams : es[s] = "open" /\ es[t] = "open" => s = t

\* A stream the generator drained is never reported as a lost connection: its
\* verdict is dispatched before the browser sees the response end. Only a
\* refused request, a connection that is gone and the poll can end that way.
DrainedIsNoConnectionError ==
    [][\A s \in Streams :
        ("went_wrong" \in notices[s])' /\ "went_wrong" \notin notices[s] =>
            conn[s] \in {"refused", "closed"} \/ genPc[s] = "polled"]_allVars

\* What QuestionOutcome sees of a question.
OutcomeOf(s) ==
    CASE es[s] = "none" -> "unasked"
      [] es[s] = "open" -> "pending"
      [] es[s] = "closed" /\ answers[s] > 0 -> "answered"
      [] es[s] = "closed" /\ answers[s] = 0 /\ notices[s] # {} -> "failed"
      [] OTHER -> "abandoned"

Outcome == INSTANCE QuestionOutcome WITH
    Questions <- Streams,
    outcome <- [s \in Streams |-> OutcomeOf(s)]

\* The panel implements the promise of QuestionOutcome, its fairness included:
\* an open question is resolved, however the run and the connection end.
ImplementsQuestionOutcome == Outcome!Spec
============================================================================
