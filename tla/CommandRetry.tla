---------------------------- MODULE CommandRetry ----------------------------
(***************************************************************************)
(* One tofu command of the deploy tools, run as a child process, and the   *)
(* retries around it: run_with_retry over run_with_heartbeat and           *)
(* run_with_heartbeat_stream_capture, and run_with_auth_retry over         *)
(* terra_capture.  A retry is decided on the error patterns found in what  *)
(* the command wrote, so the command, the threads that read its output,    *)
(* its timeout and the decision are separate actors here.                  *)
(***************************************************************************)
EXTENDS Naturals, Sequences

CONSTANTS Retriable,   \* patterns of the retriable rules, in the order of the file
          MaxRetries,  \* max_retries of each of them
          Fatal,       \* non_retriable patterns
          AuthErrors,  \* _AUTH_ERROR_PATTERNS
          AuthMax,     \* MAX_AUTH_REFRESH_FAILURE_RETRY
          NoRule       \* no rule chosen yet

Patterns == {Retriable[i] : i \in DOMAIN Retriable} \cup Fatal \cup AuthErrors

ASSUME RetryAssumption ==
    /\ Retriable \in Seq(Patterns)
    /\ MaxRetries \in [{Retriable[i] : i \in DOMAIN Retriable} -> Nat]
    /\ AuthMax \in Nat
    /\ NoRule \notin Patterns

VARIABLES mode,      \* which runner: "capture", "stream" or "auth"
          timed,     \* a positive timeout_sec was given
          loaded,    \* the retry configuration file exists
          pc, child, code, pipe, captured, text, rule, attempt, outcome,
          runs,      \* history: how often the command was started
          early,     \* history: the timeout of the current run fired
          held       \* a reader thread of the current run is held up

vars == <<mode, timed, loaded, pc, child, code, pipe, captured, text, rule,
          attempt, outcome, runs, early, held>>
settings == <<mode, timed, loaded>>

(* The process as its parent knows it, and the decision as its caller does. *)
process == <<child, code, pipe, captured, text, early, held>>
decision == <<rule, attempt, outcome, runs>>

Rules == IF loaded THEN Retriable ELSE <<>>
Stopping == IF loaded THEN Fatal ELSE {}

(* The first rule whose pattern is in the text, if there is one. *)
Matches(i, t) == /\ i \in DOMAIN Rules
                 /\ Rules[i] \in t
                 /\ \A j \in 1 .. i - 1 : Rules[j] \notin t

Init == /\ mode \in {"capture", "stream", "auth"}
        /\ timed \in BOOLEAN /\ (timed => mode = "stream")
        /\ loaded \in BOOLEAN
        /\ pc = "start" /\ child = "none" /\ code = "none"
        /\ pipe = {} /\ captured = {} /\ text = {}
        /\ rule = NoRule /\ attempt = 0 /\ outcome = "none"
        /\ runs = 0 /\ early = FALSE /\ held = FALSE

-----------------------------------------------------------------------------
(* The child.  It writes what it writes and ends when it ends. *)

Write(p) == /\ child = "alive"
            /\ pipe' = pipe \cup {p}
            /\ UNCHANGED <<settings, pc, child, code, captured, text, early, held, decision>>

Exit(c) == /\ child = "alive"
           /\ child' = "dead" /\ code' = c
           /\ UNCHANGED <<settings, pc, pipe, captured, text, early, held, decision>>

(* SIGKILL takes effect. *)
Die == /\ child = "killed"
       /\ child' = "dead" /\ code' = "failed"
       /\ UNCHANGED <<settings, pc, pipe, captured, text, early, held, decision>>

(* read_stream in its own thread. It may be held up: it prints every line, and a
   terminal that is stopped takes none. *)
HoldUp == /\ mode = "stream" /\ pc \in {"wait", "join", "kill", "reap"}
          /\ held' = TRUE
          /\ UNCHANGED <<settings, pc, child, code, pipe, captured, text, early, decision>>

ReadStream(p) == /\ mode = "stream" /\ p \in pipe
                 /\ pipe' = pipe \ {p}
                 /\ captured' = captured \cup {p}
                 /\ UNCHANGED <<settings, pc, child, code, text, early, held, decision>>

-----------------------------------------------------------------------------
(* The thread that started it. *)

Start == /\ pc = "start"
         /\ pc' = "wait" /\ child' = "alive" /\ code' = "none"
         /\ pipe' = {} /\ captured' = {} /\ early' = FALSE /\ held' = FALSE
         /\ runs' = runs + 1
         /\ UNCHANGED <<settings, text, rule, attempt, outcome>>

(* subprocess.run(capture_output=True) reads both pipes to their end. *)
Captured == /\ mode # "stream" /\ pc = "wait" /\ child = "dead"
            /\ text' = pipe /\ pipe' = {}
            /\ pc' = "decide"
            /\ UNCHANGED <<settings, child, code, captured, early, held, decision>>

\* Mutant: the output is put together as soon as the command has ended.
Waited_NoJoin == /\ mode = "stream" /\ pc = "wait" /\ child = "dead"
                 /\ text' = captured /\ pc' = "decide"
                 /\ UNCHANGED <<settings, child, code, pipe, captured, early, held, decision>>

Waited == /\ mode = "stream" /\ pc = "wait" /\ child = "dead"
          /\ pc' = "join"
          /\ UNCHANGED <<settings, process, decision>>

(* The readers are joined for a second each: what an ended command has left in
   the pipes is read in that time, unless a reader is held up.  Then the lists are
   put together as they are. *)
Join == /\ pc = "join"
        /\ pipe = {} \/ held
        /\ text' = captured
        /\ pc' = "decide"
        /\ UNCHANGED <<settings, child, code, pipe, captured, early, held, decision>>

Timeout == /\ timed /\ pc = "wait" /\ child = "alive"
           /\ pc' = "kill" /\ early' = TRUE
           /\ UNCHANGED <<settings, child, code, pipe, captured, text, held, decision>>

(* A process that has ended since is not signalled. *)
Kill == /\ pc = "kill"
        /\ child' = IF child = "alive" THEN "killed" ELSE child
        /\ pc' = "reap"
        /\ UNCHANGED <<settings, code, pipe, captured, text, early, held, decision>>

(* The lists are put together before the readers are joined, and the code
   reported is -9 whatever the process ended with. *)
Reap == /\ pc = "reap" /\ child = "dead"
        /\ text' = captured
        /\ pc' = "decide"
        /\ UNCHANGED <<settings, child, code, pipe, captured, early, held, decision>>

(* proc.wait(timeout=10) raises inside the handler. *)
ReapFails == /\ pc = "reap" /\ child = "killed"
             /\ outcome' = "unreaped" /\ pc' = "done"
             /\ UNCHANGED <<settings, process, rule, attempt, runs>>

\* Mutant: a command that was never timed out is reported killed as well.
Reported_AlwaysKilled == IF mode = "stream" THEN "killed" ELSE code

Reported == IF early THEN "killed" ELSE code

-----------------------------------------------------------------------------
(* The decision. *)

Finish(how) == /\ pc' = "done" /\ outcome' = how
               /\ UNCHANGED <<settings, process, rule, attempt, runs>>

(* Sleep, then run again; attempt counts the reruns begun. *)
Again(r) == /\ pc' = "start"
            /\ rule' = r /\ attempt' = attempt + 1
            /\ UNCHANGED <<settings, process, outcome, runs>>

Succeeds == /\ pc = "decide" /\ Reported = "ok"
            /\ Finish("ok")

FirstFails == /\ pc = "decide" /\ mode # "auth" /\ Reported # "ok" /\ rule = NoRule

FailsFast == /\ FirstFails /\ Stopping \cap text # {}
             /\ Finish("raised")

ChoosesRule == /\ FirstFails /\ Stopping \cap text = {}
               /\ \E i \in DOMAIN Rules :
                    /\ Matches(i, text)
                    /\ \/ MaxRetries[Rules[i]] > 0 /\ Again(Rules[i])
                       \/ MaxRetries[Rules[i]] = 0 /\ Finish("raised")

NoRuleMatches == /\ FirstFails /\ Stopping \cap text = {}
                 /\ \A i \in DOMAIN Rules : Rules[i] \notin text
                 /\ Finish("raised")

\* Mutant: reruns are not counted.
RetryFails_NoCount ==
    /\ pc = "decide" /\ mode # "auth" /\ Reported # "ok" /\ rule # NoRule
    /\ \/ /\ rule \in text /\ pc' = "start"
          /\ runs' = 0
          /\ UNCHANGED <<settings, process, rule, attempt, outcome>>
       \/ rule \notin text /\ Finish("raised")

RetryFails == /\ pc = "decide" /\ mode # "auth" /\ Reported # "ok" /\ rule # NoRule
              /\ \/ rule \in text /\ attempt < MaxRetries[rule] /\ Again(rule)
                 \/ (rule \notin text \/ attempt >= MaxRetries[rule]) /\ Finish("raised")

(* run_with_auth_retry: the clock is synchronised, then the command runs again. *)
AuthFails == /\ pc = "decide" /\ mode = "auth" /\ Reported # "ok"
             /\ \/ AuthErrors \cap text # {} /\ attempt < AuthMax /\ Again(NoRule)
                \/ (AuthErrors \cap text = {} \/ attempt >= AuthMax) /\ Finish("returned")

Decide == Succeeds \/ FailsFast \/ ChoosesRule \/ NoRuleMatches \/ RetryFails \/ AuthFails

Done == pc = "done" /\ UNCHANGED vars

Parent == Start \/ Captured \/ Waited \/ Join \/ Kill \/ Reap \/ ReapFails \/ Decide
Reading == ~held /\ \E p \in Patterns : ReadStream(p)
Next == \/ \E p \in Patterns : Write(p) \/ ReadStream(p)
        \/ HoldUp
        \/ \E c \in {"ok", "failed"} : Exit(c)
        \/ Die \/ Timeout \/ Parent \/ Done

(* The parent's thread is scheduled, and the readers unless they are held up; a
   timeout that was set fires and SIGKILL is delivered.  Nothing is assumed of the
   command itself. *)
Spec == /\ Init /\ [][Next]_vars
        /\ WF_vars(Parent) /\ WF_vars(Reading) /\ WF_vars(Timeout) /\ WF_vars(Die)
-----------------------------------------------------------------------------
(* Properties. *)

TypeOK == /\ mode \in {"capture", "stream", "auth"}
          /\ timed \in BOOLEAN /\ loaded \in BOOLEAN
          /\ early \in BOOLEAN /\ held \in BOOLEAN
          /\ pc \in {"start", "wait", "join", "kill", "reap", "decide", "done"}
          /\ child \in {"none", "alive", "killed", "dead"}
          /\ code \in {"none", "ok", "failed"}
          /\ pipe \subseteq Patterns /\ captured \subseteq Patterns /\ text \subseteq Patterns
          /\ rule \in Patterns \cup {NoRule}
          /\ attempt \in Nat /\ runs \in Nat
          /\ outcome \in {"none", "ok", "raised", "returned", "unreaped"}

(* The reruns of a command are bounded by the rule that its first failure
   matched, however its later failures read: run_with_retry never moves to the
   budget of another rule, and run_with_auth_retry stops after its own. *)
Budget == IF mode = "auth" THEN AuthMax
          ELSE IF rule = NoRule THEN 0 ELSE MaxRetries[rule]

RunsBounded == /\ attempt <= Budget
               /\ runs = attempt + (IF pc = "start" THEN 0 ELSE 1)

(* Two processes of one command never run at once, killed ones included:
   tofu is run with -lock=false, so nothing else keeps them apart. *)
OneProcess == pc \in {"start", "decide"} => child \in {"none", "dead"}

(* "Non-retriable patterns fail immediately.  Retriable patterns trigger wait +
   retry": a command runs again only for a pattern this very run wrote, whatever
   of its output was lost and whatever earlier runs wrote.  A first run is judged on
   all it wrote: it wrote no non-retriable pattern, and the rule is the first of
   those it matched.  Two things take this away: the timeout, which puts the lists
   together without waiting for the readers, and a reader that is held up. *)
Written == captured \cup pipe \cup text
RerunsAreDue ==
    [][pc = "decide" /\ pc' = "start" =>
        /\ Written \cap (IF mode = "auth" THEN AuthErrors ELSE {rule'}) # {}
        /\ FirstFails /\ ~early /\ ~held =>
              /\ Stopping \cap Written = {}
              /\ \E i \in DOMAIN Rules : Matches(i, Written) /\ rule' = Rules[i]]_vars

(* A command that ended well is run again only if its timeout fired first: the
   code of a process that ends between the timeout and the kill is dropped. *)
SuccessIsFinal ==
    [][pc = "decide" /\ code = "ok" /\ pc' = "start" => early]_vars

(* With a timeout, the caller gets an answer whatever the command does. *)
TimedEnds == timed => <>(pc = "done")
=============================================================================
