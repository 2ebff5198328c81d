---------------------------- MODULE AwsTools_proofs -------------------------
(***************************************************************************)
(* The tools for AWS, for any number of faults, any rules and any budgets: *)
(* first CommandRetry, the tofu command with the retries around it, then   *)
(* AwsLifecycle, the deploys and teardowns that are made of such commands. *)
(* Either part stands alone; the names of the second carry Aws.            *)
(***************************************************************************)
EXTENDS CommandRetry, AwsLifecycle, SequenceTheorems, TLAPS

(* CommandRetry. *)

RulePatterns == {Retriable[i] : i \in DOMAIN Retriable}

(* What the steps before a decision have settled: a command whose readers are
   being joined has ended, one that is killed was timed out, and a captured
   command leaves the reader threads' lists alone. *)
Settled == /\ pc = "join" => child = "dead"
           /\ pc \in {"kill", "reap"} => early
           /\ mode # "stream" => captured = {}
           /\ rule \in RulePatterns \cup {NoRule}

(* A decision that was not rushed by a timeout has all that the run wrote, unless
   a reader was held up. *)
WholeText == pc = "decide" /\ ~early /\ ~held => captured \cup pipe \subseteq text

RetryInv == TypeOK /\ Settled /\ RunsBounded /\ OneProcess /\ WholeText

(* The rules in use are rules of the file, and every one has a budget. *)
LEMMA RuleFacts ==
    /\ \A i \in DOMAIN Rules : Rules[i] \in RulePatterns
    /\ RulePatterns \subseteq Patterns
    /\ \A r \in RulePatterns : MaxRetries[r] \in Nat
    /\ AuthMax \in Nat
  BY RetryAssumption DEF RetryAssumption, Rules, RulePatterns, Patterns

LEMMA BudgetNat ==
    ASSUME rule \in RulePatterns \cup {NoRule}
    PROVE  Budget \in Nat
  BY RuleFacts DEF Budget

(* Finishing and starting again, the two ends of a decision, keep the invariant. *)
LEMMA FinishKeeps ==
    ASSUME RetryInv, pc \in {"decide", "reap"}, NEW how, Finish(how),
           how \in {"ok", "raised", "returned", "unreaped"}
    PROVE  RetryInv'
  <1>1. TypeOK'
    BY DEF RetryInv, TypeOK, Finish, settings, process
  <1>2. Settled'
    BY DEF RetryInv, Settled, Finish, settings, process
  <1>3. RunsBounded'
    BY DEF RetryInv, RunsBounded, Budget, Finish, settings, process
  <1>4. OneProcess' /\ WholeText'
    BY DEF OneProcess, WholeText, Finish
  <1> QED BY <1>1, <1>2, <1>3, <1>4 DEF RetryInv

LEMMA AgainKeeps ==
    ASSUME RetryInv, pc = "decide",
           NEW r \in RulePatterns \cup {NoRule}, Again(r),
           attempt + 1 <= IF mode = "auth" THEN AuthMax
                          ELSE IF r = NoRule THEN 0 ELSE MaxRetries[r]
    PROVE  RetryInv'
  <1>1. TypeOK'
    BY RuleFacts DEF RetryInv, TypeOK, Again, settings, process
  <1>2. Settled'
    BY DEF RetryInv, Settled, Again, settings, process
  <1>3. RunsBounded'
    BY DEF RetryInv, TypeOK, RunsBounded, Budget, Again, settings, process
  <1>4. OneProcess' /\ WholeText'
    BY DEF RetryInv, OneProcess, WholeText, Again, process
  <1> QED BY <1>1, <1>2, <1>3, <1>4 DEF RetryInv

(* The steps of the child and of the readers. *)
LEMMA ChildKeeps ==
    ASSUME RetryInv,
           (\E p \in Patterns : Write(p) \/ ReadStream(p))
             \/ (\E c \in {"ok", "failed"} : Exit(c)) \/ Die \/ HoldUp
    PROVE  RetryInv'
  <1>1. ASSUME NEW p \in Patterns, Write(p) PROVE RetryInv'
    <2>1. TypeOK' /\ Settled' /\ OneProcess' /\ pc # "decide"
      BY <1>1 DEF RetryInv, TypeOK, Settled, OneProcess, Write, settings, decision
    <2>2. RunsBounded'
      BY <1>1 DEF RetryInv, RunsBounded, Budget, Write, settings, decision
    <2>3. WholeText'
      BY <1>1, <2>1 DEF WholeText, Write
    <2> QED BY <2>1, <2>2, <2>3 DEF RetryInv
  <1>2. ASSUME NEW p \in Patterns, ReadStream(p) PROVE RetryInv'
    <2>1. TypeOK' /\ Settled' /\ OneProcess'
      BY <1>2 DEF RetryInv, TypeOK, Settled, OneProcess, ReadStream, settings, decision
    <2>2. RunsBounded'
      BY <1>2 DEF RetryInv, RunsBounded, Budget, ReadStream, settings, decision
    <2>3. WholeText'
      BY <1>2 DEF RetryInv, WholeText, ReadStream, settings, decision
    <2> QED BY <2>1, <2>2, <2>3 DEF RetryInv
  <1>3. ASSUME NEW c \in {"ok", "failed"}, Exit(c) PROVE RetryInv'
    <2>1. TypeOK' /\ Settled' /\ OneProcess'
      BY <1>3 DEF RetryInv, TypeOK, Settled, OneProcess, Exit, settings, decision
    <2>2. RunsBounded' /\ WholeText'
      BY <1>3 DEF RetryInv, RunsBounded, Budget, WholeText, Exit, settings, decision
    <2> QED BY <2>1, <2>2 DEF RetryInv
  <1>4. ASSUME Die PROVE RetryInv'
    <2>1. TypeOK' /\ Settled' /\ OneProcess'
      BY <1>4 DEF RetryInv, TypeOK, Settled, OneProcess, Die, settings, decision
    <2>2. RunsBounded' /\ WholeText'
      BY <1>4 DEF RetryInv, RunsBounded, Budget, WholeText, Die, settings, decision
    <2> QED BY <2>1, <2>2 DEF RetryInv
  <1>5. ASSUME HoldUp PROVE RetryInv'
    <2>1. TypeOK'
      <3>1. held' \in BOOLEAN
        BY <1>5, Zenon DEF HoldUp
      <3> QED BY <1>5, <3>1 DEF RetryInv, TypeOK, HoldUp, settings, decision
    <2>2. Settled' /\ OneProcess'
      BY <1>5 DEF RetryInv, Settled, OneProcess, HoldUp, settings, decision
    <2>3. RunsBounded' /\ WholeText'
      BY <1>5 DEF RetryInv, RunsBounded, Budget, WholeText, HoldUp, settings, decision
    <2> QED BY <2>1, <2>2, <2>3 DEF RetryInv
  <1> QED BY <1>1, <1>2, <1>3, <1>4, <1>5

(* The steps of the parent up to its decision. *)
LEMMA ParentKeeps ==
    ASSUME RetryInv, Start \/ Captured \/ Waited \/ Join \/ Timeout \/ Kill \/ Reap
    PROVE  RetryInv'
  <1>1. RunsBounded'
    BY DEF RetryInv, TypeOK, RunsBounded, Budget, Start, Captured, Waited, Join, Timeout,
           Kill, Reap, settings, process, decision
  <1>2. CASE Start
    <2>1. TypeOK'
      <3>1. early' \in BOOLEAN /\ held' \in BOOLEAN
        BY <1>2, Zenon DEF Start
      <3>2. runs' \in Nat
        BY <1>2 DEF RetryInv, TypeOK, Start
      <3>3. pipe' \subseteq Patterns /\ captured' \subseteq Patterns
        BY <1>2 DEF Start
      <3> QED BY <1>2, <3>1, <3>2, <3>3 DEF RetryInv, TypeOK, Start, settings
    <2>2. Settled' /\ OneProcess' /\ WholeText'
      BY <1>2 DEF RetryInv, Settled, OneProcess, WholeText, Start, settings
    <2> QED BY <1>1, <2>1, <2>2 DEF RetryInv
  <1>3. CASE Captured
    BY <1>1, <1>3 DEF RetryInv, TypeOK, Settled, OneProcess, WholeText, Captured,
                      settings, decision
  <1>4. CASE Waited
    BY <1>1, <1>4 DEF RetryInv, TypeOK, Settled, OneProcess, WholeText, Waited,
                      settings, process, decision
  <1>5. CASE Join
    BY <1>1, <1>5 DEF RetryInv, TypeOK, Settled, OneProcess, WholeText, Join,
                      settings, decision
  <1>6. CASE Timeout
    BY <1>1, <1>6 DEF RetryInv, TypeOK, Settled, OneProcess, WholeText, Timeout,
                      settings, decision
  <1>7. CASE Kill
    BY <1>1, <1>7 DEF RetryInv, TypeOK, Settled, OneProcess, WholeText, Kill,
                      settings, decision
  <1>8. CASE Reap
    BY <1>1, <1>8 DEF RetryInv, TypeOK, Settled, OneProcess, WholeText, Reap,
                      settings, decision
  <1> QED BY <1>2, <1>3, <1>4, <1>5, <1>6, <1>7, <1>8

(* A decision finishes, or starts again within the budget. *)
LEMMA DecideKeeps ==
    ASSUME RetryInv, Decide
    PROVE  RetryInv'
  <1>0. /\ pc = "decide" /\ attempt \in Nat /\ attempt <= Budget
        /\ rule \in RulePatterns \cup {NoRule}
    BY DEF RetryInv, TypeOK, RunsBounded, Settled, Decide, Succeeds, FailsFast, ChoosesRule,
           NoRuleMatches, RetryFails, AuthFails, FirstFails
  <1>1. CASE Succeeds
    BY <1>0, <1>1, FinishKeeps DEF Succeeds
  <1>2. CASE FailsFast
    BY <1>0, <1>2, FinishKeeps DEF FailsFast
  <1>3. CASE ChoosesRule
    <2>1. PICK i \in DOMAIN Rules : \/ MaxRetries[Rules[i]] > 0 /\ Again(Rules[i])
                                    \/ MaxRetries[Rules[i]] = 0 /\ Finish("raised")
      BY <1>3 DEF ChoosesRule
    <2>2. /\ Rules[i] \in RulePatterns /\ MaxRetries[Rules[i]] \in Nat
          /\ mode # "auth" /\ rule = NoRule /\ Rules[i] # NoRule
      BY <1>3, RuleFacts, RetryAssumption DEF ChoosesRule, FirstFails, RetryAssumption
    <2>3. attempt = 0
      BY <1>0, <2>2 DEF Budget
    <2>4. CASE MaxRetries[Rules[i]] > 0 /\ Again(Rules[i])
      BY <1>0, <2>2, <2>3, <2>4, AgainKeeps
    <2>5. CASE MaxRetries[Rules[i]] = 0 /\ Finish("raised")
      BY <1>0, <2>5, FinishKeeps
    <2> QED BY <2>1, <2>4, <2>5
  <1>4. CASE NoRuleMatches
    BY <1>0, <1>4, FinishKeeps DEF NoRuleMatches
  <1>5. CASE RetryFails
    <2>1. CASE rule \in text /\ attempt < MaxRetries[rule] /\ Again(rule)
      <3>1. mode # "auth" /\ rule # NoRule /\ MaxRetries[rule] \in Nat
        BY <1>0, <1>5, RuleFacts DEF RetryFails
      <3>2. attempt + 1 <= MaxRetries[rule]
        BY <1>0, <2>1, <3>1
      <3> QED BY <1>0, <2>1, <3>1, <3>2, AgainKeeps
    <2>2. CASE Finish("raised")
      BY <1>0, <2>2, FinishKeeps
    <2> QED BY <1>5, <2>1, <2>2 DEF RetryFails
  <1>6. CASE AuthFails
    <2>1. CASE attempt < AuthMax /\ Again(NoRule)
      <3>1. mode = "auth" /\ attempt + 1 <= AuthMax
        BY <1>0, <1>6, <2>1, RuleFacts DEF AuthFails
      <3> QED BY <1>0, <2>1, <3>1, AgainKeeps
    <2>2. CASE Finish("returned")
      BY <1>0, <2>2, FinishKeeps
    <2> QED BY <1>6, <2>1, <2>2 DEF AuthFails
  <1> QED BY <1>1, <1>2, <1>3, <1>4, <1>5, <1>6 DEF Decide

LEMMA StepKeeps ==
    ASSUME RetryInv, [Next]_vars
    PROVE  RetryInv'
  <1>1. CASE ReapFails
    <2>1. pc = "reap" /\ Finish("unreaped")
      BY <1>1 DEF ReapFails, Finish
    <2> QED BY <2>1, FinishKeeps
  <1>2. CASE UNCHANGED vars
    BY <1>2 DEF RetryInv, TypeOK, Settled, RunsBounded, Budget, OneProcess, WholeText,
                vars
  <1> QED BY <1>1, <1>2, ChildKeeps, ParentKeeps, DecideKeeps DEF Next, Parent, Done

LEMMA InitHolds == ASSUME Init PROVE RetryInv
  <1>1. TypeOK /\ Settled /\ OneProcess /\ WholeText
    BY DEF Init, TypeOK, Settled, OneProcess, WholeText
  <1>2. RunsBounded
    BY RuleFacts DEF Init, RunsBounded, Budget
  <1> QED BY <1>1, <1>2 DEF RetryInv

LEMMA Invariance == Spec => []RetryInv
  BY InitHolds, StepKeeps, PTL DEF Spec

(* Every variable keeps its type. *)
THEOREM TypeCorrect == Spec => []TypeOK
  BY Invariance, PTL DEF RetryInv

(* Whatever its output, a command is run once and then at most as often as the
   first rule it matched, or the credentials' retry, allows. *)
THEOREM BoundedReruns == Spec => []RunsBounded
  BY Invariance, PTL DEF RetryInv

(* No command is started beside an earlier run of itself. *)
THEOREM NeverTwice == Spec => []OneProcess
  BY Invariance, PTL DEF RetryInv

(* A rerun is due to what this very run wrote, lost output or not, and a first
   run that is neither timed out nor held up is judged on all of it. *)
THEOREM RerunsDue == Spec => RerunsAreDue
  <1>1. ASSUME RetryInv, [Next]_vars
        PROVE  pc = "decide" /\ pc' = "start" =>
                 /\ Written \cap (IF mode = "auth" THEN AuthErrors ELSE {rule'}) # {}
                 /\ FirstFails /\ ~early /\ ~held =>
                      /\ Stopping \cap Written = {}
                      /\ \E i \in DOMAIN Rules : Matches(i, Written) /\ rule' = Rules[i]
    <2> SUFFICES ASSUME pc = "decide", pc' = "start"
                 PROVE  /\ Written \cap (IF mode = "auth" THEN AuthErrors ELSE {rule'}) # {}
                        /\ FirstFails /\ ~early /\ ~held =>
                             /\ Stopping \cap Written = {}
                             /\ \E i \in DOMAIN Rules : Matches(i, Written) /\ rule' = Rules[i]
      OBVIOUS
    <2>1. ChoosesRule \/ RetryFails \/ AuthFails
      BY <1>1 DEF Next, Write, ReadStream, HoldUp, Exit, Die, Timeout, Parent, Start, Captured,
                  Waited, Join, Kill, Reap, ReapFails, Decide, Succeeds, FailsFast,
                  NoRuleMatches, Finish, Done, vars
    <2>2. ~early /\ ~held => Written = text
      BY <1>1 DEF RetryInv, WholeText, Written
    <2>3. CASE ChoosesRule
      <3>1. PICK i \in DOMAIN Rules : Matches(i, text) /\ rule' = Rules[i]
        BY <2>3 DEF ChoosesRule, Again, Finish
      <3>2. mode # "auth" /\ Rules[i] \in text /\ Stopping \cap text = {}
        BY <2>3, <3>1 DEF ChoosesRule, FirstFails, Matches
      <3>3. rule' \in Written
        BY <3>1, <3>2 DEF Written
      <3> QED BY <2>2, <3>1, <3>2, <3>3
    <2>4. CASE RetryFails
      <3>1. mode # "auth" /\ rule # NoRule /\ rule \in text /\ rule' = rule
        BY <2>4 DEF RetryFails, Again, Finish
      <3> QED BY <3>1 DEF Written, FirstFails
    <2>5. CASE AuthFails
      <3>1. mode = "auth" /\ AuthErrors \cap text # {}
        BY <2>5 DEF AuthFails, Finish
      <3> QED BY <3>1 DEF Written, FirstFails
    <2> QED BY <2>1, <2>3, <2>4, <2>5
  <1> QED BY <1>1, Invariance, PTL DEF Spec, RerunsAreDue

(* A success is run again only if its timeout fired. *)
THEOREM FinalSuccess == Spec => SuccessIsFinal
  <1>1. ASSUME [Next]_vars
        PROVE  pc = "decide" /\ code = "ok" /\ pc' = "start" => early
    <2> SUFFICES ASSUME pc = "decide", code = "ok", pc' = "start"
                 PROVE  early
      OBVIOUS
    <2>1. Reported # "ok"
      BY <1>1 DEF Next, Parent, Done, vars, Write, ReadStream, HoldUp, Exit, Die, Timeout, Start,
                  Captured, Waited, Join, Kill, Reap, ReapFails, Decide, Succeeds, FailsFast,
                  ChoosesRule, NoRuleMatches, RetryFails, AuthFails, FirstFails, Finish,
                  Again
    <2> QED BY <2>1 DEF Reported
  <1> QED BY <1>1, PTL DEF Spec, SuccessIsFinal

-----------------------------------------------------------------------------
(* AwsLifecycle. *)

Scopes == {"all", "nonkube", "kube"}
Including == {"none", "dura", "all"}
Names == Stacks \union {"backend", "secrets", "database", "images"}

(* A stack that is still to be destroyed, and one that the flags spare. *)
Ahead(s) == \E i \in DOMAIN todo : todo[i] = s
Spared(s) == (s = "durable" /\ incl = "none") \/ (s = "cooloff" /\ incl # "all")

Shape ==
  /\ AwsTypeOK /\ scope \in Scopes \union {"post"} /\ incl \in Including /\ todo \in Seq(Names)

(* The stacks come before what they use, and what is behind the teardown is no *)
(* longer recorded, unless a probe failed or it had been lost before.            *)
OrderInv ==
  proc = "teardown" =>
    /\ \A i, j \in DOMAIN todo : todo[i] = "durable" /\ todo[j] \in Frontends => j < i
    /\ Ahead("durable") => scope = "all"
    /\ point \in {"logs", "backend"} => scope \in {"all", "post"}
    /\ point = "backend" => incl = "all"

BehindInv ==
  /\ proc = "teardown" /\ scope = "all" => \A s \in Stacks :
       Ahead(s) \/ Spared(s) \/ s \in misread \/ Owned[s] \intersect recorded \subseteq strays
  /\ At("elb_sg", "kube") => Owned["kube"] \intersect recorded = {}

KnownInv == OrderInv /\ BehindInv /\ StateKnowsAll /\ NothingStranded

(* What the steps before a destroy have seen to. *)
Waiting == {"resolve", "disable", "deployed", "delete", "gone", "oac", "import", "destroy"}

TasksInv ==
  proc = "teardown" /\ todo # <<>> /\ Head(todo) = "nonkube" /\ ~uncertain =>
    /\ point \in {"scale", "drain"} \union Waiting => trigger # "on"
    /\ point \in {"drain"} \union Waiting => service = 0
    /\ point \in Waiting => tasks = 0

BalancerInv ==
  /\ "lb" \in alive => "eks" \in alive
  /\ In("applied", "kube") => "eks" \in alive
  /\ proc = "teardown" /\ todo # <<>> /\ Head(todo) = "kube" /\ ~uncertain /\ point \in {"eks_sg"} \union Waiting =>
       "lb" \notin alive

DistInv ==
  \A s \in Frontends : proc = "teardown" /\ todo # <<>> /\ Head(todo) = s /\ point \in {"oac", "import", "destroy"} =>
     dist[s] = "none"

PrepInv == TasksInv /\ BalancerInv /\ DistInv

(* What the set-up has put into the database when it comes to ask for it. *)
Loading == proc = "deploy" /\ todo # <<>> /\ Head(todo) = "database"

DbInv ==
  /\ Misleading(db) /\ ~db.upset => Loading /\ (point = "vectors" \/ (forced /\ point \in {"count", "raw", "embed"}))
  /\ Loading =>
     /\ point \in {"count", "raw", "embed", "vectors"} => "emb" \in db.tables
     /\ point \in {"embed", "vectors"} => Wanted(db) \subseteq db.raw \/ db.upset
     /\ point = "vectors" => Wanted(db) \subseteq db.emb \/ db.upset
     /\ point = "loaded" => Whole(db) \/ db.upset

AwsInv == Shape /\ KnownInv /\ PrepInv /\ DbInv

-----------------------------------------------------------------------------
(* Sequences. *)

LEMMA Rest ==
  ASSUME todo \in Seq(Names), todo # <<>>
  PROVE  /\ Tail(todo) \in Seq(Names) /\ Head(todo) \in Names /\ Head(todo) = todo[1] /\ 1 \in DOMAIN todo
         /\ \A i \in DOMAIN Tail(todo) : i \in Nat /\ i + 1 \in DOMAIN todo /\ Tail(todo)[i] = todo[i + 1]
         /\ \A i \in DOMAIN todo : i # 1 => i - 1 \in DOMAIN Tail(todo) /\ Tail(todo)[i - 1] = todo[i]
         /\ DOMAIN todo \subseteq Nat
  <1>1. Len(todo) \in Nat /\ Len(todo) # 0 /\ DOMAIN todo = 1..Len(todo)
    BY EmptySeq, LenProperties
  <1>2. Len(Tail(todo)) = Len(todo) - 1 /\ DOMAIN Tail(todo) = 1..(Len(todo) - 1)
    BY <1>1, HeadTailProperties
  <1>3. \A i \in 1..(Len(todo) - 1) : Tail(todo)[i] = todo[i + 1]
    BY <1>1, HeadTailProperties
  <1>4. Tail(todo) \in Seq(Names) /\ Head(todo) \in Names /\ Head(todo) = todo[1]
    BY <1>1, HeadTailProperties
  <1> QED BY <1>1, <1>2, <1>3, <1>4

LEMMA Shorter == ASSUME todo \in Seq(Names), todo # <<>> PROVE Tail(todo) # todo
  <1>1. Len(todo) \in Nat /\ Len(Tail(todo)) = Len(todo) - 1
    BY EmptySeq, LenProperties, HeadTailProperties
  <1>2. \A n \in Nat : n - 1 # n
    OBVIOUS
  <1>3. Len(Tail(todo)) # Len(todo)
    BY <1>1, <1>2
  <1> QED BY <1>3

LEMMA PlanFacts ==
  ASSUME NEW sc \in Scopes, NEW in \in Including
  PROVE  /\ Plan(sc, in) \in Seq(Names)
         /\ \A i, j \in DOMAIN Plan(sc, in) : Plan(sc, in)[i] = "durable" /\ Plan(sc, in)[j] \in Frontends => j < i
         /\ (\E i \in DOMAIN Plan(sc, in) : Plan(sc, in)[i] = "durable") => sc = "all"
         /\ sc = "all" => \A s \in Stacks : \/ \E i \in DOMAIN Plan(sc, in) : Plan(sc, in)[i] = s
                                            \/ (s = "durable" /\ in = "none") \/ (s = "cooloff" /\ in # "all")
  <1> DEFINE own  == Order[sc]
             rest == IF sc # "all" THEN <<>>
                     ELSE CASE in = "all"  -> <<"durable", "cooloff">>
                            [] in = "dura" -> <<"durable">>
                            [] in = "none" -> <<>>
             p == own \o rest
  <1>0. Plan(sc, in) = p
    BY DEF Plan
  <1>1. /\ <<"kube">> \in Seq(Names) /\ <<"nonkube">> \in Seq(Names) /\ <<"nonkube", "kube", "nondurable">> \in Seq(Names)
        /\ <<"durable", "cooloff">> \in Seq(Names) /\ <<"durable">> \in Seq(Names) /\ <<>> \in Seq(Names)
    BY DEF Names, Stacks, Frontends
  <1>2. /\ own \in Seq(Names)
        /\ sc = "all" => Len(own) = 3 /\ own[1] = "nonkube" /\ own[2] = "kube" /\ own[3] = "nondurable"
        /\ sc # "all" => Len(own) = 1 /\ own[1] \in Frontends
    <2>1. sc = "all" => own = <<"nonkube", "kube", "nondurable">>
      BY DEF Order
    <2>2. sc = "nonkube" => own = <<"nonkube">>
      BY DEF Order
    <2>3. sc = "kube" => own = <<"kube">>
      BY DEF Order
    <2> HIDE DEF own
    <2>4. CASE sc = "all"
      BY <1>1, <2>1, <2>4
    <2>5. CASE sc # "all"
      <3>1. PICK f \in Frontends : own = <<f>>
        BY <2>2, <2>3, <2>5 DEF Scopes, Frontends
      <3>2. <<f>> \in Seq(Names) /\ Len(<<f>>) = 1 /\ <<f>>[1] = f
        BY DEF Names, Stacks
      <3> QED BY <2>5, <3>1, <3>2
    <2> QED BY <2>4, <2>5
  <1>3. /\ rest \in Seq(Names)
        /\ Len(rest) = IF sc = "all" THEN (IF in = "all" THEN 2 ELSE IF in = "dura" THEN 1 ELSE 0) ELSE 0
        /\ sc = "all" /\ in # "none" => rest[1] = "durable"
        /\ sc = "all" /\ in = "all" => rest[2] = "cooloff"
    <2>1. in = "all" \/ in = "dura" \/ in = "none"
      BY DEF Including
    <2> QED BY <1>1, <2>1
  <1> HIDE DEF own, rest
  <1>4. /\ p \in Seq(Names) /\ Len(p) = Len(own) + Len(rest)
        /\ \A i \in 1..(Len(own) + Len(rest)) : p[i] = IF i <= Len(own) THEN own[i] ELSE rest[i - Len(own)]
    BY <1>2, <1>3, ConcatProperties
  <1>5. DOMAIN p = 1..Len(p)
    BY <1>4, LenProperties
  <1> HIDE DEF p
  <1>6. CASE sc # "all"
    <2>1. DOMAIN p = {1} /\ p[1] \in Frontends
      BY <1>2, <1>3, <1>4, <1>5, <1>6
    <2> QED BY <1>0, <1>4, <1>6, <2>1 DEF Frontends
  <1>7. CASE sc = "all"
    <2>1. /\ Len(p) = 3 + Len(rest) /\ Len(rest) \in 0..2
          /\ p[1] = "nonkube" /\ p[2] = "kube" /\ p[3] = "nondurable"
          /\ in # "none" => Len(rest) >= 1 /\ p[4] = "durable"
          /\ in = "all" => Len(rest) = 2 /\ p[5] = "cooloff"
          /\ in = "none" => Len(rest) = 0
          /\ in # "all" => Len(rest) < 2
      <3>1. Len(own) = 3 /\ Len(p) = 3 + Len(rest)
        BY <1>2, <1>4, <1>7
      <3>2. /\ in = "all" => Len(rest) = 2
            /\ in = "dura" => Len(rest) = 1
            /\ in = "none" => Len(rest) = 0
            /\ in \in {"all", "dura", "none"}
        BY <1>3, <1>7 DEF Including
      <3>3. \A i \in 1..(3 + Len(rest)) : p[i] = IF i <= 3 THEN own[i] ELSE rest[i - 3]
        BY <1>4, <3>1
      <3>4. p[1] = own[1] /\ p[2] = own[2] /\ p[3] = own[3]
        BY <3>2, <3>3
      <3>5. in # "none" => 4 \in 1..(3 + Len(rest)) /\ 4 - 3 = 1
        BY <3>2
      <3>6. in = "all" => 5 \in 1..(3 + Len(rest)) /\ 5 - 3 = 2
        BY <3>2
      <3>7. in # "none" => p[4] = rest[1]
        <4>1. ~(4 <= 3)
          OBVIOUS
        <4> QED BY <3>3, <3>5, <4>1
      <3>8. in = "all" => p[5] = rest[2]
        <4>1. ~(5 <= 3)
          OBVIOUS
        <4> QED BY <3>3, <3>6, <4>1
      <3>9. Len(rest) \in 0..2 /\ (in # "none" => Len(rest) >= 1) /\ (in # "all" => Len(rest) < 2)
        <4>1. \A n \in {0, 1, 2} : n \in 0..2 /\ (n # 0 => n >= 1) /\ (n # 2 => n < 2)
          OBVIOUS
        <4>2. Len(rest) \in {0, 1, 2} /\ (in # "none" => Len(rest) # 0) /\ (in # "all" => Len(rest) # 2)
          BY <3>2
        <4> QED BY <4>1, <4>2
      <3> QED BY <1>2, <1>3, <1>7, <3>1, <3>2, <3>4, <3>7, <3>8, <3>9
    <2>2. \A i \in DOMAIN p : i \in {1, 2, 3, 4, 5} /\ (p[i] = "durable" => i = 4) /\ (p[i] \in Frontends => i \in {1, 2})
      <3>0. \A n \in 0..2 : \A i \in 1..(3 + n) : i \in {1, 2, 3, 4, 5}
        OBVIOUS
      <3>1. \A i \in DOMAIN p : i \in {1, 2, 3, 4, 5}
        BY <1>5, <2>1, <3>0
      <3>2. /\ 4 \in DOMAIN p => in # "none"
            /\ 5 \in DOMAIN p => in = "all"
        BY <1>5, <2>1
      <3> QED BY <2>1, <3>1, <3>2 DEF Frontends
    <2>3. {1, 2, 3} \subseteq DOMAIN p /\ (in # "none" => 4 \in DOMAIN p) /\ (in = "all" => 5 \in DOMAIN p)
      BY <1>5, <2>1
    <2>4. ASSUME NEW s \in Stacks
          PROVE  \/ \E i \in DOMAIN p : p[i] = s
                 \/ (s = "durable" /\ in = "none") \/ (s = "cooloff" /\ in # "all")
      BY <2>1, <2>3 DEF Stacks, Frontends
    <2>5. \A i, j \in DOMAIN p : p[i] = "durable" /\ p[j] \in Frontends => j < i
      BY <2>2
    <2> QED BY <1>0, <1>4, <1>7, <2>4, <2>5
  <1> QED BY <1>6, <1>7

LEMMA PhasesFacts == ASSUME NEW sc \in Scopes PROVE Phases(sc) \in Seq(Names)
  <1> DEFINE shared == <<"backend", "cooloff", "durable", "nondurable", "secrets", "database", "images">>
             own    == CASE sc = "all"     -> <<"nonkube", "kube">>
                         [] sc = "nonkube" -> <<"nonkube">>
                         [] sc = "kube"    -> <<"kube">>
  <1>1. shared \in Seq(Names)
    BY DEF Names, Stacks
  <1>2. own \in Seq(Names)
    <2>1. <<"nonkube", "kube">> \in Seq(Names) /\ <<"nonkube">> \in Seq(Names) /\ <<"kube">> \in Seq(Names)
      BY DEF Names, Stacks, Frontends
    <2> QED BY <2>1 DEF Scopes
  <1>3. Phases(sc) = shared \o own
    BY DEF Phases
  <1> HIDE DEF shared, own
  <1> QED BY <1>1, <1>2, <1>3, ConcatProperties

LEMMA OwnedFacts ==
  /\ Managed = {"secrets", "vpc", "ecr", "ecs", "alb", "oac_nonkube", "eks", "oac_kube"}
  /\ \A s \in Stacks : Owned[s] \subseteq Managed
  /\ \A r \in Unmanaged : r \notin Managed
  /\ \A s, t \in Stacks : s # t => Owned[s] \intersect Owned[t] = {}
  /\ Owned["kube"] = {"eks", "oac_kube"} /\ Owned["nonkube"] = {"ecs", "alb", "oac_nonkube"}
  /\ Oac["kube"] = "oac_kube" /\ Oac["nonkube"] = "oac_nonkube"
  <1>1. /\ Owned["cooloff"] = {"secrets"} /\ Owned["durable"] = {"vpc"} /\ Owned["nondurable"] = {"ecr"}
        /\ Owned["kube"] = {"eks", "oac_kube"} /\ Owned["nonkube"] = {"ecs", "alb", "oac_nonkube"}
        /\ Oac["kube"] = "oac_kube" /\ Oac["nonkube"] = "oac_nonkube"
    BY DEF Owned, Oac
  <1>2. Stacks = {"cooloff", "durable", "nondurable", "nonkube", "kube"}
    BY DEF Stacks, Frontends
  <1>3. Managed = {"secrets", "vpc", "ecr", "ecs", "alb", "oac_nonkube", "eks", "oac_kube"}
    BY <1>1, <1>2 DEF Managed
  <1>4. \A s \in Stacks : Owned[s] \subseteq Managed
    BY <1>1, <1>2, <1>3
  <1>5. \A s, t \in Stacks : s # t => Owned[s] \intersect Owned[t] = {}
    BY <1>1, <1>2
  <1> QED BY <1>1, <1>3, <1>4, <1>5 DEF Unmanaged

-----------------------------------------------------------------------------
(* The tool: where a step leaves it. *)

Moved ==
  /\ proc # "idle" /\ UNCHANGED <<scope, incl>> /\ faults' \in 0..MaxFaults
  /\ \/ proc' = proc /\ result' = result /\ todo' = todo /\ point' # "end"
     \/ /\ proc' = proc /\ result' = result /\ todo # <<>> /\ todo' = Tail(todo)
        /\ point' = IF proc = "deploy" THEN "start" ELSE "probe"
     \/ proc' = "idle" /\ result' \in {"ok", "failed", "killed"} /\ todo' = <<>> /\ point' = "end"

LEMMA CallFacts == ASSUME Shape, Works \/ Fails PROVE faults' \in 0..MaxFaults
  BY MaxFaultsAssumption DEF Shape, AwsTypeOK, CloudTypeOK, Works, Fails

LEMMA DestroyCalls == ASSUME Shape, NEW s, DestroyWorks(s) \/ DestroyFails(s) PROVE faults' \in 0..MaxFaults
  <1>1. Works \/ Fails \/ UNCHANGED faults
    BY DEF DestroyWorks, DestroyFails, cloud
  <1> QED BY <1>1, CallFacts DEF Works

LEMMA ApplyCalls == ASSUME Shape, NEW s, ApplyWorks(s) \/ ApplyFails(s) \/ ApplyKilled(s) PROVE faults' \in 0..MaxFaults
  <1>1. Works \/ Fails \/ UNCHANGED faults
    BY DEF ApplyWorks, ApplyFails, ApplyKilled, cloud
  <1> QED BY <1>1, CallFacts DEF Works

LEMMA TeardownMoved == ASSUME Shape, TeardownStep PROVE Moved /\ proc = "teardown"
  <1> USE DEF run
  <1>1. ASSUME NEW s \in Stacks, Proceed(s) PROVE Moved /\ proc = "teardown"
    BY <1>1, CallFacts DEF Proceed, At, Moved
  <1>2. ASSUME NEW s \in Stacks, Skip(s) PROVE Moved /\ proc = "teardown"
    BY <1>2, CallFacts DEF Skip, At, NextStack, Moved
  <1>3. ASSUME NEW s \in Stacks, DestroyStack(s) PROVE Moved /\ proc = "teardown"
    BY <1>3, DestroyCalls DEF DestroyStack, At, Goto, NextStack, Abort, End, Moved
  <1>4. ASSUME NEW s \in Frontends, Resolve(s) \/ WaitForDeployed(s) \/ WaitForGone(s) PROVE Moved /\ proc = "teardown"
    BY <1>4, CallFacts DEF Resolve, WaitForDeployed, WaitForGone, At, Goto, Abort, End, Moved
  <1>5. ASSUME NEW s \in Frontends, Disable(s) \/ DeleteDistribution(s) PROVE Moved /\ proc = "teardown"
    BY <1>5, CallFacts DEF Disable, DeleteDistribution, At, Goto, Abort, End, Moved
  <1>6. ASSUME NEW s \in Frontends, DeleteOac(s) \/ Reconcile(s) PROVE Moved /\ proc = "teardown"
    BY <1>6, CallFacts DEF DeleteOac, Reconcile, At, Goto, Abort, End, Moved
  <1>7. CASE RemoveRule \/ ScaleService \/ DrainTasks \/ Drained
    <2>1. /\ proc = "teardown" /\ proc' = proc /\ result' = result /\ todo' = todo /\ point' # "end"
          /\ UNCHANGED <<scope, incl>> /\ (Works \/ Fails)
      BY <1>7 DEF RemoveRule, ScaleService, DrainTasks, Drained, At
    <2> QED BY <2>1, CallFacts DEF Moved
  <1>8. CASE CleanCluster \/ RemoveEksGroups
    BY <1>8, CallFacts DEF CleanCluster, RemoveEksGroups, At, Goto, Moved
  <1>9. CASE RemoveElbGroups
    BY <1>9, CallFacts DEF RemoveElbGroups, At, NextStack, Moved
  <1>10. CASE StacksDone \/ DeleteLogGroups \/ DeleteStateBackend
    BY <1>10, CallFacts DEF StacksDone, DeleteLogGroups, DeleteStateBackend, Stacksless, Goto, End, Moved
  <1> QED BY <1>1, <1>2, <1>3, <1>4, <1>5, <1>6, <1>7, <1>8, <1>9, <1>10 DEF TeardownStep

LEMMA DeployMoved == ASSUME Shape, DeployStep PROVE Moved /\ proc = "deploy"
  <1> USE DEF run
  <1>1. ASSUME NEW s \in Stacks, ImportExisting(s) PROVE Moved /\ proc = "deploy"
    BY <1>1, CallFacts DEF ImportExisting, In, Goto, Abort, End, Moved
  <1>2. ASSUME NEW s \in Stacks, Apply(s) PROVE Moved /\ proc = "deploy"
    BY <1>2, ApplyCalls DEF Apply, Applying, In, Goto, NextPhase, Abort, End, Moved
  <1>3. ASSUME NEW s \in Stacks, KillInApply(s) PROVE Moved /\ proc = "deploy"
    BY <1>3, ApplyCalls DEF KillInApply, Applying, In, End, Moved
  <1>4. CASE SetupBackend \/ EnsureSecrets \/ BuildImages \/ DeployFrontend
    BY <1>4, CallFacts DEF SetupBackend, EnsureSecrets, BuildImages, Ensure, DeployFrontend, In, NextPhase, Goto, Abort, End, Moved
  <1>5. CASE BootstrapEcs \/ RollOut
    BY <1>5, CallFacts DEF BootstrapEcs, RollOut, In, NextPhase, Abort, End, Moved
  <1>6. CASE DeployDone
    <2>1. faults' = faults
      BY <1>6 DEF DeployDone, cloud
    <2> QED BY <1>6, <2>1, CallFacts DEF DeployDone, End, Moved, Works
  <1> QED BY <1>1, <1>2, <1>3, <1>4, <1>5, <1>6 DEF DeployStep

LEMMA DbMoved == ASSUME Shape, DbStep PROVE Moved /\ Loading
  <1> USE DEF run, Loading, In
  <1>1. CASE BeginSetup
    BY <1>1, CallFacts DEF BeginSetup, GiveUp, NextPhase, Goto, End, Moved
  <1>2. CASE InitSchema
    BY <1>2, CallFacts DEF InitSchema, GiveUp, NextPhase, Goto, End, Moved
  <1>3. CASE CountRows
    BY <1>3, CallFacts DEF CountRows, Found, Missed, Goto, Moved
  <1>4. CASE LoadRaw
    BY <1>4, CallFacts DEF LoadRaw, Found, Missed, GiveUp, NextPhase, Goto, End, Moved
  <1>5. CASE CopyScalars
    BY <1>5, CallFacts DEF CopyScalars, Found, Missed, GiveUp, NextPhase, Goto, End, Moved
  <1>6. CASE SyncVectors
    BY <1>6, CallFacts DEF SyncVectors, GiveUp, NextPhase, Goto, End, Moved
  <1>7. CASE EndSetup
    BY <1>7, CallFacts DEF EndSetup, NextPhase, Moved, Works, cloud
  <1> QED BY <1>1, <1>2, <1>3, <1>4, <1>5, <1>6, <1>7 DEF DbStep

-----------------------------------------------------------------------------
(* Types. *)

Resources ==
  /\ alive \subseteq Managed \union Unmanaged /\ recorded \subseteq Managed
  /\ bucket \in BOOLEAN /\ outputs \in BOOLEAN /\ dist \in [Frontends -> Dists]
  /\ trigger \in {"none", "on", "off"} /\ service \in {0, 1} /\ tasks \in Nat
  /\ ~bucket => recorded = {} /\ ~outputs
  /\ misread \subseteq Stacks /\ strays \subseteq Managed

Quiet == CloudStays /\ UNCHANGED history

LEMMA ShapeParts ==
  /\ Shape => Resources
  /\ Resources /\ DbTypeOK /\ faults \in 0..MaxFaults /\ polls \in 0..Polls
     /\ proc \in {"idle", "deploy", "teardown"} /\ result \in {"none", "ok", "failed", "killed"}
     /\ (proc = "idle") = (point = "end") /\ scope \in Scopes \union {"post"} /\ incl \in Including /\ todo \in Seq(Names)
     /\ hung \in BOOLEAN /\ (hung => proc # "idle")
       => Shape
  BY DEF Shape, Resources, AwsTypeOK, CloudTypeOK

LEMMA QuietResources == ASSUME Resources, Quiet PROVE Resources'
  BY DEF Resources, Quiet, CloudStays, history, ecs

LEMMA DestroyResources ==
  ASSUME Resources, NEW s \in Stacks, NEW gone, Destroy(s, gone), bucket, UNCHANGED <<misread, strays>>
  PROVE  Resources'
  <1>1. gone \subseteq Managed
    BY OwnedFacts DEF Destroy
  <1>2. PICK left \in SUBSET {"eks_sg"} : alive' = (alive \ gone) \union left
    BY DEF Destroy
  <1>3. alive' \subseteq Managed \union Unmanaged
    BY <1>2 DEF Resources, Unmanaged
  <1> QED BY <1>1, <1>3 DEF Destroy, Resources

LEMMA DestroyParts ==
  ASSUME NEW s \in Stacks, DestroyWorks(s) \/ DestroyFails(s)
  PROVE  CloudStays \/ (Evaluates(s) /\ \E gone \in SUBSET Owned[s] : Destroy(s, gone))
  <1>1. CASE DestroyWorks(s)
    BY <1>1 DEF DestroyWorks
  <1>2. CASE DestroyFails(s)
    BY <1>2 DEF DestroyFails, CloudStays, cloud, ecs
  <1> QED BY <1>1, <1>2

LEMMA ApplyParts ==
  ASSUME NEW s \in Stacks, ApplyWorks(s) \/ ApplyFails(s)
  PROVE  \/ CloudStays
         \/ /\ Evaluates(s) /\ \E made \in SUBSET Owned[s] : Create(s, made)
            /\ outputs' = outputs \/ outputs' = (outputs \/ s = "durable")
  <1>1. CASE ApplyWorks(s)
    BY <1>1 DEF ApplyWorks
  <1>2. CASE ApplyFails(s)
    BY <1>2 DEF ApplyFails, CloudStays, cloud, ecs
  <1> QED BY <1>1, <1>2

LEMMA TeardownResources == ASSUME Shape, TeardownStep PROVE Resources'
  <1>0. Resources
    BY ShapeParts
  <1> USE DEF history, ecs
  <1>1. ASSUME NEW s \in Stacks, Proceed(s) PROVE Resources'
    BY <1>0, <1>1, QuietResources DEF Proceed, Quiet, CloudStays
  <1>2. ASSUME NEW s \in Stacks, Skip(s) PROVE Resources'
    BY <1>0, <1>2 DEF Skip, Resources
  <1>3. ASSUME NEW s \in Stacks, DestroyStack(s) PROVE Resources'
    <2>1. UNCHANGED history /\ (DestroyWorks(s) \/ DestroyFails(s))
      BY <1>3 DEF DestroyStack, Goto, Abort
    <2>2. CASE CloudStays
      BY <1>0, <2>1, <2>2, QuietResources DEF Quiet
    <2>3. CASE Evaluates(s) /\ \E gone \in SUBSET Owned[s] : Destroy(s, gone)
      BY <1>0, <2>1, <2>3, DestroyResources DEF Evaluates
    <2> QED BY <2>1, <2>2, <2>3, DestroyParts
  <1>4. ASSUME NEW s \in Frontends, Resolve(s) \/ WaitForDeployed(s) \/ WaitForGone(s) PROVE Resources'
    BY <1>0, <1>4, QuietResources DEF Resolve, WaitForDeployed, WaitForGone, Goto, Abort, Quiet, CloudStays
  <1>5. ASSUME NEW s \in Frontends, Disable(s) \/ DeleteDistribution(s) PROVE Resources'
    <2>1. dist' \in [Frontends -> Dists]
      BY <1>0, <1>5 DEF Disable, DeleteDistribution, Resources, Dists
    <2> QED BY <1>0, <1>5, <2>1 DEF Disable, DeleteDistribution, Goto, Abort, Resources
  <1>6. ASSUME NEW s \in Frontends, DeleteOac(s) PROVE Resources'
    BY <1>0, <1>6 DEF DeleteOac, Goto, Abort, Resources
  <1>7. ASSUME NEW s \in Frontends, Reconcile(s) PROVE Resources'
    <2>1. s \in Stacks
      BY DEF Stacks
    <2>2. recorded' \subseteq Managed /\ (recorded' # recorded => bucket)
      BY <1>0, <1>7, <2>1, OwnedFacts DEF Reconcile, ImportAll, ImportSome, Resources
    <2> QED BY <1>0, <1>7, <2>2 DEF Reconcile, Goto, Abort, Resources
  <1>8. CASE RemoveRule \/ ScaleService
    BY <1>0, <1>8 DEF RemoveRule, ScaleService, Resources
  <1>9. CASE DrainTasks
    <2>1. tasks \in Nat /\ Batch \in Nat
      BY <1>0, DrainAssumption DEF Resources
    <2>2. PICK stopped \in 0..(IF tasks > Batch THEN Batch ELSE tasks) : tasks' = tasks - stopped
      BY <1>9 DEF DrainTasks
    <2>3. tasks' \in Nat
      BY <2>1, <2>2
    <2> QED BY <1>0, <1>9, <2>3 DEF DrainTasks, Resources
  <1>10. CASE Drained \/ StacksDone
    BY <1>0, <1>10, QuietResources DEF Drained, StacksDone, Goto, Quiet, CloudStays
  <1>11. CASE CleanCluster \/ RemoveEksGroups
    BY <1>0, <1>11 DEF CleanCluster, RemoveEksGroups, DeleteNamespace, Goto, Resources
  <1>12. CASE RemoveElbGroups \/ DeleteLogGroups
    BY <1>0, <1>12 DEF RemoveElbGroups, DeleteLogGroups, Goto, Resources
  <1>13. CASE DeleteStateBackend
    <2>1. UNCHANGED <<alive, dist, ecs, misread>>
      BY <1>13 DEF DeleteStateBackend
    <2>2. strays' \in {strays, strays \union recorded} /\ strays' \subseteq Managed
      BY <1>0, <1>13 DEF DeleteStateBackend, Resources
    <2>3. CASE bucket' = FALSE /\ outputs' = FALSE /\ recorded' = {}
      BY <1>0, <2>1, <2>2, <2>3 DEF Resources
    <2>4. CASE bucket' = bucket /\ \E kept \in SUBSET Stacks :
                 /\ recorded' = recorded \intersect UNION {Owned[s] : s \in kept}
                 /\ outputs' = (outputs /\ "durable" \in kept)
      BY <1>0, <2>1, <2>2, <2>4 DEF Resources
    <2> QED BY <1>13, <2>3, <2>4 DEF DeleteStateBackend
  <1> QED BY <1>1, <1>2, <1>3, <1>4, <1>5, <1>6, <1>7, <1>8, <1>9, <1>10, <1>11, <1>12, <1>13 DEF TeardownStep

LEMMA DeployResources == ASSUME Shape, DeployStep PROVE Resources'
  <1>0. Resources
    BY ShapeParts
  <1> USE DEF history, ecs
  <1>1. ASSUME NEW s \in Stacks, ImportExisting(s) PROVE Resources'
    <2>1. recorded' \subseteq Managed /\ (recorded' # recorded => bucket)
      BY <1>0, <1>1, OwnedFacts DEF ImportExisting, ImportAll, ImportSome, Resources
    <2> QED BY <1>0, <1>1, <2>1 DEF ImportExisting, Goto, Abort, Resources
  <1>2. ASSUME NEW s \in Stacks, Apply(s) PROVE Resources'
    <2>1. UNCHANGED history /\ (ApplyWorks(s) \/ ApplyFails(s))
      BY <1>2 DEF Apply, Goto, NextPhase, Abort
    <2>2. CASE CloudStays
      BY <1>0, <2>1, <2>2, QuietResources DEF Quiet
    <2>3. ASSUME Evaluates(s), NEW made \in SUBSET Owned[s], Create(s, made), outputs' \in BOOLEAN PROVE Resources'
      <3>1. made \subseteq Managed
        BY OwnedFacts
      <3>2. dist' \in [Frontends -> Dists]
        BY <1>0, <2>3 DEF Create, Resources, Dists
      <3>3. alive' \subseteq Managed \union Unmanaged
        BY <1>0, <2>3, <3>1 DEF Create, Resources, Unmanaged
      <3> QED BY <1>0, <2>1, <2>3, <3>1, <3>2, <3>3 DEF Create, Resources, Evaluates
    <2>4. outputs \in BOOLEAN
      BY <1>0 DEF Resources
    <2> QED BY <2>1, <2>2, <2>3, <2>4, ApplyParts
  <1>3. ASSUME NEW s \in Stacks, KillInApply(s) PROVE Resources'
    <2>1. PICK r \in Owned[s] \ alive : alive' = alive \union {r}
      BY <1>3 DEF KillInApply, ApplyKilled
    <2>2. alive' \subseteq Managed \union Unmanaged /\ strays' \subseteq Managed
      BY <1>0, <1>3, <2>1, OwnedFacts DEF KillInApply, Resources
    <2> QED BY <1>0, <1>3, <2>2 DEF KillInApply, ApplyKilled, Resources
  <1>4. CASE SetupBackend
    <2>1. UNCHANGED <<alive, recorded, outputs, dist, ecs, history>> /\ (bucket' = TRUE \/ bucket' = bucket)
      BY <1>4 DEF SetupBackend, NextPhase
    <2> QED BY <1>0, <2>1 DEF Resources
  <1>5. CASE EnsureSecrets \/ BuildImages \/ DeployFrontend
    BY <1>0, <1>5, QuietResources DEF EnsureSecrets, BuildImages, Ensure, DeployFrontend, NextPhase, Goto, Abort, Quiet, CloudStays
  <1>6. CASE BootstrapEcs
    <2>1. tasks' \in Nat
      BY <1>0, <1>6 DEF BootstrapEcs, Resources
    <2> QED BY <1>0, <1>6, <2>1 DEF BootstrapEcs, NextPhase, Abort, Resources
  <1>7. CASE RollOut
    <2>1. alive' \in {alive, alive \union {"lb", "elb_sg"}}
      BY <1>7 DEF RollOut
    <2> QED BY <1>0, <1>7, <2>1 DEF RollOut, NextPhase, Abort, Resources, Unmanaged
  <1>8. CASE DeployDone
    BY <1>0, <1>8, QuietResources DEF DeployDone, cloud, Quiet, CloudStays
  <1> QED BY <1>1, <1>2, <1>3, <1>4, <1>5, <1>6, <1>7, <1>8 DEF DeployStep

LEMMA DbQuiet == ASSUME DbStep PROVE Quiet /\ polls' \in {0, polls}
  <1> USE DEF Quiet, history
  <1>1. CASE BeginSetup
    BY <1>1 DEF BeginSetup, GiveUp, NextPhase, Goto, End
  <1>2. CASE InitSchema
    BY <1>2 DEF InitSchema, GiveUp, NextPhase, Goto, End
  <1>3. CASE CountRows
    BY <1>3 DEF CountRows, Goto
  <1>4. CASE LoadRaw
    BY <1>4 DEF LoadRaw, GiveUp, NextPhase, Goto, End
  <1>5. CASE CopyScalars
    BY <1>5 DEF CopyScalars, GiveUp, NextPhase, Goto, End
  <1>6. CASE SyncVectors
    BY <1>6 DEF SyncVectors, GiveUp, NextPhase, Goto, End
  <1>7. CASE EndSetup
    BY <1>7 DEF EndSetup, NextPhase, cloud, CloudStays, ecs
  <1> QED BY <1>1, <1>2, <1>3, <1>4, <1>5, <1>6, <1>7 DEF DbStep

LEMMA TeardownPolls == ASSUME Shape, TeardownStep PROVE polls' \in 0..Polls
  <1>0. polls \in 0..Polls /\ Polls \in Nat /\ 0 \in 0..Polls
    BY DrainAssumption DEF Shape, AwsTypeOK
  <1>1. CASE ScaleService \/ DrainTasks
    BY <1>0, <1>1 DEF ScaleService, DrainTasks
  <1>2. ASSUME NEW s \in Stacks, Proceed(s) \/ Skip(s) \/ DestroyStack(s) PROVE polls' \in {0, polls}
    BY <1>2 DEF Proceed, Skip, DestroyStack, NextStack, Goto, Abort, End
  <1>3. ASSUME NEW s \in Frontends, Resolve(s) \/ Disable(s) \/ WaitForDeployed(s) \/ DeleteDistribution(s)
                                    \/ WaitForGone(s) \/ DeleteOac(s) \/ Reconcile(s)
        PROVE  polls' \in {0, polls}
    BY <1>3 DEF Resolve, Disable, WaitForDeployed, DeleteDistribution, WaitForGone, DeleteOac, Reconcile, Goto, Abort, End
  <1>4. CASE RemoveRule \/ Drained \/ CleanCluster \/ RemoveEksGroups \/ RemoveElbGroups
    BY <1>0, <1>4 DEF RemoveRule, Drained, CleanCluster, RemoveEksGroups, RemoveElbGroups, NextStack, Goto
  <1>5. CASE StacksDone \/ DeleteLogGroups \/ DeleteStateBackend
    BY <1>0, <1>5 DEF StacksDone, DeleteLogGroups, DeleteStateBackend, Goto, End
  <1> QED BY <1>0, <1>1, <1>2, <1>3, <1>4, <1>5 DEF TeardownStep

LEMMA DeployPolls == ASSUME Shape, DeployStep PROVE polls' \in 0..Polls
  <1>0. polls \in 0..Polls /\ 0 \in 0..Polls
    BY DrainAssumption DEF Shape, AwsTypeOK
  <1>1. ASSUME NEW s \in Stacks, ImportExisting(s) \/ Apply(s) \/ KillInApply(s) PROVE polls' \in {0, polls}
    BY <1>1 DEF ImportExisting, Apply, KillInApply, Goto, NextPhase, Abort, End
  <1>2. CASE SetupBackend \/ EnsureSecrets \/ BuildImages \/ DeployFrontend \/ BootstrapEcs \/ RollOut \/ DeployDone
    BY <1>0, <1>2 DEF SetupBackend, EnsureSecrets, BuildImages, Ensure, DeployFrontend, BootstrapEcs, RollOut, DeployDone,
                      Goto, NextPhase, Abort, End
  <1> QED BY <1>0, <1>1, <1>2 DEF DeployStep

(* The database. *)
LEMMA LeftFacts ==
  ASSUME NEW d \in Database
  PROVE  /\ Left(d) \in Database /\ Left(d).tables = d.tables /\ Left(d).raw = d.raw /\ Left(d).emb = d.emb /\ Left(d).vec = d.vec
         /\ Left(d).upset = (d.upset \/ Misleading(d)) /\ Misleading(Left(d)) = Misleading(d)
         /\ Wanted(Left(d)) = Wanted(d) /\ Whole(Left(d)) = Whole(d)
  BY DEF Left, Database, Misleading, Whole, Wanted

LEMMA NoDatabaseFacts == NoDatabase \in Database /\ ~Misleading(NoDatabase)
  <1>1. 0 \in 0..MaxCalls
    BY CsvAssumption
  <1> QED BY <1>1 DEF NoDatabase, Database, Misleading, Tables

LEMMA MisleadingIsBoolean == ASSUME NEW d PROVE Misleading(d) \in BOOLEAN /\ Whole(d) \in BOOLEAN
  BY DEF Misleading, Whole

LEMMA FollowsTyped == ASSUME DbTypeOK, DbFollows PROVE DbTypeOK'
  BY NoDatabaseFacts DEF DbTypeOK, DbFollows, NoDatabase

LEMMA LeftTyped == ASSUME DbTypeOK, NEW d \in Database, db' = Left(d), forced' \in BOOLEAN,
                          "raw" \notin d.tables => d.raw = {}, "emb" \notin d.tables => d.emb = {}, d.vec \subseteq d.emb
                   PROVE  DbTypeOK'
  BY LeftFacts DEF DbTypeOK

LEMMA GiveUpTyped ==
  ASSUME DbTypeOK, NEW d \in Database, GiveUp(d),
         "raw" \notin d.tables => d.raw = {}, "emb" \notin d.tables => d.emb = {}, d.vec \subseteq d.emb
  PROVE  DbTypeOK'
  BY LeftTyped DEF GiveUp

LEMMA InsertedFacts ==
  ASSUME DbTypeOK, "raw" \in db.tables, NEW n \in 0..Csv
  PROVE  /\ Inserted(n) \in Database /\ Inserted(n).tables = db.tables /\ Inserted(n).emb = db.emb /\ Inserted(n).vec = db.vec
         /\ Inserted(n).raw = db.raw \union (1..n) /\ Inserted(n).upset = db.upset /\ Inserted(n).gone = db.gone
  <1>1. db.raw \union (1..n) \in SUBSET Held
    BY CsvAssumption DEF DbTypeOK, Database, Held, File, User
  <1> QED BY <1>1 DEF DbTypeOK, Database, Inserted

LEMMA EmbeddedFacts ==
  ASSUME DbTypeOK, NEW rows \in SUBSET File
  PROVE  /\ Embedded(rows) \in Database /\ Embedded(rows).tables = db.tables /\ Embedded(rows).emb = db.emb
         /\ Embedded(rows).raw = db.raw /\ Embedded(rows).upset = db.upset /\ Embedded(rows).gone = db.gone
         /\ Embedded(rows).vec = db.vec \union (rows \intersect db.emb \intersect File)
         /\ Embedded(rows).vec \subseteq db.emb
  BY DEF DbTypeOK, Database, Embedded

LEMMA SyncedFacts ==
  ASSUME NEW d \in Database
  PROVE  /\ Synced(d) \in Database /\ Synced(d).tables = d.tables /\ Synced(d).raw = d.raw /\ Synced(d).emb = d.emb
         /\ Synced(d).vec = d.vec /\ Synced(d).upset = (d.upset /\ ~Whole(d))
         /\ Whole(d) => Whole(Synced(d))
  <1> DEFINE u == d.upset /\ ~Whole(d)
             g == IF File \subseteq d.raw \intersect d.vec THEN {} ELSE d.gone
  <1>1. u \in BOOLEAN /\ g \in SUBSET File
    BY DEF Database
  <1>2. Synced(d) = [d EXCEPT !.upset = u, !.gone = g]
    BY DEF Synced
  <1>3. Whole(d) => File \ g \subseteq d.raw \intersect d.vec
    BY DEF Whole, Wanted
  <1> HIDE DEF u, g
  <1>4. /\ Synced(d) \in Database /\ Synced(d).tables = d.tables /\ Synced(d).raw = d.raw /\ Synced(d).emb = d.emb
        /\ Synced(d).vec = d.vec /\ Synced(d).upset = u /\ Synced(d).gone = g
    BY <1>1, <1>2 DEF Database
  <1>5. Whole(d) => Whole(Synced(d))
    BY <1>3, <1>4 DEF Whole, Wanted
  <1> QED BY <1>4, <1>5 DEF u

LEMMA ChangedFacts ==
  ASSUME DbTypeOK, NEW gone \in SUBSET Tables, NEW made \in SUBSET Tables
  PROVE  /\ Changed(gone, made) \in Database
         /\ Changed(gone, made).tables = (db.tables \ gone) \union made
         /\ Changed(gone, made).raw = (IF "raw" \in gone THEN {} ELSE db.raw)
         /\ Changed(gone, made).emb = (IF "emb" \in gone THEN {} ELSE db.emb)
         /\ Changed(gone, made).vec = (IF "emb" \in gone THEN {} ELSE db.vec)
         /\ Changed(gone, made).upset = db.upset
         /\ Changed(gone, made).gone = (IF "raw" \in gone THEN {} ELSE db.gone)
         /\ "raw" \notin Changed(gone, made).tables => Changed(gone, made).raw = {}
         /\ "emb" \notin Changed(gone, made).tables => Changed(gone, made).emb = {}
         /\ Changed(gone, made).vec \subseteq Changed(gone, made).emb
  <1>1. /\ db \in Database /\ db.tables \in SUBSET Tables /\ db.raw \in SUBSET Held
        /\ db.emb \in SUBSET Held /\ db.vec \in SUBSET File /\ db.upset \in BOOLEAN /\ db.gone \in SUBSET File
    BY DEF DbTypeOK, Database
  <1>2. /\ Changed(gone, made).tables = (db.tables \ gone) \union made
        /\ Changed(gone, made).raw = (IF "raw" \in gone THEN {} ELSE db.raw)
        /\ Changed(gone, made).emb = (IF "emb" \in gone THEN {} ELSE db.emb)
        /\ Changed(gone, made).vec = (IF "emb" \in gone THEN {} ELSE db.vec)
        /\ Changed(gone, made).upset = db.upset
        /\ Changed(gone, made).gone = (IF "raw" \in gone THEN {} ELSE db.gone)
    BY <1>1 DEF Changed, Database
  <1>3. Changed(gone, made) \in Database
    BY <1>1 DEF Changed, Database
  <1> QED BY <1>1, <1>2, <1>3 DEF DbTypeOK

LEMMA DroppedFacts == Dropped \in SUBSET Tables /\ Tables \in SUBSET Tables /\ {"emb"} \in SUBSET Tables
                      /\ (\A t : Dropped \ {t} \in SUBSET Tables) /\ (\A t : t \in {{}, {"raw"}} => t \in SUBSET Tables)
  BY DEF Dropped, Tables

LEMMA DbStepTyped == ASSUME DbTypeOK, DbInv, DbStep PROVE DbTypeOK'
  <1>0. db \in Database /\ forced \in BOOLEAN
    BY DEF DbTypeOK
  <1> USE CsvAssumption
  <1>1. CASE BeginSetup
    <2>1. CASE GiveUp(db)
      BY <1>0, <2>1, GiveUpTyped DEF DbTypeOK
    <2>2. CASE forced' \in BOOLEAN /\ UNCHANGED db
      BY <2>2 DEF DbTypeOK
    <2> QED BY <1>1, <2>1, <2>2 DEF BeginSetup
  <1>2. CASE InitSchema
    <2>1. ASSUME NEW gone \in SUBSET Tables, NEW made \in SUBSET Tables, db' = Changed(gone, made), UNCHANGED forced PROVE DbTypeOK'
      BY <1>0, <2>1, ChangedFacts DEF DbTypeOK
    <2>2. ASSUME NEW gone \in SUBSET Tables, NEW made \in SUBSET Tables, GiveUp(Changed(gone, made)) PROVE DbTypeOK'
      <3> DEFINE d == Changed(gone, made)
      <3>1. /\ d \in Database
            /\ "raw" \notin d.tables => d.raw = {}
            /\ "emb" \notin d.tables => d.emb = {}
            /\ d.vec \subseteq d.emb
        BY ChangedFacts
      <3>2. GiveUp(d)
        BY <2>2
      <3> HIDE DEF d
      <3> QED BY <3>1, <3>2, GiveUpTyped
    <2> QED BY <1>2, <2>1, <2>2, DroppedFacts DEF InitSchema
  <1>3. CASE CountRows
    BY <1>3 DEF CountRows, dbVars, DbTypeOK
  <1>4. CASE LoadRaw
    <2>1. CASE UNCHANGED dbVars
      BY <2>1 DEF dbVars, DbTypeOK
    <2>2. CASE GiveUp(db)
      BY <1>0, <2>2, GiveUpTyped DEF DbTypeOK
    <2>3. CASE "raw" \in db.tables /\ db' = Inserted(Csv) /\ UNCHANGED forced
      <3>1. Csv \in 0..Csv
        OBVIOUS
      <3>2. Inserted(Csv) \in Database /\ Inserted(Csv).tables = db.tables /\ Inserted(Csv).emb = db.emb /\ Inserted(Csv).vec = db.vec
        BY <2>3, <3>1, InsertedFacts
      <3>3. db' \in Database /\ db'.tables = db.tables /\ db'.emb = db.emb /\ db'.vec = db.vec
        BY <2>3, <3>2
      <3> QED BY <1>0, <2>3, <3>3 DEF DbTypeOK
    <2>4. ASSUME "raw" \in db.tables, NEW n \in 0..Csv - 1, GiveUp(Inserted(n)) PROVE DbTypeOK'
      <3>1. n \in 0..Csv
        OBVIOUS
      <3> QED BY <2>4, <3>1, InsertedFacts, GiveUpTyped DEF DbTypeOK
    <2> QED BY <1>4, <2>1, <2>2, <2>3, <2>4 DEF LoadRaw
  <1>5. CASE CopyScalars
    <2>1. CASE UNCHANGED dbVars
      BY <2>1 DEF dbVars, DbTypeOK
    <2>2. CASE GiveUp(db)
      BY <1>0, <2>2, GiveUpTyped DEF DbTypeOK
    <2>3. CASE db' = [db EXCEPT !.emb = @ \union db.raw] /\ UNCHANGED forced
      <3>1. "emb" \in db.tables
        BY <1>5 DEF CopyScalars, In, DbInv, Loading
      <3>2. db.emb \union db.raw \in SUBSET Held /\ db.vec \subseteq db.emb \union db.raw
        BY <1>0 DEF DbTypeOK, Database
      <3> QED BY <1>0, <2>3, <3>1, <3>2 DEF DbTypeOK, Database
    <2> QED BY <1>5, <2>1, <2>2, <2>3 DEF CopyScalars
  <1>6. CASE SyncVectors
    <2>1. ASSUME NEW rows \in SUBSET File, GiveUp(Embedded(rows)) PROVE DbTypeOK'
      BY <2>1, EmbeddedFacts, GiveUpTyped DEF DbTypeOK
    <2>2. CASE db' = Synced(Embedded(File)) /\ UNCHANGED forced
      <3>1. Embedded(File) \in Database /\ Embedded(File).tables = db.tables /\ Embedded(File).emb = db.emb
            /\ Embedded(File).raw = db.raw /\ Embedded(File).vec \subseteq db.emb
        BY EmbeddedFacts
      <3>2. db' \in Database /\ db'.tables = db.tables /\ db'.emb = db.emb /\ db'.raw = db.raw /\ db'.vec \subseteq db.emb
        BY <2>2, <3>1, SyncedFacts
      <3> QED BY <1>0, <2>2, <3>2 DEF DbTypeOK
    <2>3. CASE db' = Left(db) /\ UNCHANGED forced
      BY <1>0, <2>3, LeftTyped DEF DbTypeOK
    <2> QED BY <1>6, <2>1, <2>2, <2>3 DEF SyncVectors
  <1>7. CASE EndSetup
    BY <1>7 DEF EndSetup, DbTypeOK
  <1> QED BY <1>1, <1>2, <1>3, <1>4, <1>5, <1>6, <1>7 DEF DbStep

LEMMA KillTyped == ASSUME DbTypeOK, KillTool PROVE DbTypeOK'
  BY LeftTyped DEF KillTool, DbTypeOK

(* What a user's call makes of the database: a row more, with or without its   *)
(* vectors, or one less.                                                        *)
LEMMA SavedFacts ==
  ASSUME DbTypeOK, NEW r \in Held, SaveRow(r)
  PROVE  \E d \in Database :
           /\ db' = Counted(d) /\ d.tables = db.tables /\ d.upset = db.upset /\ d.gone = db.gone
           /\ db.raw \subseteq d.raw /\ db.emb \subseteq d.emb /\ db.vec \subseteq d.vec /\ d.vec \subseteq d.emb
  <1>1. /\ db \in Database /\ db.raw \in SUBSET Held /\ db.emb \in SUBSET Held /\ db.vec \in SUBSET File
        /\ db.calls \in 0..MaxCalls /\ db.calls < MaxCalls /\ db.vec \subseteq db.emb /\ MaxCalls \in Nat
    BY CsvAssumption DEF DbTypeOK, Database, SaveRow, UserCall
  <1>2. db.calls + 1 \in 0..MaxCalls
    BY <1>1
  <1>3. CASE db' = Counted(Saved(r))
    <2>1. /\ Saved(r) \in Database /\ Saved(r).tables = db.tables /\ Saved(r).upset = db.upset /\ Saved(r).gone = db.gone
          /\ Saved(r).raw = db.raw \union {r} /\ Saved(r).emb = db.emb \union {r}
          /\ Saved(r).vec = db.vec \union ({r} \intersect File)
      BY <1>1, <1>2 DEF Saved, Database
    <2> QED BY <1>1, <1>3, <2>1
  <1>4. ASSUME NEW tables, db' = Counted(SavedPart(r, tables))
        PROVE  \E d \in Database :
                 /\ db' = Counted(d) /\ d.tables = db.tables /\ d.upset = db.upset /\ d.gone = db.gone
                 /\ db.raw \subseteq d.raw /\ db.emb \subseteq d.emb /\ db.vec \subseteq d.vec /\ d.vec \subseteq d.emb
    <2> DEFINE d == SavedPart(r, tables)
    <2>1. /\ d \in Database /\ d.tables = db.tables /\ d.upset = db.upset /\ d.gone = db.gone
          /\ d.raw = db.raw \union {r} /\ d.vec = db.vec
          /\ d.emb = (IF "emb" \in tables THEN db.emb \union {r} ELSE db.emb)
      BY <1>1, <1>2 DEF SavedPart, Database
    <2>2. db' = Counted(d)
      BY <1>4
    <2> HIDE DEF d
    <2> QED BY <1>1, <2>1, <2>2
  <1> QED BY <1>3, <1>4 DEF SaveRow

LEMMA DeletedFacts ==
  ASSUME DbTypeOK, NEW r \in Held, DeleteRow(r)
  PROVE  /\ db' \in Database /\ db'.tables = db.tables /\ db'.upset = db.upset
         /\ db'.raw = db.raw \ {r} /\ db'.emb = db.emb \ {r} /\ db'.vec = db.vec \ {r}
         /\ Wanted(db') = Wanted(db) \ {r}
  <1>1. /\ db \in Database /\ db.raw \in SUBSET Held /\ db.emb \in SUBSET Held /\ db.vec \in SUBSET File
        /\ db.calls \in 0..MaxCalls /\ db.calls < MaxCalls /\ MaxCalls \in Nat /\ db.gone \in SUBSET File
    BY CsvAssumption DEF DbTypeOK, Database, DeleteRow, UserCall
  <1>2. db.calls + 1 \in 0..MaxCalls
    BY <1>1
  <1>3. /\ db' \in Database /\ db'.tables = db.tables /\ db'.upset = db.upset
        /\ db'.raw = db.raw \ {r} /\ db'.emb = db.emb \ {r} /\ db'.vec = db.vec \ {r}
        /\ db'.gone = db.gone \union ({r} \intersect File)
    BY <1>1, <1>2 DEF DeleteRow, Deleted, Database
  <1>4. Wanted(db') = Wanted(db) \ {r}
    BY <1>3 DEF Wanted
  <1> QED BY <1>3, <1>4

LEMMA UsersTyped == ASSUME DbTypeOK, NEW r \in Held, SaveRow(r) \/ DeleteRow(r) PROVE DbTypeOK'
  <1>1. db \in Database /\ forced' \in BOOLEAN /\ db.tables = Tables
    BY DEF SaveRow, DeleteRow, UserCall, DbTypeOK
  <1>2. CASE SaveRow(r)
    <2>1. PICK d \in Database : /\ db' = Counted(d) /\ d.tables = db.tables /\ d.vec \subseteq d.emb
      BY <1>2, SavedFacts
    <2>2. db' = d \/ db' = Left(d)
      BY <2>1 DEF Counted
    <2>3. db' \in Database /\ db'.tables = d.tables /\ db'.vec = d.vec /\ db'.emb = d.emb
      BY <2>2, LeftFacts
    <2> QED BY <1>1, <2>1, <2>3 DEF DbTypeOK, Tables
  <1>3. CASE DeleteRow(r)
    <2>1. db' \in Database /\ db'.tables = db.tables /\ db'.vec \subseteq db'.emb
      BY <1>3, DeletedFacts DEF DbTypeOK
    <2> QED BY <1>1, <2>1 DEF DbTypeOK, Tables
  <1> QED BY <1>2, <1>3

(* What a step of the tool keeps: control, that is, where it is and what is left. *)
LEMMA MovedShape ==
  ASSUME Shape, Moved, Resources', DbTypeOK', polls' \in 0..Polls, hung' \in BOOLEAN, hung' => proc' # "idle"
  PROVE  Shape'
  <1>1. /\ proc \in {"idle", "deploy", "teardown"} /\ result \in {"none", "ok", "failed", "killed"}
        /\ (proc = "idle") = (point = "end") /\ scope \in Scopes \union {"post"} /\ incl \in Including /\ todo \in Seq(Names)
    BY DEF Shape, AwsTypeOK
  <1>2. <<>> \in Seq(Names)
    BY EmptySeq
  <1>3. todo # <<>> => Tail(todo) \in Seq(Names)
    BY <1>1, Rest
  <1>4. /\ proc' \in {"idle", "deploy", "teardown"} /\ result' \in {"none", "ok", "failed", "killed"}
        /\ (proc' = "idle") = (point' = "end") /\ scope' \in Scopes \union {"post"} /\ incl' \in Including /\ todo' \in Seq(Names)
        /\ faults' \in 0..MaxFaults
    BY <1>1, <1>2, <1>3 DEF Moved
  <1>5. (Resources /\ DbTypeOK /\ faults \in 0..MaxFaults /\ polls \in 0..Polls
     /\ proc \in {"idle", "deploy", "teardown"} /\ result \in {"none", "ok", "failed", "killed"}
     /\ (proc = "idle") = (point = "end") /\ scope \in Scopes \union {"post"} /\ incl \in Including /\ todo \in Seq(Names)
     /\ hung \in BOOLEAN /\ (hung => proc # "idle")
       => Shape)'
    BY ShapeParts, PTL
  <1> QED BY <1>4, <1>5

LEMMA KillMoved == ASSUME Shape, KillTool PROVE Moved /\ Quiet /\ polls' = 0 /\ ~hung'
  <1>1. UNCHANGED <<scope, incl>> /\ polls' = 0 /\ proc # "idle" /\ proc' = "idle" /\ result' = "killed" /\ todo' = <<>> /\ point' = "end"
    BY DEF KillTool, End
  <1>2. faults' \in 0..MaxFaults
    BY CallFacts DEF KillTool
  <1>3. Quiet /\ ~hung'
    BY DEF KillTool, Quiet, CloudStays
  <1> QED BY <1>1, <1>2, <1>3 DEF Moved

(* A command that does not come back changes nothing but that. *)
LEMMA HangMoved ==
  ASSUME Shape, Hang
  PROVE  Moved /\ Quiet /\ UNCHANGED <<teardownVars, dbVars, alive, recorded, bucket, outputs, dist, ecs>> /\ proc # "idle"
  <1>1. UNCHANGED <<teardownVars, dbVars, alive, recorded, bucket, outputs, dist, ecs>> /\ proc # "idle"
    BY DEF Hang
  <1>2. faults' \in 0..MaxFaults
    BY CallFacts DEF Hang
  <1>3. point' # "end" /\ UNCHANGED <<scope, incl, proc, result, todo, misread, strays>>
    BY <1>1 DEF Shape, AwsTypeOK, teardownVars, run, history
  <1>4. Moved
    BY <1>1, <1>2, <1>3 DEF Moved
  <1>5. Quiet
    BY <1>1, <1>3 DEF Quiet, CloudStays, history
  <1> QED BY <1>1, <1>4, <1>5

(* The operator starts a tool, which has all of its way before it. *)
Started ==
  /\ proc = "idle" /\ Quiet /\ faults' \in 0..MaxFaults /\ polls' = polls /\ result' = "none"
  /\ \/ /\ proc' = "deploy" /\ point' = "start" /\ incl' = "none" /\ scope' \in Scopes /\ todo' = Phases(scope')
     \/ /\ proc' = "teardown" /\ point' = "probe" /\ incl' \in Including
        /\ (scope' \in Scopes /\ todo' = Plan(scope', incl')) \/ (scope' = "post" /\ todo' = <<>>)

LEMMA OperatorStarts == ASSUME Shape, Operator PROVE Started
  <1>0. DOMAIN Order = Scopes /\ "all" \in Scopes
    BY DEF Order, Scopes
  <1>1. ASSUME NEW sc \in Scopes, StartDeploy(sc) PROVE Started
    BY <1>1 DEF StartDeploy, Started, Quiet, CloudStays, cloud, ecs, Shape, AwsTypeOK, CloudTypeOK
  <1>2. ASSUME NEW sc \in Scopes, NEW in \in Including, StartTeardown(sc, in) PROVE Started
    BY <1>2 DEF StartTeardown, Started, Quiet, CloudStays, cloud, ecs, Shape, AwsTypeOK, CloudTypeOK
  <1>3. ASSUME NEW in \in {"dura", "all"}, StartPostDestroy(in) PROVE Started
    <2>1. faults' \in 0..MaxFaults
      BY <1>3, CallFacts DEF StartPostDestroy
    <2> QED BY <1>3, <2>1 DEF StartPostDestroy, Started, Quiet, CloudStays, Including
  <1> QED BY <1>0, <1>1, <1>2, <1>3 DEF Operator, Including

LEMMA StartedShape == ASSUME Shape, Started, UNCHANGED <<dbVars, hung>> PROVE Shape'
  <1>1. Resources'
    BY ShapeParts, QuietResources DEF Started
  <1>2. DbTypeOK'
    BY DEF Shape, AwsTypeOK, DbTypeOK, dbVars
  <1>3. polls' \in 0..Polls /\ faults' \in 0..MaxFaults
    BY DEF Started, Shape, AwsTypeOK, CloudTypeOK
  <1>4. <<>> \in Seq(Names)
    BY EmptySeq
  <1>5. /\ proc' \in {"idle", "deploy", "teardown"} /\ result' \in {"none", "ok", "failed", "killed"}
        /\ (proc' = "idle") = (point' = "end") /\ scope' \in Scopes \union {"post"} /\ incl' \in Including
        /\ proc = "idle" /\ proc' # "idle"
    BY DEF Started, Shape, Including
  <1>6. todo' \in Seq(Names)
    <2>1. CASE scope' \in Scopes /\ todo' = Phases(scope')
      BY <1>5, <2>1, PhasesFacts
    <2>2. CASE scope' \in Scopes /\ todo' = Plan(scope', incl')
      BY <1>5, <2>2, PlanFacts
    <2> QED BY <1>4, <2>1, <2>2 DEF Started
  <1>8. hung' \in BOOLEAN /\ (hung' => proc' # "idle")
    BY <1>5 DEF Shape, AwsTypeOK
  <1>7. (Resources /\ DbTypeOK /\ faults \in 0..MaxFaults /\ polls \in 0..Polls
     /\ proc \in {"idle", "deploy", "teardown"} /\ result \in {"none", "ok", "failed", "killed"}
     /\ (proc = "idle") = (point = "end") /\ scope \in Scopes \union {"post"} /\ incl \in Including /\ todo \in Seq(Names)
     /\ hung \in BOOLEAN /\ (hung => proc # "idle")
       => Shape)'
    BY ShapeParts, PTL
  <1> QED BY <1>1, <1>2, <1>3, <1>5, <1>6, <1>7, <1>8

(* AWS alone: tasks and distributions. *)
LEMMA AwsAlone ==
  ASSUME Shape, Aws
  PROVE  /\ Shape' /\ UNCHANGED <<teardownVars, dbVars, hung, alive, recorded, bucket, outputs, trigger, service, faults>>
         /\ \/ dist' = dist /\ tasks' \in Nat /\ (tasks' > tasks => trigger = "on" \/ service = 1)
            \/ /\ tasks' = tasks
               /\ \E f \in Frontends : dist[f] \in {"propagating", "deleting"} /\ dist' = [dist EXCEPT ![f] = dist'[f]]
               /\ \A f \in Frontends : dist'[f] \in {dist[f], "none", "disabled"}
  <1>0. Shape /\ dist \in [Frontends -> Dists] /\ tasks \in Nat
    BY DEF Shape, AwsTypeOK, CloudTypeOK
  <1>1. UNCHANGED <<teardownVars, dbVars, hung, alive, recorded, bucket, outputs, trigger, service, faults>>
    BY DEF Aws, TaskStarts, TaskEnds, Propagate, Propagates, ecs
  <1>2. CASE TaskStarts \/ TaskEnds
    <2>1. dist' = dist /\ tasks' \in Nat /\ (tasks' > tasks => trigger = "on" \/ service = 1)
      BY <1>0, <1>2 DEF TaskStarts, TaskEnds
    <2>2. Shape'
      BY <1>0, <1>1, <2>1 DEF Shape, AwsTypeOK, CloudTypeOK, DbTypeOK, teardownVars, dbVars, run, history
    <2> QED BY <1>1, <2>1, <2>2
  <1>3. CASE Propagate
    <2>1. PICK f \in Frontends : Propagates(f)
      BY <1>3 DEF Propagate
    <2>2. /\ tasks' = tasks /\ dist' = [dist EXCEPT ![f] = IF dist[f] = "deleting" THEN "none" ELSE "disabled"]
          /\ dist[f] \in {"propagating", "deleting"}
      BY <2>1 DEF Propagates, ecs
    <2>3. dist' \in [Frontends -> Dists]
      BY <1>0, <2>2 DEF Dists
    <2>4. Shape'
      BY <1>0, <1>1, <2>2, <2>3 DEF Shape, AwsTypeOK, CloudTypeOK, DbTypeOK, teardownVars, dbVars, run, history
    <2>5. dist' = [dist EXCEPT ![f] = dist'[f]]
      BY <1>0, <2>2
    <2>6. \A g \in Frontends : dist'[g] \in {dist[g], "none", "disabled"}
      BY <1>0, <2>2
    <2> QED BY <1>1, <2>2, <2>4, <2>5, <2>6
  <1> QED BY <1>2, <1>3 DEF Aws

LEMMA AwsShape ==
  ASSUME Shape, DbInv, [AwsNext]_awsVars
  PROVE  Shape'
  <1>0. DbTypeOK
    BY DEF Shape, AwsTypeOK
  <1>01. ~hung => hung \in BOOLEAN /\ (hung => proc' # "idle")
    BY DEF Shape, AwsTypeOK
  <1>1. CASE Operator /\ UNCHANGED <<dbVars, hung>>
    BY <1>1, OperatorStarts, StartedShape
  <1>2. CASE DbStep /\ ~hung /\ UNCHANGED hung
    <2>1. polls' \in 0..Polls
      BY <1>2, DbQuiet, DrainAssumption DEF Shape, AwsTypeOK
    <2> QED BY <1>0, <1>01, <1>2, <2>1, DbMoved, DbQuiet, DbStepTyped, ShapeParts, QuietResources, MovedShape
  <1>3. CASE DeployStep /\ DbFollows /\ ~hung /\ UNCHANGED hung
    BY <1>0, <1>01, <1>3, DeployMoved, DeployResources, DeployPolls, FollowsTyped, MovedShape
  <1>4. CASE TeardownStep /\ DbFollows /\ ~hung /\ UNCHANGED hung
    BY <1>0, <1>01, <1>4, TeardownMoved, TeardownResources, TeardownPolls, FollowsTyped, MovedShape
  <1>5. CASE KillTool
    <2>1. polls' \in 0..Polls
      BY <1>5, KillMoved, DrainAssumption
    <2>2. hung' \in BOOLEAN /\ ~hung'
      BY <1>5 DEF KillTool
    <2> QED BY <1>0, <1>5, <2>1, <2>2, KillMoved, KillTyped, ShapeParts, QuietResources, MovedShape
  <1>6. CASE Aws
    BY <1>6, AwsAlone
  <1>7. CASE \E r \in Held : (SaveRow(r) \/ DeleteRow(r)) /\ UNCHANGED hung
    <2>1. UNCHANGED <<teardownVars, hung>> /\ CloudStays /\ DbTypeOK' /\ faults' \in 0..MaxFaults
      BY <1>0, <1>7, UsersTyped, CallFacts DEF SaveRow, DeleteRow, UserCall
    <2> QED BY <2>1 DEF Shape, AwsTypeOK, CloudTypeOK, CloudStays, ecs, teardownVars, run, history
  <1>8. CASE Hang
    <2>1. Moved /\ Quiet /\ UNCHANGED <<teardownVars, dbVars>> /\ proc # "idle" /\ hung' = TRUE
      BY <1>8, HangMoved DEF Hang
    <2>2. DbTypeOK' /\ polls' \in 0..Polls /\ hung' \in BOOLEAN /\ proc' # "idle"
      BY <1>0, <2>1 DEF DbTypeOK, dbVars, teardownVars, run, Shape, AwsTypeOK
    <2> QED BY <2>1, <2>2, ShapeParts, QuietResources, MovedShape
  <1>9. CASE UNCHANGED awsVars
    BY <1>9 DEF Shape, AwsTypeOK, CloudTypeOK, DbTypeOK, awsVars, dbVars, cloud, ecs, teardownVars, run, history
  <1> QED BY <1>1, <1>2, <1>3, <1>4, <1>5, <1>6, <1>7, <1>8, <1>9 DEF AwsNext, Step, Users

-----------------------------------------------------------------------------
(* What the state files know. *)

LEMMA MovedOrder ==
  ASSUME Shape, OrderInv, Moved,
         proc = "teardown" /\ point' \in {"logs", "backend"} => scope \in {"all", "post"},
         proc = "teardown" /\ point' = "backend" => incl = "all"
  PROVE  OrderInv'
  <1>0. todo \in Seq(Names)
    BY DEF Shape
  <1>1. CASE proc' # "teardown"
    BY <1>1 DEF OrderInv
  <1>2. CASE proc' = "teardown" /\ todo' = todo
    BY <1>2 DEF Moved, OrderInv, Ahead
  <1>3. CASE proc' = "teardown" /\ todo # <<>> /\ todo' = Tail(todo)
    <2>1. proc = "teardown" /\ UNCHANGED <<scope, incl>>
      BY <1>3 DEF Moved
    <2>2. \A i \in DOMAIN todo' : i \in Nat /\ i + 1 \in DOMAIN todo /\ todo'[i] = todo[i + 1]
      BY <1>0, <1>3, Rest
    <2>3. \A i, j \in DOMAIN todo' : todo'[i] = "durable" /\ todo'[j] \in Frontends => j < i
      <3>1. TAKE i, j \in DOMAIN todo'
      <3>2. HAVE todo'[i] = "durable" /\ todo'[j] \in Frontends
      <3>3. j + 1 < i + 1
        BY <2>1, <2>2, <3>2 DEF OrderInv
      <3> QED BY <2>2, <3>3
    <2>4. (Ahead("durable"))' => Ahead("durable")
      BY <2>2 DEF Ahead
    <2> QED BY <1>3, <2>1, <2>3, <2>4 DEF OrderInv
  <1> QED BY <1>1, <1>2, <1>3 DEF Moved

LEMMA StartedOrder == ASSUME Started PROVE OrderInv'
  <1>1. CASE proc' = "deploy"
    BY <1>1 DEF OrderInv
  <1>2. CASE proc' = "teardown" /\ todo' = <<>>
    <2>1. point' = "probe" /\ DOMAIN todo' = {}
      BY <1>2, EmptySeq, LenProperties DEF Started
    <2> QED BY <2>1 DEF OrderInv, Ahead
  <1>3. CASE proc' = "teardown" /\ scope' \in Scopes /\ todo' = Plan(scope', incl')
    <2>1. point' = "probe" /\ incl' \in Including
      BY <1>3 DEF Started
    <2> QED BY <1>3, <2>1, PlanFacts DEF OrderInv, Ahead
  <1> QED BY <1>1, <1>2, <1>3 DEF Started

LEMMA TeardownPoints ==
  ASSUME Shape, OrderInv, TeardownStep
  PROVE  /\ point' \in {"logs", "backend"} => scope \in {"all", "post"}
         /\ point' = "backend" => incl = "all"
         /\ point' = "elb_sg" => DestroyStack("kube") /\ DestroyWorks("kube")
  <1>1. ASSUME NEW s \in Stacks, Proceed(s) \/ Skip(s) PROVE point' \notin {"logs", "backend", "elb_sg"}
    BY <1>1 DEF Proceed, Skip, NextStack
  <1>2. ASSUME NEW s \in Stacks, DestroyStack(s), point' \in {"logs", "backend", "elb_sg"}
        PROVE  point' = "elb_sg" /\ s = "kube" /\ DestroyWorks("kube")
    BY <1>2 DEF DestroyStack, Goto, NextStack, Abort, End
  <1>3. ASSUME NEW s \in Frontends, Resolve(s) \/ Disable(s) \/ WaitForDeployed(s) \/ DeleteDistribution(s)
                                    \/ WaitForGone(s) \/ DeleteOac(s) \/ Reconcile(s)
        PROVE  point' \notin {"logs", "backend", "elb_sg"}
    BY <1>3 DEF Resolve, Disable, WaitForDeployed, DeleteDistribution, WaitForGone, DeleteOac, Reconcile, Goto, Abort, End
  <1>4. CASE RemoveRule \/ ScaleService \/ DrainTasks \/ Drained \/ CleanCluster \/ RemoveEksGroups \/ RemoveElbGroups
    <2>1. point' \notin {"logs", "backend", "elb_sg"}
      BY <1>4 DEF RemoveRule, ScaleService, DrainTasks, Drained, CleanCluster, RemoveEksGroups, RemoveElbGroups, NextStack, Goto, At
    <2> QED BY <2>1
  <1>5. CASE StacksDone
    BY <1>5 DEF StacksDone, Goto, End
  <1>6. CASE DeleteLogGroups
    BY <1>6 DEF DeleteLogGroups, Stacksless, Goto, End, OrderInv
  <1>7. CASE DeleteStateBackend
    BY <1>7 DEF DeleteStateBackend, End
  <1> QED BY <1>1, <1>2, <1>3, <1>4, <1>5, <1>6, <1>7 DEF TeardownStep

LEMMA MovedBehind ==
  ASSUME Shape, BehindInv, Moved, misread \subseteq misread', strays \subseteq strays',
         recorded' \subseteq recorded \union strays',
         proc' = "teardown" /\ todo # <<>> /\ todo' = Tail(todo) /\ Head(todo) \in Stacks =>
           Head(todo) \in misread' \/ Owned[Head(todo)] \intersect recorded' \subseteq strays',
         proc' = "teardown" /\ point' = "elb_sg" => Owned["kube"] \intersect recorded' = {}
  PROVE  BehindInv'
  <1>1. At("elb_sg", "kube")' => (Owned["kube"] \intersect recorded)' = {}
    BY DEF At
  <1>2. ASSUME proc' = "teardown", scope' = "all", NEW s \in Stacks
        PROVE  (Ahead(s) \/ Spared(s))' \/ s \in misread' \/ Owned[s] \intersect recorded' \subseteq strays'
    <2>1. proc = "teardown" /\ scope = "all" /\ UNCHANGED <<scope, incl>>
      BY <1>2 DEF Moved
    <2>2. Ahead(s) \/ Spared(s) \/ s \in misread \/ Owned[s] \intersect recorded \subseteq strays
      BY <2>1 DEF BehindInv
    <2>3. Spared(s)' <=> Spared(s)
      BY <2>1 DEF Spared
    <2>4. CASE todo' = todo
      <3>1. Ahead(s)' <=> Ahead(s)
        BY <2>4 DEF Ahead
      <3> QED BY <2>2, <2>3, <3>1
    <2>5. CASE todo # <<>> /\ todo' = Tail(todo)
      <3>1. /\ \A i \in DOMAIN todo : i # 1 => i - 1 \in DOMAIN todo' /\ todo'[i - 1] = todo[i]
            /\ Head(todo) = todo[1]
        BY <2>5, Rest DEF Shape
      <3>2. Ahead(s) => Ahead(s)' \/ s = Head(todo)
        BY <3>1 DEF Ahead
      <3> QED BY <1>2, <2>2, <2>3, <2>5, <3>2
    <2> QED BY <1>2, <2>4, <2>5 DEF Moved
  <1> QED BY <1>1, <1>2 DEF BehindInv

LEMMA StartedBehind == ASSUME Started PROVE BehindInv'
  <1>1. CASE proc' = "deploy"
    BY <1>1 DEF BehindInv, At
  <1>2. CASE proc' = "teardown" /\ scope' = "post"
    <2>1. point' = "probe"
      BY <1>2 DEF Started
    <2> QED BY <1>2, <2>1 DEF BehindInv, At
  <1>3. CASE proc' = "teardown" /\ scope' \in Scopes /\ todo' = Plan(scope', incl')
    <2>1. point' = "probe" /\ scope' \in Scopes /\ incl' \in Including
      BY <1>3 DEF Started
    <2>2. scope' = "all" => \A s \in Stacks : (Ahead(s) \/ Spared(s))'
      BY <1>3, <2>1, PlanFacts DEF Ahead, Spared
    <2> QED BY <2>1, <2>2 DEF BehindInv, At
  <1> QED BY <1>1, <1>2, <1>3 DEF Started

(* Steps that leave the state files alone, and add nothing they would list. *)
Kept == UNCHANGED <<recorded, outputs, history>> /\ alive' \intersect Managed \subseteq alive
        /\ (bucket' = bucket \/ recorded = {})

LEMMA KeptKnown == ASSUME StateKnowsAll, NothingStranded, Kept PROVE (StateKnowsAll /\ NothingStranded)'
  BY DEF StateKnowsAll, NothingStranded, Kept, history

LEMMA ImportKnown ==
  ASSUME StateKnowsAll, NothingStranded, NEW s \in Stacks, NEW found \in SUBSET (Owned[s] \intersect alive),
         recorded' = recorded \union found, UNCHANGED <<alive, bucket, outputs, history>>
  PROVE  (StateKnowsAll /\ NothingStranded)' /\ recorded' \subseteq recorded \union strays
  <1>1. found \subseteq alive \intersect Managed
    BY OwnedFacts
  <1>2. recorded' \subseteq recorded \union strays
    BY <1>1 DEF StateKnowsAll
  <1>3. StateKnowsAll'
    BY DEF StateKnowsAll, history
  <1>4. NothingStranded'
    BY <1>2 DEF NothingStranded, history
  <1> QED BY <1>2, <1>3, <1>4

LEMMA DestroyKnown ==
  ASSUME Shape, KnownInv, NEW s \in Stacks, At("destroy", s), NEW gone, Destroy(s, gone), UNCHANGED history
  PROVE  (StateKnowsAll /\ NothingStranded)' /\ recorded' = recorded \ gone
  <1>1. recorded' = recorded \ gone /\ gone \subseteq Owned[s] \intersect recorded
        /\ bucket' = bucket /\ outputs' = (outputs /\ s # "durable")
        /\ \E left \in SUBSET {"eks_sg"} : alive' = (alive \ gone) \union left
    BY DEF Destroy
  <1>2. alive' \intersect Managed \subseteq alive \ gone
    BY <1>1, OwnedFacts DEF Unmanaged
  <1>3. StateKnowsAll'
    BY <1>1, <1>2 DEF KnownInv, StateKnowsAll, history
  <1>4. CASE s # "durable"
    <2>1. outputs \in BOOLEAN
      BY DEF Shape, AwsTypeOK, CloudTypeOK
    <2>2. outputs' = outputs
      BY <1>1, <1>4, <2>1
    <2>3. NothingStranded'
      BY <1>1, <2>2 DEF KnownInv, NothingStranded, history
    <2> QED BY <1>1, <1>3, <2>3
  <1>5. CASE s = "durable"
    <2>1. proc = "teardown" /\ todo # <<>> /\ todo[1] = "durable" /\ 1 \in DOMAIN todo /\ DOMAIN todo \subseteq Nat
      BY <1>5, Rest DEF At, Shape
    <2>2. scope = "all"
      BY <2>1 DEF KnownInv, OrderInv, Ahead
    <2>3. \A f \in Frontends : ~Ahead(f)
      <3>1. SUFFICES ASSUME NEW f \in Frontends, NEW j \in DOMAIN todo, todo[j] = f PROVE FALSE
        BY DEF Ahead
      <3>2. j < 1
        BY <2>1, <3>1 DEF KnownInv, OrderInv
      <3>3. j \in DOMAIN todo /\ DOMAIN todo = 1..Len(todo)
        BY LenProperties DEF Shape
      <3> QED BY <3>2, <3>3
    <2>4. \A f \in Frontends : f \in misread \/ Owned[f] \intersect recorded \subseteq strays
      BY <2>1, <2>2, <2>3 DEF KnownInv, BehindInv, Spared, Frontends, Stacks
    <2>5. NothingStranded'
      BY <1>1, <2>4 DEF NothingStranded, history
    <2> QED BY <1>1, <1>3, <2>5
  <1> QED BY <1>4, <1>5

LEMMA CreateKnown ==
  ASSUME Shape, StateKnowsAll, NothingStranded, NEW s \in Stacks, NEW made \in SUBSET Owned[s],
         Evaluates(s), Create(s, made), outputs' \in {outputs, outputs \/ s = "durable"}, UNCHANGED history
  PROVE  (StateKnowsAll /\ NothingStranded)'
  <1>1. /\ recorded' = recorded \union made /\ bucket' = bucket
        /\ alive' \subseteq alive \union made \union {"logs"}
    BY DEF Create
  <1>2. alive' \intersect Managed \subseteq alive \union made
    BY <1>1, OwnedFacts DEF Unmanaged
  <1>3. StateKnowsAll'
    BY <1>1, <1>2 DEF StateKnowsAll, history
  <1>4. ASSUME NEW f \in Frontends, ~outputs', bucket', f \notin misread' PROVE recorded' \intersect Owned[f] \subseteq strays'
    <2>1. ~outputs
      BY <1>4
    <2>2. s # f
      BY <2>1 DEF Evaluates
    <2>3. made \intersect Owned[f] = {}
      BY <2>2, OwnedFacts DEF Stacks
    <2> QED BY <1>1, <1>4, <2>1, <2>3 DEF NothingStranded, history
  <1>5. NothingStranded'
    BY <1>4 DEF NothingStranded
  <1> QED BY <1>3, <1>5

LEMMA Imports ==
  ASSUME NEW s \in Stacks, ImportAll(s) \/ ImportSome(s) \/ UNCHANGED recorded
  PROVE  \E found \in SUBSET (Owned[s] \intersect alive) : recorded' = recorded \union found
  <1>1. CASE UNCHANGED recorded
    <2>1. recorded' = recorded \union {}
      BY <1>1
    <2> QED BY <2>1
  <1>2. CASE ImportAll(s)
    BY <1>2 DEF ImportAll
  <1>3. CASE ImportSome(s)
    BY <1>3 DEF ImportSome
  <1> QED BY <1>1, <1>2, <1>3

(* The step of a teardown, by what it does to the state files. *)
LEMMA TeardownEffects ==
  ASSUME TeardownStep
  PROVE  \/ Kept /\ (todo' = todo \/ proc' = "idle" \/ At("elb_sg", "kube"))
         \/ \E s \in Stacks : Skip(s) \/ DestroyStack(s)
         \/ \E s \in Frontends : Reconcile(s)
         \/ DeleteStateBackend
  <1> USE DEF history
  <1>1. ASSUME NEW s \in Stacks, Proceed(s) PROVE Kept /\ todo' = todo
    BY <1>1 DEF Proceed, Kept
  <1>2. ASSUME NEW s \in Frontends, Resolve(s) \/ Disable(s) \/ WaitForDeployed(s) \/ DeleteDistribution(s) \/ WaitForGone(s)
        PROVE  Kept /\ (todo' = todo \/ proc' = "idle")
    BY <1>2 DEF Resolve, Disable, WaitForDeployed, DeleteDistribution, WaitForGone, Goto, Abort, End, Kept
  <1>3. ASSUME NEW s \in Frontends, DeleteOac(s)
        PROVE  Kept /\ (todo' = todo \/ proc' = "idle")
    BY <1>3 DEF DeleteOac, Goto, Abort, End, Kept
  <1>4. CASE RemoveRule \/ ScaleService \/ DrainTasks \/ Drained
    BY <1>4 DEF RemoveRule, ScaleService, DrainTasks, Drained, Kept
  <1>5. CASE CleanCluster \/ RemoveEksGroups
    BY <1>5 DEF CleanCluster, RemoveEksGroups, DeleteNamespace, Goto, Kept
  <1>6. CASE RemoveElbGroups
    BY <1>6 DEF RemoveElbGroups, Kept
  <1>7. CASE StacksDone \/ DeleteLogGroups
    BY <1>7 DEF StacksDone, DeleteLogGroups, Goto, End, Kept
  <1> QED BY <1>1, <1>2, <1>3, <1>4, <1>5, <1>6, <1>7 DEF TeardownStep

LEMMA TeardownKnown ==
  ASSUME Shape, KnownInv, TeardownStep
  PROVE  KnownInv'
  <1>1. Moved /\ proc = "teardown"
    BY TeardownMoved
  <1>2. OrderInv'
    BY <1>1, MovedOrder, TeardownPoints DEF KnownInv
  <1>3. point' = "elb_sg" => DestroyStack("kube") /\ DestroyWorks("kube")
    BY TeardownPoints DEF KnownInv
  <1>4. Resources /\ "kube" \in Stacks
    BY ShapeParts DEF Stacks, Frontends
  <1>5. CASE Kept /\ (todo' = todo \/ proc' = "idle" \/ At("elb_sg", "kube"))
    <2>1. (StateKnowsAll /\ NothingStranded)'
      BY <1>5, KeptKnown DEF KnownInv
    <2>2. misread \subseteq misread' /\ strays \subseteq strays' /\ recorded' \subseteq recorded \union strays
      BY <1>5 DEF Kept, history
    <2>3. proc' = "teardown" /\ todo # <<>> /\ todo' = Tail(todo) /\ Head(todo) \in Stacks =>
             Owned[Head(todo)] \intersect recorded' \subseteq strays'
      <3>1. HAVE proc' = "teardown" /\ todo # <<>> /\ todo' = Tail(todo) /\ Head(todo) \in Stacks
      <3>2. todo' # todo
        BY <3>1, Shorter DEF Shape
      <3>3. Head(todo) = "kube" /\ Owned["kube"] \intersect recorded = {}
        BY <1>5, <3>1, <3>2 DEF KnownInv, BehindInv, At
      <3> QED BY <1>5, <3>3 DEF Kept
    <2>4. proc' = "teardown" /\ point' = "elb_sg" => Owned["kube"] \intersect recorded' = {}
      <3>1. ASSUME DestroyWorks("kube") PROVE Owned["kube"] \intersect recorded' = {}
        BY <3>1 DEF DestroyWorks, Destroy
      <3> QED BY <1>3, <3>1
    <2>5. BehindInv'
      BY <1>1, <2>2, <2>3, <2>4, MovedBehind DEF KnownInv
    <2> QED BY <1>2, <2>1, <2>5 DEF KnownInv
  <1>6. ASSUME NEW s \in Stacks, Skip(s) PROVE KnownInv'
    <2>1. /\ At("probe", s) /\ UNCHANGED <<strays, alive, recorded, bucket, outputs>> /\ point' = "probe"
          /\ misread' = IF Sees(s) THEN misread \union {s} ELSE misread
      BY <1>6 DEF Skip, NextStack
    <2>2. (StateKnowsAll /\ NothingStranded)'
      BY <2>1 DEF KnownInv, StateKnowsAll, NothingStranded
    <2>3. s \in misread' \/ Owned[s] \intersect recorded' \subseteq strays'
      <3>1. CASE Sees(s)
        BY <2>1, <3>1
      <3>2. CASE ~bucket
        <4>1. recorded = {}
          BY <1>4, <3>2 DEF Resources
        <4> QED BY <2>1, <4>1
      <3>3. CASE bucket /\ ~Sees(s)
        <4>1. s \in Frontends /\ ~outputs
          BY <3>3 DEF Sees
        <4> QED BY <2>1, <3>3, <4>1 DEF KnownInv, NothingStranded
      <3> QED BY <3>1, <3>2, <3>3
    <2>4. BehindInv'
      <3>1. misread \subseteq misread' /\ strays \subseteq strays' /\ recorded' \subseteq recorded \union strays' /\ Head(todo) = s
        BY <2>1 DEF At
      <3> QED BY <1>1, <2>1, <2>3, <3>1, MovedBehind DEF KnownInv
    <2> QED BY <1>2, <2>2, <2>4 DEF KnownInv
  <1>7. ASSUME NEW s \in Stacks, DestroyStack(s) PROVE KnownInv'
    <2>1. At("destroy", s) /\ UNCHANGED history /\ (DestroyWorks(s) \/ (DestroyFails(s) /\ proc' = "idle"))
      BY <1>7 DEF DestroyStack, Goto, Abort, End
    <2>2. ASSUME NEW gone, Destroy(s, gone), gone = Owned[s] \intersect recorded \/ proc' = "idle" PROVE KnownInv'
      <3>1. (StateKnowsAll /\ NothingStranded)' /\ recorded' = recorded \ gone
        BY <2>1, <2>2, DestroyKnown
      <3>2. CASE proc' = "idle"
        BY <1>2, <3>1, <3>2 DEF KnownInv, BehindInv, At
      <3>3. CASE gone = Owned[s] \intersect recorded /\ proc' # "idle"
        <4>1. Owned[s] \intersect recorded' = {} /\ Head(todo) = s
          BY <2>1, <3>1, <3>3 DEF At
        <4>2. point' = "elb_sg" => s = "kube"
          BY <1>3, <2>1 DEF DestroyStack, At
        <4>3. misread \subseteq misread' /\ strays \subseteq strays' /\ recorded' \subseteq recorded \union strays'
          BY <2>1, <3>1 DEF history
        <4>4. BehindInv'
          BY <1>1, <4>1, <4>2, <4>3, MovedBehind DEF KnownInv
        <4> QED BY <1>2, <3>1, <4>4 DEF KnownInv
      <3> QED BY <2>2, <3>2, <3>3
    <2>3. CASE CloudStays /\ proc' = "idle"
      <3>1. Kept
        BY <2>1, <2>3 DEF Kept, CloudStays, history
      <3> QED BY <1>2, <2>3, <3>1, KeptKnown DEF KnownInv, BehindInv, At
    <2>4. CASE DestroyWorks(s)
      BY <2>2, <2>4 DEF DestroyWorks
    <2>5. CASE DestroyFails(s) /\ proc' = "idle"
      BY <2>2, <2>3, <2>5, DestroyParts
    <2> QED BY <2>1, <2>4, <2>5
  <1>8. ASSUME NEW s \in Frontends, Reconcile(s) PROVE KnownInv'
    <2>1. /\ ImportAll(s) \/ ImportSome(s) \/ UNCHANGED recorded
          /\ UNCHANGED <<alive, bucket, outputs, history>> /\ (todo' = todo \/ proc' = "idle") /\ point' # "elb_sg"
      BY <1>8 DEF Reconcile, Goto, Abort, End, history
    <2>2. s \in Stacks
      BY DEF Stacks
    <2>3. (StateKnowsAll /\ NothingStranded)' /\ recorded' \subseteq recorded \union strays
      BY <2>1, <2>2, Imports, ImportKnown DEF KnownInv
    <2>4. BehindInv'
      <3>1. CASE proc' = "idle"
        BY <3>1 DEF BehindInv, At
      <3>2. CASE todo' = todo
        <4>1. ~(todo # <<>> /\ todo' = Tail(todo))
          BY <3>2, Shorter DEF Shape
        <4>2. misread \subseteq misread' /\ strays \subseteq strays' /\ recorded' \subseteq recorded \union strays'
          BY <2>1, <2>3 DEF history
        <4> QED BY <1>1, <2>1, <4>1, <4>2, MovedBehind DEF KnownInv
      <3> QED BY <2>1, <3>1, <3>2
    <2> QED BY <1>2, <2>3, <2>4 DEF KnownInv
  <1>9. CASE DeleteStateBackend
    <2>1. proc' = "idle" /\ UNCHANGED <<alive, misread>> /\ todo = <<>> /\ point = "backend"
      BY <1>9 DEF DeleteStateBackend, Stacksless, End
    <2>2. BehindInv'
      BY <2>1 DEF BehindInv, At
    <2>3. recorded \subseteq strays' /\ strays \subseteq strays' /\ recorded' \subseteq recorded
      <3>1. strays' = IF misread = {} /\ scope = "all" THEN strays ELSE strays \union recorded
        BY <1>9 DEF DeleteStateBackend
      <3>2. misread = {} /\ scope = "all" => recorded \subseteq strays
        <4>1. HAVE misread = {} /\ scope = "all"
        <4>2. incl = "all"
          BY <1>1, <2>1 DEF KnownInv, OrderInv
        <4>3. \A s \in Stacks : ~Ahead(s) /\ ~Spared(s)
          BY <2>1, <4>2, EmptySeq, LenProperties DEF Ahead, Spared
        <4>4. \A s \in Stacks : Owned[s] \intersect recorded \subseteq strays
          BY <1>1, <4>1, <4>3 DEF KnownInv, BehindInv
        <4> QED BY <1>4, <4>4 DEF Resources, Managed
      <3>3. recorded' \subseteq recorded
        BY <1>9 DEF DeleteStateBackend
      <3> QED BY <3>1, <3>2, <3>3
    <2>4. StateKnowsAll'
      BY <2>1, <2>3 DEF KnownInv, StateKnowsAll
    <2>5. NothingStranded'
      BY <2>3 DEF NothingStranded
    <2> QED BY <1>2, <2>2, <2>4, <2>5 DEF KnownInv
  <1> QED BY <1>5, <1>6, <1>7, <1>8, <1>9, TeardownEffects

LEMMA DeployKnown ==
  ASSUME Shape, KnownInv, DeployStep
  PROVE  KnownInv'
  <1>1. Moved /\ proc = "deploy"
    BY DeployMoved
  <1>2. (OrderInv /\ BehindInv)'
    BY <1>1 DEF Moved, OrderInv, BehindInv, At
  <1>3. Resources
    BY ShapeParts
  <1>4. SUFFICES (StateKnowsAll /\ NothingStranded)'
    BY <1>2 DEF KnownInv
  <1>5. ASSUME NEW s \in Stacks, ImportExisting(s) PROVE (StateKnowsAll /\ NothingStranded)'
    <2>1. /\ ImportAll(s) \/ ImportSome(s) \/ UNCHANGED recorded
          /\ UNCHANGED <<alive, bucket, outputs, history>>
      BY <1>5 DEF ImportExisting, Goto, Abort, history
    <2> QED BY <2>1, Imports, ImportKnown DEF KnownInv
  <1>6. ASSUME NEW s \in Stacks, Apply(s) PROVE (StateKnowsAll /\ NothingStranded)'
    <2>1. UNCHANGED history /\ (ApplyWorks(s) \/ ApplyFails(s))
      BY <1>6 DEF Apply, Goto, NextPhase, Abort
    <2>2. CASE CloudStays
      <3>1. Kept
        BY <2>1, <2>2 DEF Kept, CloudStays, history
      <3> QED BY <3>1, KeptKnown DEF KnownInv
    <2>3. ASSUME Evaluates(s), NEW made \in SUBSET Owned[s], Create(s, made), outputs' \in {outputs, outputs \/ s = "durable"}
          PROVE  (StateKnowsAll /\ NothingStranded)'
      BY <2>1, <2>3, CreateKnown DEF KnownInv
    <2> QED BY <2>1, <2>2, <2>3, ApplyParts
  <1>7. ASSUME NEW s \in Stacks, KillInApply(s) PROVE (StateKnowsAll /\ NothingStranded)'
    <2>1. UNCHANGED <<recorded, bucket, outputs, misread>> /\ strays' = strays \union (alive' \ alive)
      BY <1>7 DEF KillInApply, ApplyKilled
    <2> QED BY <2>1 DEF KnownInv, StateKnowsAll, NothingStranded
  <1>8. CASE SetupBackend
    <2>1. UNCHANGED <<alive, recorded, outputs, history>> /\ (bucket' = TRUE \/ bucket' = bucket)
      BY <1>8 DEF SetupBackend, NextPhase
    <2>2. bucket' = bucket \/ recorded = {}
      BY <1>3, <2>1 DEF Resources
    <2>3. Kept
      BY <2>1, <2>2 DEF Kept, history
    <2> QED BY <2>3, KeptKnown DEF KnownInv
  <1>9. CASE EnsureSecrets \/ BuildImages \/ DeployFrontend \/ BootstrapEcs \/ DeployDone
    <2>1. Kept
      BY <1>9 DEF EnsureSecrets, BuildImages, Ensure, DeployFrontend, BootstrapEcs, DeployDone, NextPhase, Goto, Abort, Kept, cloud, history
    <2> QED BY <2>1, KeptKnown DEF KnownInv
  <1>10. CASE RollOut
    <2>1. alive' \in {alive, alive \union {"lb", "elb_sg"}} /\ UNCHANGED <<recorded, bucket, outputs, history>>
      BY <1>10 DEF RollOut, NextPhase, Abort
    <2>2. Kept
      BY <2>1, OwnedFacts DEF Kept, Unmanaged, history
    <2> QED BY <2>2, KeptKnown DEF KnownInv
  <1> QED BY <1>5, <1>6, <1>7, <1>8, <1>9, <1>10 DEF DeployStep

LEMMA QuietKnown == ASSUME StateKnowsAll, NothingStranded, Quiet PROVE (StateKnowsAll /\ NothingStranded)'
  <1>1. Kept
    BY DEF Kept, Quiet, CloudStays
  <1> QED BY <1>1, KeptKnown

LEMMA AwsKnown ==
  ASSUME Shape, KnownInv, [AwsNext]_awsVars
  PROVE  KnownInv'
  <1>1. CASE Operator
    <2>1. Started
      BY <1>1, OperatorStarts
    <2> QED BY <2>1, StartedOrder, StartedBehind, QuietKnown DEF KnownInv, Started
  <1>2. CASE DbStep
    <2>1. Quiet /\ Moved /\ proc = "deploy"
      BY <1>2, DbMoved, DbQuiet DEF Loading
    <2> QED BY <2>1, QuietKnown DEF KnownInv, Moved, OrderInv, BehindInv, At
  <1>3. CASE DeployStep
    BY <1>3, DeployKnown
  <1>4. CASE TeardownStep
    BY <1>4, TeardownKnown
  <1>5. CASE KillTool
    <2>1. Quiet /\ proc' = "idle"
      BY <1>5, KillMoved DEF KillTool, End
    <2> QED BY <2>1, QuietKnown DEF KnownInv, OrderInv, BehindInv, At
  <1>6. ASSUME UNCHANGED <<teardownVars, alive, recorded, bucket, outputs>> PROVE KnownInv'
    BY <1>6 DEF KnownInv, OrderInv, BehindInv, Ahead, Spared, At, StateKnowsAll, NothingStranded, teardownVars, run, history
  <1>7. CASE Aws \/ Hang
    BY <1>6, <1>7, AwsAlone DEF Hang
  <1>8. CASE Users
    BY <1>6, <1>8 DEF Users, SaveRow, DeleteRow, UserCall, CloudStays
  <1>9. CASE UNCHANGED awsVars
    BY <1>6, <1>9 DEF awsVars, cloud
  <1> QED BY <1>1, <1>2, <1>3, <1>4, <1>5, <1>7, <1>8, <1>9 DEF AwsNext, Step

-----------------------------------------------------------------------------
(* What a destroy finds prepared. *)

Preparing(s) ==
  \/ s = "nonkube" /\ (RemoveRule \/ ScaleService \/ DrainTasks \/ Drained)
  \/ s = "kube" /\ (CleanCluster \/ RemoveEksGroups)
  \/ Resolve(s) \/ Disable(s) \/ WaitForDeployed(s) \/ DeleteDistribution(s) \/ WaitForGone(s) \/ DeleteOac(s) \/ Reconcile(s)

LEMMA TeardownPlace ==
  ASSUME TeardownStep, NEW s \in Frontends, proc' = "teardown", todo' # <<>>, Head(todo') = s,
         point' \in {"scale", "drain", "eks_sg"} \union Waiting
  PROVE  todo' = todo /\ Preparing(s)
  <1>0. s \in {"nonkube", "kube"} /\ point' \notin {"probe", "pre", "elb_sg", "logs", "backend", "end"} /\ proc' # "idle"
    BY DEF Frontends, Waiting
  <1>1. ASSUME NEW t \in Stacks, Proceed(t) PROVE FALSE
    BY <1>0, <1>1 DEF Proceed, At, Waiting
  <1>2. ASSUME NEW t \in Stacks, Skip(t) \/ DestroyStack(t) PROVE FALSE
    BY <1>0, <1>2 DEF Skip, DestroyStack, NextStack, Goto, Abort, End
  <1>3. ASSUME NEW t \in Frontends, Resolve(t) \/ Disable(t) \/ WaitForDeployed(t) \/ DeleteDistribution(t)
                                    \/ WaitForGone(t) \/ DeleteOac(t) \/ Reconcile(t)
        PROVE  todo' = todo /\ t = s
    <2>1. At("resolve", t) \/ At("disable", t) \/ At("deployed", t) \/ At("delete", t) \/ At("gone", t) \/ At("oac", t) \/ At("import", t)
      BY <1>3 DEF Resolve, Disable, WaitForDeployed, DeleteDistribution, WaitForGone, DeleteOac, Reconcile
    <2>2. todo' = todo
      BY <1>0, <1>3 DEF Resolve, Disable, WaitForDeployed, DeleteDistribution, WaitForGone, DeleteOac, Reconcile, Goto, Abort, End
    <2> QED BY <2>1, <2>2 DEF At
  <1>4. CASE RemoveRule \/ ScaleService \/ DrainTasks \/ Drained
    <2>1. todo' = todo /\ Head(todo) = "nonkube"
      BY <1>4 DEF RemoveRule, ScaleService, DrainTasks, Drained, At
    <2> QED BY <1>4, <2>1 DEF Preparing
  <1>5. CASE CleanCluster \/ RemoveEksGroups
    <2>1. todo' = todo /\ Head(todo) = "kube"
      BY <1>5 DEF CleanCluster, RemoveEksGroups, Goto, At
    <2> QED BY <1>5, <2>1 DEF Preparing
  <1>6. CASE RemoveElbGroups
    BY <1>0, <1>6 DEF RemoveElbGroups, NextStack
  <1>7. CASE StacksDone \/ DeleteLogGroups \/ DeleteStateBackend
    BY <1>0, <1>7 DEF StacksDone, DeleteLogGroups, DeleteStateBackend, Goto, End
  <1> QED BY <1>1, <1>2, <1>3, <1>4, <1>5, <1>6, <1>7 DEF TeardownStep, Preparing

LEMMA PreparingTasks ==
  ASSUME Shape, TasksInv, TeardownStep
  PROVE  TasksInv'
  <1>1. SUFFICES ASSUME proc' = "teardown", todo' # <<>>, Head(todo') = "nonkube", ~uncertain',
                        point' \in {"scale", "drain", "eks_sg"} \union Waiting
                 PROVE  /\ point' \in {"scale", "drain"} \union Waiting => trigger' # "on"
                        /\ point' \in {"drain"} \union Waiting => service' = 0
                        /\ point' \in Waiting => tasks' = 0
    BY DEF TasksInv
  <1>2. todo' = todo /\ Preparing("nonkube")
    BY <1>1, TeardownPlace DEF Frontends
  <1>3. CASE RemoveRule
    BY <1>1, <1>3 DEF RemoveRule, Waiting
  <1>4. CASE ScaleService
    <2>1. proc = "teardown" /\ todo # <<>> /\ Head(todo) = "nonkube" /\ point = "scale" /\ ~uncertain
          /\ service' = 0 /\ trigger' = trigger /\ point' = "drain"
      BY <1>1, <1>4 DEF ScaleService, At
    <2> QED BY <2>1 DEF TasksInv, Waiting
  <1>5. CASE DrainTasks
    <2>1. proc = "teardown" /\ todo # <<>> /\ Head(todo) = "nonkube" /\ point = "drain" /\ ~uncertain
          /\ UNCHANGED <<service, trigger, point>>
      BY <1>1, <1>5 DEF DrainTasks, At
    <2> QED BY <2>1 DEF TasksInv, Waiting
  <1>6. CASE Drained
    <2>1. proc = "teardown" /\ todo # <<>> /\ Head(todo) = "nonkube" /\ point = "drain" /\ ~uncertain
          /\ UNCHANGED <<service, trigger, tasks>> /\ tasks = 0
      BY <1>1, <1>6 DEF Drained, At, ecs
    <2> QED BY <2>1 DEF TasksInv, Waiting
  <1>7. CASE Resolve("nonkube") \/ Disable("nonkube") \/ WaitForDeployed("nonkube") \/ DeleteDistribution("nonkube")
             \/ WaitForGone("nonkube") \/ DeleteOac("nonkube") \/ Reconcile("nonkube")
    <2>1. point \in Waiting /\ proc = "teardown" /\ todo # <<>> /\ Head(todo) = "nonkube" /\ UNCHANGED ecs
      BY <1>7 DEF Resolve, Disable, WaitForDeployed, DeleteDistribution, WaitForGone, DeleteOac, Reconcile, At, Waiting
    <2>2. uncertain' = uncertain
      BY <1>1, <1>7 DEF Resolve, Disable, WaitForDeployed, DeleteDistribution, WaitForGone, DeleteOac, Reconcile, Goto, Abort, End
    <2> QED BY <1>1, <2>1, <2>2 DEF TasksInv, ecs
  <1> QED BY <1>2, <1>3, <1>4, <1>5, <1>6, <1>7 DEF Preparing

LEMMA PreparingDist ==
  ASSUME Shape, DistInv, TeardownStep
  PROVE  DistInv'
  <1>1. SUFFICES ASSUME NEW s \in Frontends, proc' = "teardown", todo' # <<>>, Head(todo') = s, point' \in {"oac", "import", "destroy"}
                 PROVE  dist'[s] = "none"
    BY DEF DistInv
  <1>2. todo' = todo /\ Preparing(s)
    BY <1>1, TeardownPlace DEF Waiting
  <1>3. CASE RemoveRule \/ ScaleService \/ DrainTasks \/ Drained \/ CleanCluster \/ RemoveEksGroups
    <2>1. point' \in {"scale", "drain", "resolve", "eks_sg"}
      BY <1>3 DEF RemoveRule, ScaleService, DrainTasks, Drained, CleanCluster, RemoveEksGroups, Goto, At
    <2> QED BY <1>1, <2>1
  <1>4. CASE Resolve(s) \/ WaitForGone(s)
    BY <1>1, <1>4 DEF Resolve, WaitForGone, Goto, Abort, End
  <1>5. CASE Disable(s) \/ WaitForDeployed(s) \/ DeleteDistribution(s)
    BY <1>1, <1>5 DEF Disable, WaitForDeployed, DeleteDistribution, Goto, Abort, End
  <1>6. CASE DeleteOac(s) \/ Reconcile(s)
    <2>1. point \in {"oac", "import"} /\ proc = "teardown" /\ todo # <<>> /\ Head(todo) = s /\ dist' = dist
      BY <1>6 DEF DeleteOac, Reconcile, At
    <2> QED BY <2>1 DEF DistInv
  <1> QED BY <1>2, <1>3, <1>4, <1>5, <1>6 DEF Preparing

(* The load balancer lives in the cluster. *)
Balanced == ("lb" \in alive' => "lb" \in alive) /\ ("lb" \in alive' /\ "eks" \in alive => "eks" \in alive')

LEMMA TeardownBalanced == ASSUME TeardownStep PROVE Balanced
  <1> USE DEF Balanced
  <1>1. ASSUME NEW s \in Stacks, NEW gone, Destroy(s, gone) PROVE Balanced
    <2>1. gone \subseteq {r \in Owned[s] \intersect recorded : ~Blocked(r)}
          /\ \E left \in SUBSET {"eks_sg"} : alive' = (alive \ gone) \union left
      BY <1>1 DEF Destroy
    <2>2. "eks" \in gone => "lb" \notin alive
      BY <2>1 DEF Blocked
    <2> QED BY <2>1, <2>2
  <1>2. ASSUME NEW s \in Stacks, DestroyStack(s) PROVE Balanced
    <2>1. DestroyWorks(s) \/ DestroyFails(s)
      BY <1>2 DEF DestroyStack
    <2> QED BY <1>1, <2>1, DestroyParts DEF CloudStays
  <1>3. ASSUME NEW s \in Stacks, Proceed(s) \/ Skip(s) PROVE Balanced
    BY <1>3 DEF Proceed, Skip
  <1>4. ASSUME NEW s \in Frontends, Resolve(s) \/ Disable(s) \/ WaitForDeployed(s) \/ DeleteDistribution(s)
                                    \/ WaitForGone(s) \/ Reconcile(s)
        PROVE  Balanced
    BY <1>4 DEF Resolve, Disable, WaitForDeployed, DeleteDistribution, WaitForGone, Reconcile
  <1>5. ASSUME NEW s \in Frontends, DeleteOac(s) PROVE Balanced
    BY <1>5, OwnedFacts DEF DeleteOac, Frontends
  <1>6. CASE RemoveRule \/ ScaleService \/ DrainTasks \/ Drained \/ StacksDone \/ DeleteStateBackend
    BY <1>6 DEF RemoveRule, ScaleService, DrainTasks, Drained, StacksDone, DeleteStateBackend
  <1>7. CASE CleanCluster \/ RemoveEksGroups \/ RemoveElbGroups \/ DeleteLogGroups
    BY <1>7 DEF CleanCluster, RemoveEksGroups, RemoveElbGroups, DeleteLogGroups, DeleteNamespace
  <1> QED BY <1>2, <1>3, <1>4, <1>5, <1>6, <1>7 DEF TeardownStep

LEMMA PreparingBalancer ==
  ASSUME Shape, BalancerInv, TeardownStep
  PROVE  BalancerInv'
  <1>0. Balanced /\ proc = "teardown" /\ Moved
    BY TeardownBalanced, TeardownMoved
  <1>1. "lb" \in alive' => "eks" \in alive'
    BY <1>0 DEF Balanced, BalancerInv
  <1>2. ~In("applied", "kube")'
    BY <1>0 DEF In, Moved
  <1>3. ASSUME proc' = "teardown", todo' # <<>>, Head(todo') = "kube", ~uncertain', point' \in {"eks_sg"} \union Waiting
        PROVE  "lb" \notin alive'
    <2>1. todo' = todo /\ Preparing("kube")
      BY <1>3, TeardownPlace DEF Frontends
    <2>2. CASE CleanCluster
      BY <1>3, <2>2 DEF CleanCluster, DeleteNamespace, BalancerInv
    <2>3. CASE RemoveEksGroups
      <3>1. point = "eks_sg" /\ todo # <<>> /\ Head(todo) = "kube" /\ uncertain' = uncertain
        BY <2>3 DEF RemoveEksGroups, At, Goto
      <3> QED BY <1>0, <1>3, <3>1 DEF BalancerInv, Balanced
    <2>4. CASE Resolve("kube") \/ Disable("kube") \/ WaitForDeployed("kube") \/ DeleteDistribution("kube")
             \/ WaitForGone("kube") \/ DeleteOac("kube") \/ Reconcile("kube")
      <3>1. point \in Waiting /\ todo # <<>> /\ Head(todo) = "kube"
        BY <2>4 DEF Resolve, Disable, WaitForDeployed, DeleteDistribution, WaitForGone, DeleteOac, Reconcile, At, Waiting
      <3>2. uncertain' = uncertain
        BY <1>3, <2>4 DEF Resolve, Disable, WaitForDeployed, DeleteDistribution, WaitForGone, DeleteOac, Reconcile, Goto, Abort, End
      <3> QED BY <1>0, <1>3, <3>1, <3>2 DEF BalancerInv, Balanced
    <2> QED BY <2>1, <2>2, <2>3, <2>4 DEF Preparing
  <1> QED BY <1>1, <1>2, <1>3 DEF BalancerInv

LEMMA DeployBalancer ==
  ASSUME Shape, BalancerInv, DeployStep
  PROVE  BalancerInv'
  <1>0. Moved /\ proc = "deploy"
    BY DeployMoved
  <1>1. SUFFICES ("lb" \in alive' => "eks" \in alive') /\ (In("applied", "kube")' => "eks" \in alive')
    BY <1>0 DEF BalancerInv, Moved
  <1>2. ASSUME alive' = alive, point' # "applied" PROVE ("lb" \in alive' => "eks" \in alive') /\ (In("applied", "kube")' => "eks" \in alive')
    BY <1>2 DEF BalancerInv, In
  <1>3. ASSUME NEW s \in Stacks, ImportExisting(s) PROVE ("lb" \in alive' => "eks" \in alive') /\ (In("applied", "kube")' => "eks" \in alive')
    <2>1. alive' = alive /\ In("start", s) /\ (point' = "applied" => PlanClean(s) /\ todo' = todo)
      BY <1>3 DEF ImportExisting, Goto, Abort, End
    <2>2. In("applied", "kube")' => s = "kube" /\ PlanClean("kube")
      BY <2>1 DEF In
    <2> QED BY <2>1, <2>2, OwnedFacts DEF BalancerInv, PlanClean
  <1>4. ASSUME NEW s \in Stacks, Apply(s) PROVE ("lb" \in alive' => "eks" \in alive') /\ (In("applied", "kube")' => "eks" \in alive')
    <2>1. CASE CloudStays /\ proc' = "idle"
      BY <2>1 DEF CloudStays, In, BalancerInv
    <2>2. ASSUME NEW made \in SUBSET Owned[s], Create(s, made)
          PROVE  ("lb" \in alive' => "eks" \in alive') /\ alive \union made \subseteq alive'
      <3>1. alive \union made \subseteq alive' /\ alive' \subseteq alive \union made \union {"logs"}
        BY <2>2 DEF Create
      <3>2. "lb" \notin made
        BY OwnedFacts DEF Unmanaged
      <3> QED BY <3>1, <3>2 DEF BalancerInv
    <2>3. CASE ApplyWorks(s) /\ todo # <<>> /\ Head(todo) = s
      <3>1. "lb" \in alive' => "eks" \in alive'
        BY <2>2, <2>3 DEF ApplyWorks
      <3>2. Owned[s] \subseteq alive'
        BY <2>2, <2>3 DEF ApplyWorks
      <3>3. In("applied", "kube")' => s = "kube"
        BY <1>4, <2>3 DEF Apply, In, Goto, NextPhase, Abort, End
      <3> QED BY <3>1, <3>2, <3>3, OwnedFacts
    <2>4. CASE ApplyFails(s) /\ proc' = "idle"
      BY <2>1, <2>2, <2>4, ApplyParts DEF In
    <2> QED BY <1>4, <2>3, <2>4 DEF Apply, Applying, In, Abort, End
  <1>5. ASSUME NEW s \in Stacks, KillInApply(s) PROVE ("lb" \in alive' => "eks" \in alive') /\ (In("applied", "kube")' => "eks" \in alive')
    <2>1. PICK r \in Owned[s] : alive' = alive \union {r}
      BY <1>5 DEF KillInApply, ApplyKilled
    <2>2. r # "lb" /\ proc' = "idle"
      BY <1>5, OwnedFacts DEF Unmanaged, KillInApply, End
    <2> QED BY <2>1, <2>2 DEF BalancerInv, In
  <1>6. CASE SetupBackend \/ EnsureSecrets \/ BuildImages \/ DeployFrontend \/ BootstrapEcs \/ DeployDone
    <2>1. alive' = alive /\ point' # "applied"
      BY <1>6 DEF SetupBackend, EnsureSecrets, BuildImages, Ensure, DeployFrontend, BootstrapEcs, DeployDone, cloud,
                  NextPhase, Goto, Abort, End
    <2> QED BY <1>2, <2>1
  <1>7. CASE RollOut
    <2>1. "eks" \in alive /\ alive \subseteq alive' /\ point' # "applied"
      BY <1>7 DEF RollOut, NextPhase, Abort, End, BalancerInv
    <2> QED BY <2>1 DEF In
  <1> QED BY <1>3, <1>4, <1>5, <1>6, <1>7 DEF DeployStep

LEMMA QuietPrep ==
  ASSUME PrepInv, Quiet,
         proc' = "teardown" => point' = "probe",
         proc' = "deploy" => point' # "applied"
  PROVE  PrepInv'
  BY DEF PrepInv, TasksInv, BalancerInv, DistInv, Quiet, CloudStays, In, Waiting

LEMMA AwsPrepared ==
  ASSUME Shape, PrepInv, [AwsNext]_awsVars
  PROVE  PrepInv'
  <1>1. CASE Operator
    <2>1. Quiet /\ (proc' = "teardown" => point' = "probe") /\ (proc' = "deploy" => point' # "applied")
      BY <1>1, OperatorStarts DEF Started
    <2> QED BY <2>1, QuietPrep
  <1>2. CASE DbStep
    <2>1. Quiet /\ proc' # "teardown" /\ point' # "applied"
      <3>1. Quiet /\ Moved /\ proc = "deploy"
        BY <1>2, DbMoved, DbQuiet DEF Loading
      <3>2. point' # "applied"
        BY <1>2 DEF DbStep, BeginSetup, InitSchema, CountRows, LoadRaw, CopyScalars, SyncVectors, EndSetup, GiveUp, NextPhase, Goto, End
      <3> QED BY <3>1, <3>2 DEF Moved
    <2> QED BY <2>1, QuietPrep
  <1>3. CASE DeployStep
    <2>1. proc' # "teardown"
      BY <1>3, DeployMoved DEF Moved
    <2>2. BalancerInv'
      BY <1>3, DeployBalancer DEF PrepInv
    <2> QED BY <2>1, <2>2 DEF PrepInv, TasksInv, DistInv
  <1>4. CASE TeardownStep
    BY <1>4, PreparingTasks, PreparingDist, PreparingBalancer DEF PrepInv
  <1>5. CASE KillTool
    <2>1. Quiet /\ proc' = "idle"
      BY <1>5, KillMoved DEF KillTool, End
    <2> QED BY <2>1, QuietPrep
  <1>6. CASE Aws
    <2>0. UNCHANGED <<teardownVars, alive, trigger, service>>
      BY <1>6, AwsAlone
    <2>1. BalancerInv'
      BY <2>0 DEF PrepInv, BalancerInv, In, teardownVars, run
    <2>2. TasksInv'
      <3>1. SUFFICES ASSUME proc = "teardown", todo # <<>>, Head(todo) = "nonkube", ~uncertain, point \in Waiting PROVE tasks' = 0
        BY <2>0 DEF PrepInv, TasksInv, teardownVars, run
      <3>2. trigger # "on" /\ service = 0 /\ tasks = 0
        BY <3>1 DEF PrepInv, TasksInv
      <3>3. (tasks' \in Nat /\ (tasks' > tasks => trigger = "on" \/ service = 1)) \/ tasks' = tasks
        BY <1>6, AwsAlone
      <3> QED BY <3>2, <3>3
    <2>3. DistInv'
      <3>1. SUFFICES ASSUME NEW s \in Frontends, dist[s] = "none" PROVE dist'[s] = "none"
        BY <2>0 DEF PrepInv, DistInv, teardownVars, run
      <3>2. dist \in [Frontends -> Dists]
        BY DEF Shape, AwsTypeOK, CloudTypeOK
      <3> QED BY <1>6, <3>1, <3>2, AwsAlone
    <2> QED BY <2>1, <2>2, <2>3 DEF PrepInv
  <1>7. ASSUME CloudStays, UNCHANGED teardownVars PROVE PrepInv'
    BY <1>7 DEF PrepInv, TasksInv, BalancerInv, DistInv, In, teardownVars, run, CloudStays, ecs
  <1>8. CASE Users \/ Hang \/ UNCHANGED awsVars
    <2>1. CloudStays /\ UNCHANGED teardownVars
      BY <1>8 DEF Users, SaveRow, DeleteRow, UserCall, Hang, CloudStays, awsVars, cloud
    <2> QED BY <1>7, <2>1
  <1> QED BY <1>1, <1>2, <1>3, <1>4, <1>5, <1>6, <1>8 DEF AwsNext, Step

-----------------------------------------------------------------------------
(* What the set-up takes for loaded. *)

LEMMA LeftKept ==
  ASSUME NEW d \in Database, db' = Left(d), Loading' => point' = "start"
  PROVE  DbInv'
  <1>1. Misleading(d) \in BOOLEAN /\ d.upset \in BOOLEAN
    BY MisleadingIsBoolean DEF Database
  <1>2. Misleading(Left(d)) => Left(d).upset
    BY <1>1, LeftFacts
  <1>3. Misleading(db') => db'.upset
    BY <1>2
  <1>4. (Misleading(db) => db.upset)'
    BY <1>3
  <1> QED BY <1>4 DEF DbInv

LEMMA OutsideKept ==
  ASSUME DbInv, ~Loading, db' = db \/ db' = NoDatabase, Loading' => point' = "start"
  PROVE  DbInv'
  <1>1. Misleading(db) => db.upset
    BY DEF DbInv
  <1>2. Misleading(db') => db'.upset
    BY <1>1, NoDatabaseFacts
  <1>3. (Misleading(db) => db.upset)'
    BY <1>2
  <1> QED BY <1>3 DEF DbInv

LEMMA GiveUpKept == ASSUME NEW d \in Database, GiveUp(d) PROVE DbInv'
  <1>1. Loading' => point' = "start"
    BY DEF GiveUp, NextPhase, End, Loading
  <1> QED BY <1>1, LeftKept DEF GiveUp

(* The set-up has gone on: d is what it has left in the database. *)
LEMMA LoadingKept ==
  ASSUME NEW where \in {"schema", "count", "raw", "embed", "vectors", "loaded"}, NEW d, NEW f,
         db' = d, forced' = f, point' = where, Loading',
         Misleading(d) => d.upset \/ where = "vectors" \/ (f /\ where \in {"count", "raw", "embed"}),
         where \in {"count", "raw", "embed", "vectors"} => "emb" \in d.tables,
         where \in {"embed", "vectors"} => Wanted(d) \subseteq d.raw \/ d.upset,
         where = "vectors" => Wanted(d) \subseteq d.emb \/ d.upset,
         where = "loaded" => Whole(d) \/ d.upset
  PROVE  DbInv'
  <1>1. Misleading(db') => db'.upset \/ point' = "vectors" \/ (forced' /\ point' \in {"count", "raw", "embed"})
    OBVIOUS
  <1>2. (Misleading(db) => db.upset \/ point = "vectors" \/ (forced /\ point \in {"count", "raw", "embed"}))'
    BY <1>1
  <1>3. Whole(db') <=> Whole(d)
    OBVIOUS
  <1>4. (point = "loaded" => Whole(db) \/ db.upset)'
    BY <1>3
  <1>5. (point \in {"embed", "vectors"} => Wanted(db) \subseteq db.raw \/ db.upset)'
    <2>1. Wanted(db') = Wanted(d)
      OBVIOUS
    <2> QED BY <2>1
  <1>6. (point = "vectors" => Wanted(db) \subseteq db.emb \/ db.upset)'
    <2>1. Wanted(db') = Wanted(d)
      OBVIOUS
    <2> QED BY <2>1
  <1> QED BY <1>2, <1>4, <1>5, <1>6 DEF DbInv

LEMMA DbStepKept ==
  ASSUME DbTypeOK, DbInv, DbStep
  PROVE  DbInv'
  <1>0. /\ db \in Database /\ forced \in BOOLEAN /\ db.tables \subseteq Tables /\ db.raw \subseteq Held
        /\ db.emb \subseteq Held /\ db.vec \subseteq File /\ db.upset \in BOOLEAN
    BY DEF DbTypeOK, Database
  <1>01. ASSUME NEW a, NEW b, In(a, "database"), Goto(b) PROVE Loading /\ point = a /\ Loading' /\ point' = b
    BY <1>01 DEF In, Goto, Loading, run
  <1>1. CASE BeginSetup
    <2>1. CASE GiveUp(db)
      BY <1>0, <2>1, GiveUpKept
    <2>2. CASE Goto("schema") /\ UNCHANGED db
      <3>1. Loading /\ point = "start" /\ Loading' /\ point' = "schema"
        BY <1>01, <1>1, <2>2 DEF BeginSetup
      <3>2. Misleading(db) => db.upset
        BY <3>1 DEF DbInv
      <3> QED BY <2>2, <3>1, <3>2, LoadingKept
    <2> QED BY <1>1, <2>1, <2>2 DEF BeginSetup
  <1>2. CASE InitSchema
    <2>1. ASSUME NEW gone \in SUBSET Tables, NEW made \in SUBSET Tables, GiveUp(Changed(gone, made)) PROVE DbInv'
      BY <2>1, <1>0, ChangedFacts, GiveUpKept
    <2>2. ASSUME NEW gone \in SUBSET Dropped, NEW made \in SUBSET Tables, "emb" \in made, db' = Changed(gone, made),
                 Goto("count"), UNCHANGED forced
          PROVE  DbInv'
      <3> DEFINE d == Changed(gone, made)
      <3>1. Loading /\ point = "schema" /\ Loading' /\ point' = "count"
        BY <1>01, <1>2, <2>2 DEF InitSchema
      <3>2. gone \in SUBSET Tables /\ (~forced => gone = {})
        BY DEF Dropped
      <3>3. "emb" \in d.tables /\ d.upset = db.upset /\ (gone = {} => d.raw = db.raw /\ d.emb = db.emb /\ d.vec = db.vec /\ d.gone = db.gone)
        BY <2>2, <3>2, ChangedFacts
      <3> HIDE DEF d
      <3>4. ~forced => (Misleading(d) <=> Misleading(db))
        BY <3>2, <3>3 DEF Misleading, Whole, Wanted
      <3>5. Misleading(db) => db.upset
        BY <3>1 DEF DbInv
      <3>6. Misleading(d) => d.upset \/ forced
        BY <1>0, <3>3, <3>4, <3>5
      <3>7. db' = d
        BY <2>2 DEF d
      <3> QED BY <2>2, <3>1, <3>3, <3>6, <3>7, LoadingKept
    <2>3. {} \in SUBSET Tables /\ {"emb"} \in SUBSET Tables /\ {"raw"} \in SUBSET Tables /\ Tables \in SUBSET Tables /\ "emb" \in Tables
          /\ Dropped \in SUBSET Tables
      BY DEF Tables, Dropped
    <2>4. CASE /\ \/ db' = Changed(Dropped, Tables)
                  \/ \E t \in Dropped : db' = Changed(Dropped \ {t}, Tables)
                  \/ db' = Changed(Dropped, {"emb"})
               /\ Goto("count") /\ UNCHANGED forced
      BY <2>2, <2>3, <2>4
    <2>5. CASE \E gone \in SUBSET Dropped, made \in {{}, {"raw"}} : GiveUp(Changed(gone, made))
      BY <2>1, <2>3, <2>5
    <2> QED BY <1>2, <2>4, <2>5 DEF InitSchema
  <1>3. CASE CountRows
    <2>0. Loading /\ point = "count" /\ Loading' /\ UNCHANGED dbVars
      BY <1>01, <1>3 DEF CountRows
    <2>1. CASE Found(db.emb) /\ Goto("loaded")
      <3>1. point' = "loaded" /\ ~forced /\ db.emb # {}
        BY <2>1 DEF Found, Goto
      <3>2. Misleading(db) => db.upset
        BY <2>0, <3>1 DEF DbInv
      <3>3. Whole(db) \/ db.upset
        BY <3>1, <3>2 DEF Misleading
      <3> QED BY <2>0, <3>1, <3>2, <3>3, LoadingKept DEF dbVars
    <2>2. CASE Goto("raw")
      <3>1. point' = "raw"
        BY <2>2 DEF Goto
      <3>2. (Misleading(db) => db.upset \/ forced) /\ "emb" \in db.tables
        BY <2>0 DEF DbInv
      <3> QED BY <2>0, <3>1, <3>2, LoadingKept DEF dbVars
    <2> QED BY <1>3, <2>1, <2>2 DEF CountRows
  <1>4. CASE LoadRaw
    <2>1. CASE Found(db.raw) /\ Goto("embed") /\ UNCHANGED dbVars
      <3>1. Loading /\ point = "raw" /\ Loading' /\ point' = "embed" /\ ~forced /\ db.raw # {}
        BY <1>01, <1>4, <2>1 DEF LoadRaw, Found
      <3>2. (Misleading(db) => db.upset) /\ "emb" \in db.tables
        BY <3>1 DEF DbInv
      <3>3. Wanted(db) \subseteq db.raw \/ db.upset
        BY <3>1, <3>2 DEF Misleading
      <3> QED BY <2>1, <3>1, <3>2, <3>3, LoadingKept DEF dbVars
    <2>2. CASE GiveUp(db)
      BY <1>0, <2>2, GiveUpKept
    <2>3. CASE "raw" \in db.tables /\ db' = Inserted(Csv) /\ Goto("embed") /\ UNCHANGED forced
      <3> DEFINE d == Inserted(Csv)
      <3>1. Loading /\ point = "raw" /\ Loading' /\ point' = "embed"
        BY <1>01, <1>4, <2>3 DEF LoadRaw
      <3>2. Csv \in 0..Csv /\ 1..Csv = File
        BY CsvAssumption DEF File
      <3>3. d.tables = db.tables /\ d.emb = db.emb /\ d.vec = db.vec /\ d.raw = db.raw \union File /\ d.upset = db.upset /\ d.gone = db.gone
        BY <2>3, <3>2, InsertedFacts
      <3>4. Wanted(d) \subseteq File
        BY DEF Wanted
      <3>5. (Misleading(db) => db.upset \/ forced) /\ "emb" \in db.tables
        BY <3>1 DEF DbInv
      <3> HIDE DEF d
      <3>6. Misleading(d) => Misleading(db)
        BY <3>3, <3>4 DEF Misleading, Whole, Wanted
      <3>7. Misleading(d) => d.upset \/ forced
        BY <1>0, <3>3, <3>5, <3>6
      <3>8. db' = d
        BY <2>3 DEF d
      <3> QED BY <2>3, <3>1, <3>3, <3>4, <3>5, <3>7, <3>8, LoadingKept
    <2>4. ASSUME "raw" \in db.tables, NEW n \in 0..Csv - 1, GiveUp(Inserted(n)) PROVE DbInv'
      <3>1. n \in 0..Csv
        BY CsvAssumption
      <3> QED BY <2>4, <3>1, InsertedFacts, GiveUpKept
    <2> QED BY <1>4, <2>1, <2>2, <2>3, <2>4 DEF LoadRaw
  <1>5. CASE CopyScalars
    <2>1. CASE Found(db.emb) /\ Goto("loaded") /\ UNCHANGED dbVars
      <3>1. Loading /\ point = "embed" /\ Loading' /\ point' = "loaded" /\ ~forced /\ db.emb # {}
        BY <1>01, <1>5, <2>1 DEF CopyScalars, Found
      <3>2. Misleading(db) => db.upset
        BY <3>1 DEF DbInv
      <3>3. Whole(db) \/ db.upset
        BY <3>1, <3>2 DEF Misleading
      <3> QED BY <2>1, <3>1, <3>2, <3>3, LoadingKept DEF dbVars
    <2>2. CASE GiveUp(db)
      BY <1>0, <2>2, GiveUpKept
    <2>3. CASE db' = [db EXCEPT !.emb = @ \union db.raw] /\ Goto("vectors") /\ UNCHANGED forced
      <3> DEFINE d == [db EXCEPT !.emb = @ \union db.raw]
      <3>1. Loading /\ point = "embed" /\ Loading' /\ point' = "vectors"
        BY <1>01, <1>5, <2>3 DEF CopyScalars
      <3>2. d.tables = db.tables /\ d.raw = db.raw /\ d.upset = db.upset /\ d.emb = db.emb \union db.raw /\ d.gone = db.gone
        BY <1>0 DEF Database
      <3>3. "emb" \in db.tables /\ (Wanted(db) \subseteq db.raw \/ db.upset)
        BY <3>1 DEF DbInv
      <3>4. Wanted(d) = Wanted(db)
        BY <3>2 DEF Wanted
      <3>5. db' = d
        BY <2>3
      <3> HIDE DEF d
      <3> QED BY <2>3, <3>1, <3>2, <3>3, <3>4, <3>5, LoadingKept
    <2> QED BY <1>5, <2>1, <2>2, <2>3 DEF CopyScalars
  <1>6. CASE SyncVectors
    <2>1. ASSUME NEW rows \in SUBSET File, GiveUp(Embedded(rows)) PROVE DbInv'
      BY <2>1, EmbeddedFacts, GiveUpKept
    <2>2. CASE db' = Synced(Embedded(File)) /\ Goto("loaded") /\ UNCHANGED forced
      <3> DEFINE d == Embedded(File)
                 e == Synced(d)
      <3>1. Loading /\ point = "vectors" /\ Loading' /\ point' = "loaded"
        BY <1>01, <1>6, <2>2 DEF SyncVectors
      <3>2. (Wanted(db) \subseteq db.raw \/ db.upset) /\ (Wanted(db) \subseteq db.emb \/ db.upset) /\ Wanted(db) \subseteq File
        BY <3>1 DEF DbInv, Wanted
      <3>3. d \in Database /\ d.upset = db.upset /\ d.raw = db.raw /\ d.emb = db.emb /\ d.gone = db.gone
            /\ d.vec = db.vec \union (db.emb \intersect File)
        BY EmbeddedFacts
      <3>4. ~db.upset => Whole(d)
        BY <3>2, <3>3 DEF Whole, Wanted
      <3>5. e.upset = (d.upset /\ ~Whole(d)) /\ (Whole(d) => Whole(e))
        BY <3>3, SyncedFacts
      <3>6. db' = e
        BY <2>2
      <3>7. d.upset \in BOOLEAN
        BY <1>0, <3>3
      <3> HIDE DEF d, e
      <3>8. Whole(e) \/ e.upset
        BY <3>3, <3>4, <3>5, <3>7
      <3>9. Misleading(e) => ~Whole(e)
        BY DEF Misleading, Whole
      <3> QED BY <2>2, <3>1, <3>6, <3>8, <3>9, LoadingKept
    <2>3. CASE db' = Left(db) /\ Goto("loaded") /\ UNCHANGED forced
      <3> DEFINE e == Left(db)
      <3>1. Loading /\ point = "vectors" /\ Loading' /\ point' = "loaded" /\ "emb" \in db.tables
        BY <1>01, <1>6, <2>3 DEF SyncVectors, DbInv
      <3>2. e.upset = (db.upset \/ Misleading(db)) /\ Misleading(e) = Misleading(db) /\ Whole(e) = Whole(db)
        BY <1>0, LeftFacts
      <3>3. Misleading(e) => e.upset
        BY <3>2
      <3>4. Whole(db) \/ e.upset
        <4>1. (Wanted(db) \subseteq db.raw \/ db.upset) /\ (Wanted(db) \subseteq db.emb \/ db.upset)
          BY <3>1 DEF DbInv
        <4>2. CASE db.upset
          BY <3>2, <4>2
        <4>3. CASE Wanted(db) \subseteq db.emb /\ Wanted(db) # {}
          BY <3>2, <4>3 DEF Misleading
        <4>4. CASE Wanted(db) = {}
          BY <4>4 DEF Whole
        <4> QED BY <4>1, <4>2, <4>3, <4>4
      <3>5. db' = e
        BY <2>3
      <3>6. Whole(e) \/ e.upset
        BY <3>2, <3>4
      <3> HIDE DEF e
      <3> QED BY <2>3, <3>1, <3>3, <3>5, <3>6, LoadingKept
    <2> QED BY <1>6, <2>1, <2>2, <2>3 DEF SyncVectors
  <1>7. CASE EndSetup
    <2>1. Loading /\ point = "loaded" /\ point' = "start" /\ db' = db
      BY <1>7 DEF EndSetup, In, NextPhase, Loading
    <2>2. Misleading(db) => db.upset
      BY <2>1 DEF DbInv
    <2>3. Misleading(db') => db'.upset
      BY <2>1, <2>2
    <2>4. (Misleading(db) => db.upset)'
      BY <2>3
    <2> QED BY <2>1, <2>4 DEF DbInv
  <1> QED BY <1>1, <1>2, <1>3, <1>4, <1>5, <1>6, <1>7 DEF DbStep

(* A user's call while nothing else happens keeps DbInv, if it takes nothing   *)
(* from the database that it should have.                                       *)
LEMMA CallKept ==
  ASSUME DbInv, UNCHANGED <<forced, teardownVars>>, NEW d, db' = d, d.tables = db.tables,
         db.upset => d.upset, Misleading(d) => Misleading(db) \/ d.upset,
         Wanted(db) \subseteq db.raw => Wanted(d) \subseteq d.raw,
         Wanted(db) \subseteq db.emb => Wanted(d) \subseteq d.emb,
         Whole(db) => Whole(d)
  PROVE  DbInv'
  <1>1. UNCHANGED <<point, proc, todo>>
    BY DEF teardownVars, run
  <1>2. /\ Wanted(db') = Wanted(d) /\ (Misleading(db') <=> Misleading(d)) /\ (Whole(db') <=> Whole(d))
    OBVIOUS
  <1>3. Loading' <=> Loading
    BY <1>1 DEF Loading
  <1>4. (Misleading(db) /\ ~db.upset => Loading /\ (point = "vectors" \/ (forced /\ point \in {"count", "raw", "embed"})))'
    BY <1>1, <1>2, <1>3 DEF DbInv
  <1>5. (Loading => (point \in {"embed", "vectors"} => Wanted(db) \subseteq db.raw \/ db.upset))'
    BY <1>1, <1>2, <1>3 DEF DbInv
  <1>6. (Loading => (point = "vectors" => Wanted(db) \subseteq db.emb \/ db.upset))'
    BY <1>1, <1>2, <1>3 DEF DbInv
  <1>7. (Loading => (point = "loaded" => Whole(db) \/ db.upset))'
    BY <1>1, <1>2, <1>3 DEF DbInv
  <1>8. (Loading => (point \in {"count", "raw", "embed", "vectors"} => "emb" \in db.tables))'
    BY <1>1, <1>3 DEF DbInv
  <1> QED BY <1>4, <1>5, <1>6, <1>7, <1>8 DEF DbInv

LEMMA SavedKept == ASSUME DbTypeOK, DbInv, NEW r \in Held, SaveRow(r) PROVE DbInv'
  <1>1. UNCHANGED <<forced, teardownVars>>
    BY DEF SaveRow, UserCall
  <1>2. PICK d \in Database :
           /\ db' = Counted(d) /\ d.tables = db.tables /\ d.upset = db.upset /\ d.gone = db.gone
           /\ db.raw \subseteq d.raw /\ db.emb \subseteq d.emb /\ db.vec \subseteq d.vec
    BY SavedFacts
  <1>3. Wanted(d) = Wanted(db)
    BY <1>2 DEF Wanted
  <1>4. Whole(db) => Whole(d)
    BY <1>2, <1>3 DEF Whole
  <1>5. CASE {} \in {db.raw, db.emb}
    <2>1. db' = Left(d)
      BY <1>2, <1>5 DEF Counted
    <2>2. /\ Left(d).upset = (d.upset \/ Misleading(d)) /\ Misleading(Left(d)) = Misleading(d)
          /\ Wanted(Left(d)) = Wanted(d) /\ Whole(Left(d)) = Whole(d)
          /\ Left(d).tables = d.tables /\ Left(d).raw = d.raw /\ Left(d).emb = d.emb
      BY LeftFacts
    <2> QED BY <1>1, <1>2, <1>3, <1>4, <2>1, <2>2, CallKept
  <1>6. CASE db.raw # {} /\ db.emb # {}
    <2>1. db' = d
      BY <1>2, <1>6 DEF Counted
    <2>2. Misleading(d) => Misleading(db)
      BY <1>2, <1>3, <1>4, <1>6 DEF Misleading
    <2> QED BY <1>1, <1>2, <1>3, <1>4, <2>1, <2>2, CallKept
  <1> QED BY <1>5, <1>6

LEMMA DeletedKept == ASSUME DbTypeOK, DbInv, NEW r \in Held, DeleteRow(r) PROVE DbInv'
  <1> DEFINE d == Deleted(r)
  <1>1. UNCHANGED <<forced, teardownVars>> /\ db' = d
    BY DEF DeleteRow, UserCall
  <1>2. /\ d.tables = db.tables /\ d.upset = db.upset
        /\ d.raw = db.raw \ {r} /\ d.emb = db.emb \ {r} /\ d.vec = db.vec \ {r}
        /\ Wanted(d) = Wanted(db) \ {r}
    <2>1. Wanted(db') = Wanted(d)
      BY <1>1
    <2> QED BY <1>1, <2>1, DeletedFacts
  <1> HIDE DEF d
  <1>3. Whole(db) => Whole(d)
    BY <1>2 DEF Whole
  <1>4. Misleading(d) => Misleading(db)
    BY <1>2 DEF Misleading, Whole
  <1> QED BY <1>1, <1>2, <1>3, <1>4, CallKept

LEMMA AwsLoading ==
  ASSUME Shape, DbInv, [AwsNext]_awsVars
  PROVE  DbInv'
  <1>0. DbTypeOK /\ db \in Database
    BY DEF Shape, AwsTypeOK, DbTypeOK
  <1>1. CASE Operator /\ UNCHANGED <<dbVars, hung>>
    <2>1. ~Loading /\ (Loading' => point' = "start")
      BY <1>1, OperatorStarts DEF Started, Loading
    <2> QED BY <1>1, <2>1, OutsideKept DEF dbVars
  <1>2. CASE DbStep
    BY <1>0, <1>2, DbStepKept
  <1>3. CASE DeployStep /\ DbFollows
    <2>1. ~Loading
      <3>1. ASSUME NEW s \in Stacks, ImportExisting(s) \/ Apply(s) \/ KillInApply(s) PROVE ~Loading
        <4>1. todo # <<>> /\ Head(todo) = s
          BY <3>1 DEF ImportExisting, Apply, KillInApply, Applying, In
        <4> QED BY <4>1 DEF Loading, Stacks, Frontends
      <3>2. CASE SetupBackend \/ EnsureSecrets \/ BuildImages \/ DeployFrontend \/ BootstrapEcs \/ RollOut \/ DeployDone
        BY <3>2 DEF SetupBackend, EnsureSecrets, BuildImages, Ensure, DeployFrontend, BootstrapEcs, RollOut, DeployDone, In, Loading
      <3> QED BY <1>3, <3>1, <3>2 DEF DeployStep
    <2>2. Moved /\ proc = "deploy"
      BY <1>3, DeployMoved
    <2>3. Loading' => point' = "start"
      <3>1. HAVE Loading'
      <3>2. proc' = "deploy" /\ todo' # <<>> /\ Head(todo') = "database"
        BY <3>1 DEF Loading
      <3>3. todo' # todo
        BY <2>1, <2>2, <3>2 DEF Loading
      <3> QED BY <2>2, <3>2, <3>3 DEF Moved
    <2> QED BY <1>3, <2>1, <2>3, OutsideKept DEF DbFollows
  <1>4. CASE TeardownStep /\ DbFollows
    <2>1. ~Loading /\ ~Loading'
      BY <1>4, TeardownMoved DEF Moved, Loading
    <2> QED BY <1>4, <2>1, OutsideKept DEF DbFollows
  <1>5. CASE KillTool
    BY <1>0, <1>5, LeftKept DEF KillTool, End, Loading
  <1>6. CASE Aws \/ Hang \/ UNCHANGED awsVars
    <2>1. UNCHANGED <<teardownVars, dbVars>>
      BY <1>6, AwsAlone DEF Hang, awsVars
    <2> QED BY <2>1, CallKept DEF dbVars
  <1>7. CASE Users
    BY <1>0, <1>7, SavedKept, DeletedKept DEF Users
  <1> QED BY <1>1, <1>2, <1>3, <1>4, <1>5, <1>6, <1>7 DEF AwsNext, Step

-----------------------------------------------------------------------------
(* The account, the tool and the database stay within AwsInv: types, what the *)
(* state files know, what a destroy finds prepared, what counts as loaded.    *)
(* This is the inductive invariant of tools/aws/deploy.py and teardown.py.    *)
THEOREM AwsInvariant == AwsSpec => []AwsInv
  <1>1. ASSUME AwsInit PROVE AwsInv
    <2>1. proc = "idle" /\ point = "end" /\ todo = <<>> /\ alive = {} /\ recorded = {}
      BY <1>1 DEF AwsInit, CloudInit
    <2>2. DbTypeOK
      BY <1>1, NoDatabaseFacts DEF AwsInit, DbTypeOK, NoDatabase
    <2>3. Shape
      <3>1. <<>> \in Seq(Names)
        BY EmptySeq
      <3>2. dist \in [Frontends -> Dists]
        BY <1>1 DEF AwsInit, CloudInit, Dists
      <3>3. 0 \in 0..MaxFaults /\ 0 \in 0..Polls
        BY MaxFaultsAssumption, DrainAssumption
      <3> QED BY <1>1, <2>1, <2>2, <3>1, <3>2, <3>3
              DEF Shape, AwsTypeOK, CloudTypeOK, AwsInit, CloudInit, Scopes, Including
    <2>4. KnownInv
      BY <2>1 DEF KnownInv, OrderInv, BehindInv, At, StateKnowsAll, NothingStranded
    <2>5. PrepInv
      BY <2>1 DEF PrepInv, TasksInv, BalancerInv, DistInv, In
    <2>6. DbInv
      BY <1>1, NoDatabaseFacts DEF AwsInit, DbInv, Loading
    <2> QED BY <2>3, <2>4, <2>5, <2>6 DEF AwsInv
  <1>2. AwsInv /\ [AwsNext]_awsVars => AwsInv'
    BY AwsShape, AwsKnown, AwsPrepared, AwsLoading DEF AwsInv
  <1> QED BY <1>1, <1>2, PTL DEF AwsSpec

(* Whatever was skipped, failed or killed, for any number of faults: what     *)
(* exists is in a state file and can still be destroyed, but the strays the   *)
(* history names.                                                             *)
THEOREM NothingIsOrphaned == AwsSpec => []NothingOrphaned
  <1>1. AwsInv => NothingOrphaned
    BY DEF AwsInv, Shape, KnownInv, NothingOrphaned
  <1> QED BY <1>1, AwsInvariant, PTL

(* A destroy of a frontend begins with nothing left that would block it,      *)
(* unless a step that sees to it has failed: AWS starts no task and deploys   *)
(* no distribution that undoes it, and no other step of the tool does.        *)
THEOREM DestroysArePrepared == AwsSpec => []Prepared
  <1>1. AwsInv => Prepared
    <2>1. SUFFICES ASSUME AwsInv, NEW s \in Frontends, At("destroy", s), ~uncertain, NEW r \in Owned[s], Blocked(r) PROVE FALSE
      BY DEF Prepared
    <2>2. proc = "teardown" /\ todo # <<>> /\ Head(todo) = s /\ point = "destroy" /\ point \in Waiting
      BY <2>1 DEF At, Waiting
    <2>3. dist[s] = "none"
      BY <2>1, <2>2 DEF AwsInv, PrepInv, DistInv
    <2>4. CASE s = "nonkube"
      <3>1. tasks = 0 /\ r \in {"ecs", "alb", "oac_nonkube"}
        BY <2>1, <2>2, <2>4, OwnedFacts DEF AwsInv, PrepInv, TasksInv
      <3>2. r # "vpc" /\ r # "eks" /\ r # Oac["kube"]
        BY <3>1, OwnedFacts
      <3> QED BY <2>1, <2>3, <2>4, <3>1, <3>2 DEF Blocked, Frontends
    <2>5. CASE s = "kube"
      <3>1. "lb" \notin alive /\ r \in {"eks", "oac_kube"}
        BY <2>1, <2>2, <2>5, OwnedFacts DEF AwsInv, PrepInv, BalancerInv
      <3>2. r # "vpc" /\ r # "ecs" /\ r # Oac["nonkube"]
        BY <3>1, OwnedFacts
      <3> QED BY <2>1, <2>3, <2>5, <3>1, <3>2 DEF Blocked, Frontends
    <2> QED BY <2>4, <2>5 DEF Frontends
  <1> QED BY <1>1, AwsInvariant, PTL

(* When a full teardown has succeeded and the bucket with the state files is  *)
(* gone, no resource of a stack is left but those the history names.          *)
THEOREM FullTeardownIsClean == AwsSpec => []FullTeardownCleans
  <1>1. AwsInv => FullTeardownCleans
    BY DEF AwsInv, Shape, AwsTypeOK, KnownInv, StateKnowsAll, FullTeardownCleans
  <1> QED BY <1>1, AwsInvariant, PTL

(* A database that the set-up of the deploy takes for loaded has the rows of  *)
(* the file and their vectors, unless it had been left with less before.      *)
THEOREM WholeOrUpset == AwsSpec => []LoadedIsWhole
  <1>1. AwsInv => LoadedIsWhole
    BY DEF AwsInv, DbInv, Loading, LoadedIsWhole, In
  <1> QED BY <1>1, AwsInvariant, PTL
=============================================================================
