---------------------------- MODULE AwsTeardown ----------------------------
(***************************************************************************)
(* tools/aws/teardown.py: the stacks of a scope are destroyed one by one,  *)
(* each after a probe that may skip it, the steps that make a destroy      *)
(* possible and an import of what the state has lost sight of.             *)
(***************************************************************************)
EXTENDS AwsCloud

CONSTANTS
    Polls,          \* how often the drain looks at the tasks (12)
    Batch           \* how many it stops at a time (10)

ASSUME DrainAssumption == Polls \in Nat \ {0} /\ Batch \in Nat \ {0}

VARIABLES
    proc,       \* the tool that runs: "idle", "deploy" or "teardown"
    scope,      \* --scope, or "post" for --post-destroy-only (which wants --scope all)
    incl,       \* "none", "dura" (--incl-dura) or "all" (--incl-dura-all)
    todo,       \* the stacks, or phases, that are left
    point,      \* where the tool is in the first of them
    result,     \* how the last run ended
    polls,      \* of the drain
    uncertain,  \* history: a step that prepares the destroy failed or gave up
    misread,    \* history: the stacks that were ever skipped by a failed probe
    strays      \* history: what no teardown can be relied on to find again: made by
                \* a killed apply, or of state files deleted after a failed probe or by
                \* --post-destroy-only

run == <<proc, scope, incl>>
history == <<misread, strays>>
teardownVars == <<run, todo, point, result, polls, uncertain, history>>

\* Nonkube before kube, and both before what they use.
Order == [kube |-> <<"kube">>, nonkube |-> <<"nonkube">>,
          all |-> <<"nonkube", "kube", "nondurable">>]

\* Mutant: the network goes before the stacks that are configured by it.
Plan_DurableFirst(sc, in) ==
    (IF sc # "all" \/ in = "none" THEN <<>> ELSE <<"durable">>)
    \o Order[sc] \o (IF sc # "all" \/ in # "all" THEN <<>> ELSE <<"cooloff">>)

Plan(sc, in) ==
    Order[sc] \o (IF sc # "all" THEN <<>>
                  ELSE CASE in = "all"  -> <<"durable", "cooloff">>
                         [] in = "dura" -> <<"durable">>
                         [] in = "none" -> <<>>)

StartTeardown(sc, in) ==
    /\ proc = "idle"
    /\ proc' = "teardown"
    /\ scope' = sc
    /\ incl' = in
    /\ todo' = Plan(sc, in)
    /\ point' = "probe"
    /\ result' = "none"
    /\ UNCHANGED <<polls, uncertain, history, cloud>>

\* --post-destroy-only, "for testing full cleanup on already-torn-down region":
\* that the region is torn down is not looked at. A mistake about it counts as
\* a fault.
StartPostDestroy(in) ==
    /\ proc = "idle"
    /\ proc' = "teardown"
    /\ scope' = "post"
    /\ incl' = in
    /\ todo' = <<>>
    /\ point' = "probe"
    /\ result' = "none"
    /\ IF recorded = {} THEN Works ELSE Fails
    /\ UNCHANGED <<polls, uncertain, history, alive, recorded, bucket, outputs, dist, ecs>>

At(where, s) == proc = "teardown" /\ point = where /\ todo # <<>> /\ Head(todo) = s

Goto(where) ==
    /\ point' = where
    /\ UNCHANGED <<run, todo, result, polls, uncertain, history>>

NextStack ==
    /\ todo' = Tail(todo)
    /\ point' = "probe"
    /\ uncertain' = FALSE
    /\ UNCHANGED <<run, result, polls>>

\* The tool ends: sys.exit, an exception nobody catches, or a kill.
End(how) ==
    /\ proc' = "idle"
    /\ result' = how
    /\ todo' = <<>>
    /\ point' = "end"
    /\ polls' = 0
    /\ uncertain' = FALSE
    /\ UNCHANGED <<scope, incl>>

Abort == End("failed") /\ UNCHANGED history

----------------------------------------------------------------------------
\* Is there anything to destroy? Both probes take any error for a no.
Sees(s) == IF s \in Frontends THEN bucket /\ outputs ELSE bucket

Probed(s) == s \notin Frontends \/ incl # "none"

Proceed(s) ==
    /\ At("probe", s)
    /\ Probed(s) => Sees(s)
    /\ Works
    /\ point' = IF s \in Frontends THEN "pre" ELSE "destroy"
    /\ uncertain' = FALSE
    /\ UNCHANGED <<run, todo, result, polls, history>>
    /\ UNCHANGED <<alive, recorded, bucket, outputs, dist, ecs>>

Skip(s) ==
    /\ At("probe", s)
    /\ Probed(s)
    /\ IF Sees(s) THEN Fails ELSE Works
    /\ NextStack
    /\ misread' = IF Sees(s) THEN misread \union {s} ELSE misread
    /\ UNCHANGED <<strays, alive, recorded, bucket, outputs, dist, ecs>>

----------------------------------------------------------------------------
\* pre_destroy_nonkube: stop the rule, scale the service down, then stop tasks.
\* A call that fails is logged.

\* Mutant: the tasks are drained before the rule is gone.
RemoveRule_Later ==
    /\ At("pre", "nonkube")
    /\ Works
    /\ Goto("scale")
    /\ UNCHANGED <<alive, recorded, bucket, outputs, dist, ecs>>

RemoveRule ==
    /\ At("pre", "nonkube")
    /\ \/ Works /\ trigger' = "none" /\ UNCHANGED uncertain
       \/ Fails /\ trigger' \in {trigger, IF trigger = "on" THEN "off" ELSE trigger} /\ uncertain' = TRUE
    /\ point' = "scale"
    /\ UNCHANGED <<run, todo, result, polls, history>>
    /\ UNCHANGED <<alive, recorded, bucket, outputs, dist, service, tasks>>

ScaleService ==
    /\ At("scale", "nonkube")
    /\ \/ Works /\ service' = 0 /\ UNCHANGED uncertain
       \/ Fails /\ UNCHANGED service /\ uncertain' = TRUE
    /\ point' = "drain"
    /\ polls' = 0
    /\ UNCHANGED <<run, todo, result, history>>
    /\ UNCHANGED <<alive, recorded, bucket, outputs, dist, trigger, tasks>>

\* Mutant: the drain goes on for as long as there are tasks.
DrainTasks_Forever ==
    /\ At("drain", "nonkube")
    /\ tasks > 0
    /\ Works
    /\ tasks' = IF tasks > Batch THEN tasks - Batch ELSE 0
    /\ UNCHANGED <<run, todo, point, result, polls, uncertain, history>>
    /\ UNCHANGED <<alive, recorded, bucket, outputs, dist, trigger, service>>

\* list-tasks answers with some, which are told to stop; some have by the next look ...
DrainTasks ==
    /\ At("drain", "nonkube")
    /\ tasks > 0
    /\ polls < Polls
    /\ Works
    /\ \E stopped \in 0..(IF tasks > Batch THEN Batch ELSE tasks) : tasks' = tasks - stopped
    /\ polls' = polls + 1
    /\ UNCHANGED <<run, todo, point, result, uncertain, history>>
    /\ UNCHANGED <<alive, recorded, bucket, outputs, dist, trigger, service>>

\* ... or with none, or fails, or has answered often enough.
Drained ==
    /\ At("drain", "nonkube")
    /\ \/ tasks = 0 /\ Works /\ UNCHANGED uncertain
       \/ tasks > 0 /\ polls = Polls /\ Works /\ uncertain' = TRUE
       \/ Fails /\ uncertain' = TRUE
    /\ point' = "resolve"
    /\ polls' = 0
    /\ UNCHANGED <<run, todo, result, history>>
    /\ UNCHANGED <<alive, recorded, bucket, outputs, dist, ecs>>

----------------------------------------------------------------------------
\* pre_destroy_kube: what Kubernetes has made is deleted through kubectl, if
\* the cluster is there; the deletion is not always seen to its end.
DeleteNamespace == alive \ {"lb"}

CleanCluster ==
    /\ At("pre", "kube")
    /\ \/ /\ Works
          /\ alive' = IF "eks" \in alive THEN DeleteNamespace ELSE alive
          /\ UNCHANGED uncertain
       \/ Fails /\ UNCHANGED alive /\ uncertain' = TRUE
    /\ point' = "eks_sg"
    /\ UNCHANGED <<run, todo, result, polls, history>>
    /\ UNCHANGED <<recorded, bucket, outputs, dist, ecs>>

\* The groups go only if the cluster is already gone.
RemoveEksGroups ==
    /\ At("eks_sg", "kube")
    /\ \/ Works /\ alive' = IF "eks" \in alive THEN alive ELSE alive \ {"eks_sg"}
       \/ Fails /\ UNCHANGED alive
    /\ Goto("resolve")
    /\ UNCHANGED <<recorded, bucket, outputs, dist, ecs>>

----------------------------------------------------------------------------
\* pre_destroy_cloudfront: an error ends the teardown, except in what is said
\* to be gone already.
Resolve(s) ==
    /\ At("resolve", s)
    /\ \/ Works /\ dist[s] = "none" /\ Goto("oac")
       \/ Works /\ dist[s] \in {"enabled", "propagating", "disabled"} /\ Goto("disable")
       \/ Works /\ dist[s] = "deleting" /\ Abort
       \/ Fails /\ Abort
    /\ UNCHANGED <<alive, recorded, bucket, outputs, dist, ecs>>

Disable(s) ==
    /\ At("disable", s)
    /\ \/ Works /\ dist' = [dist EXCEPT ![s] = "propagating"] /\ Goto("deployed")
       \/ Fails /\ UNCHANGED dist /\ Abort
    /\ UNCHANGED <<alive, recorded, bucket, outputs, ecs>>

WaitForDeployed(s) ==
    /\ At("deployed", s)
    /\ \/ Works /\ dist[s] = "disabled" /\ Goto("delete")
       \/ Fails /\ Abort
    /\ UNCHANGED <<alive, recorded, bucket, outputs, dist, ecs>>

DeleteDistribution(s) ==
    /\ At("delete", s)
    /\ \/ Works /\ dist' = [dist EXCEPT ![s] = "deleting"] /\ Goto("gone")
       \/ Fails /\ UNCHANGED dist /\ Abort
    /\ UNCHANGED <<alive, recorded, bucket, outputs, ecs>>

WaitForGone(s) ==
    /\ At("gone", s)
    /\ \/ Works /\ dist[s] = "none" /\ Goto("oac")
       \/ Fails /\ Abort
    /\ UNCHANGED <<alive, recorded, bucket, outputs, dist, ecs>>

\* An origin access control that is in use is left alone.
DeleteOac(s) ==
    /\ At("oac", s)
    /\ \/ Works /\ alive' = (IF dist[s] = "none" THEN alive \ {Oac[s]} ELSE alive) /\ Goto("import")
       \/ Fails /\ UNCHANGED alive /\ Abort
    /\ UNCHANGED <<recorded, bucket, outputs, dist, ecs>>

----------------------------------------------------------------------------
\* Import before destroy; only the initialisation of the stack can end it.
Reconcile(s) ==
    /\ At("import", s)
    /\ \/ Works /\ bucket /\ ImportAll(s) /\ Goto("destroy")
       \/ Fails /\ bucket /\ ImportSome(s) /\ Goto("destroy")
       \/ Works /\ ~bucket /\ UNCHANGED recorded /\ Abort
       \/ Fails /\ UNCHANGED recorded /\ Abort
    /\ UNCHANGED <<alive, bucket, outputs, dist, ecs>>

\* Mutant: a stack that cannot be destroyed does not end the teardown.
DestroyStack_GoOn(s) ==
    /\ At("destroy", s)
    /\ DestroyWorks(s) \/ DestroyFails(s)
    /\ IF s = "kube" THEN Goto("elb_sg") ELSE NextStack /\ UNCHANGED history

\* run_with_retry raises when the command has failed for good.
DestroyStack(s) ==
    /\ At("destroy", s)
    /\ \/ /\ DestroyWorks(s)
          /\ IF s = "kube" THEN Goto("elb_sg") ELSE NextStack /\ UNCHANGED history
       \/ DestroyFails(s) /\ Abort

\* Behind kube: the groups of its load balancers, each tried for a while.
RemoveElbGroups ==
    /\ At("elb_sg", "kube")
    /\ \/ Works /\ alive' = IF "lb" \in alive THEN alive ELSE alive \ {"elb_sg"}
       \/ Fails /\ UNCHANGED alive
    /\ NextStack
    /\ UNCHANGED history
    /\ UNCHANGED <<recorded, bucket, outputs, dist, ecs>>

----------------------------------------------------------------------------
\* All stacks are through. Nothing in what follows ends the teardown.
Stacksless == proc = "teardown" /\ todo = <<>>

StacksDone ==
    /\ Stacksless
    /\ point = "probe"
    /\ Works
    /\ IF scope \in {"all", "post"} /\ incl # "none" THEN Goto("logs") ELSE End("ok") /\ UNCHANGED history
    /\ UNCHANGED <<alive, recorded, bucket, outputs, dist, ecs>>

DeleteLogGroups ==
    /\ Stacksless
    /\ point = "logs"
    /\ \/ Works /\ alive' = alive \ {"logs"}
       \/ Fails /\ UNCHANGED alive
    /\ IF incl = "all" THEN Goto("backend") ELSE End("ok") /\ UNCHANGED history
    /\ UNCHANGED <<recorded, bucket, outputs, dist, ecs>>

\* The bucket goes with every state file that is left in it, or only some of the
\* files do: they are deleted in batches, and what fails is a warning.
DeleteStateBackend ==
    /\ Stacksless
    /\ point = "backend"
    /\ \/ Works /\ bucket' = FALSE /\ outputs' = FALSE /\ recorded' = {}
       \/ /\ Fails /\ UNCHANGED bucket
          /\ \E kept \in SUBSET Stacks :
               /\ recorded' = recorded \intersect UNION {Owned[s] : s \in kept}
               /\ outputs' = (outputs /\ "durable" \in kept)
    /\ strays' = IF misread = {} /\ scope = "all" THEN strays ELSE strays \union recorded
    /\ End("ok")
    /\ UNCHANGED misread
    /\ UNCHANGED <<alive, dist, ecs>>

TeardownStep ==
    \/ \E s \in Stacks :
        \/ Proceed(s) \/ Skip(s) \/ DestroyStack(s)
    \/ \E s \in Frontends :
        \/ Resolve(s) \/ Disable(s) \/ WaitForDeployed(s) \/ DeleteDistribution(s)
        \/ WaitForGone(s) \/ DeleteOac(s) \/ Reconcile(s)
    \/ RemoveRule \/ ScaleService \/ DrainTasks \/ Drained
    \/ CleanCluster \/ RemoveEksGroups \/ RemoveElbGroups
    \/ StacksDone \/ DeleteLogGroups \/ DeleteStateBackend
============================================================================
