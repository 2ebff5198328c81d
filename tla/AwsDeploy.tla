----------------------------- MODULE AwsDeploy -----------------------------
(***************************************************************************)
(* tools/aws/deploy.py on the same account: the phases in their order, each *)
(* of which ends the run when it fails. What happens inside the cluster is *)
(* KubeRollout; here the Service's load balancer appears.                  *)
(***************************************************************************)
EXTENDS AwsTeardown

\* Phases 3 to 9, and the stacks of the scope.
Phases(sc) ==
    <<"backend", "cooloff", "durable", "nondurable", "secrets", "database", "images">>
    \o CASE sc = "all"     -> <<"nonkube", "kube">>
         [] sc = "nonkube" -> <<"nonkube">>
         [] sc = "kube"    -> <<"kube">>

StartDeploy(sc) ==
    /\ proc = "idle"
    /\ proc' = "deploy"
    /\ scope' = sc
    /\ todo' = Phases(sc)
    /\ point' = "start"
    /\ result' = "none"
    /\ incl' = "none"
    /\ UNCHANGED <<polls, uncertain, history, cloud>>

In(where, phase) == proc = "deploy" /\ point = where /\ todo # <<>> /\ Head(todo) = phase

NextPhase ==
    /\ todo' = Tail(todo)
    /\ point' = "start"
    /\ UNCHANGED <<run, result, polls, uncertain, history>>

\* setup_state_backend does not look at the results of its commands.
SetupBackend ==
    /\ In("start", "backend")
    /\ \/ Works /\ bucket' = TRUE
       \/ Fails /\ UNCHANGED bucket
    /\ NextPhase
    /\ UNCHANGED <<alive, recorded, outputs, dist, ecs>>

\* nonkube and kube: an import that fails for one resource ends the run. It is
\* skipped, and the apply with it, if the plan shows no change.
PlanClean(s) == Evaluates(s) /\ Owned[s] \subseteq alive \intersect recorded

ImportExisting(s) ==
    /\ In("start", s)
    /\ s \in Frontends \union {"cooloff"}
    /\ \/ Works /\ s \in Frontends /\ PlanClean(s) /\ UNCHANGED recorded /\ Goto("applied")
       \/ /\ Works /\ bucket /\ (s \in Frontends => ~PlanClean(s))
          /\ ImportAll(s) /\ Goto("apply")
       \/ Fails /\ bucket /\ ImportSome(s) /\ IF s = "cooloff" THEN Goto("apply") ELSE Abort
       \/ ~bucket /\ Works /\ UNCHANGED recorded /\ Abort
    /\ UNCHANGED <<alive, bucket, outputs, dist, ecs>>

Applying(s) == In("apply", s) \/ (s \in {"durable", "nondurable"} /\ In("start", s))

Apply(s) ==
    /\ Applying(s)
    /\ \/ ApplyWorks(s) /\ IF s \in Frontends THEN Goto("applied") ELSE NextPhase
       \/ ApplyFails(s) /\ Abort

KillInApply(s) ==
    /\ Applying(s)
    /\ ApplyKilled(s)
    /\ End("killed")
    /\ strays' = strays \union (alive' \ alive)
    /\ UNCHANGED misread

\* The secrets; then (the database between is AwsDbSetup) build, push and the tags
\* of the images: a failure of any ends the run.
Ensure(phase) ==
    /\ In("start", phase)
    /\ \/ Works /\ NextPhase
       \/ Fails /\ Abort
    /\ UNCHANGED <<alive, recorded, bucket, outputs, dist, ecs>>

EnsureSecrets == Ensure("secrets")
BuildImages == Ensure("images")

\* The files of the frontend are built and synchronised with its bucket; that the
\* distribution is not invalidated, or not in time, is a warning.
DeployFrontend ==
    /\ In("applied", "nonkube")
    /\ \/ Works /\ Goto("served")
       \/ Fails /\ Abort
    /\ UNCHANGED <<alive, recorded, bucket, outputs, dist, ecs>>

\* A first Spark task outside of the schedule.
BootstrapEcs ==
    /\ In("served", "nonkube")
    /\ \/ Works /\ tasks' = (IF tasks < MaxTasks THEN tasks + 1 ELSE tasks) /\ NextPhase
       \/ Fails /\ UNCHANGED tasks /\ Abort
    /\ UNCHANGED <<alive, recorded, bucket, outputs, dist, trigger, service>>

\* kubectl apply: the Service gets a load balancer, and that its group.
RollOut ==
    /\ In("applied", "kube")
    /\ \/ Works /\ alive' = alive \union {"lb", "elb_sg"} /\ NextPhase
       \/ Fails /\ alive' \in {alive, alive \union {"lb", "elb_sg"}} /\ Abort
    /\ UNCHANGED <<recorded, bucket, outputs, dist, ecs>>

DeployDone ==
    /\ proc = "deploy"
    /\ todo = <<>>
    /\ End("ok")
    /\ UNCHANGED <<history, cloud>>

DeployStep ==
    \/ \E s \in Stacks : ImportExisting(s) \/ Apply(s) \/ KillInApply(s)
    \/ SetupBackend \/ EnsureSecrets \/ BuildImages \/ DeployFrontend \/ BootstrapEcs \/ RollOut \/ DeployDone
============================================================================
