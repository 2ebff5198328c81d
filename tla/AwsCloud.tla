------------------------------ MODULE AwsCloud ------------------------------
(***************************************************************************)
(* The AWS account as the deploy tools see it: the resources of the five   *)
(* stacks, those that AWS or Kubernetes make on their own, and what the    *)
(* state files of OpenTofu in the S3 bucket record of them. The operators  *)
(* are the commands of tofu, which the tools call in tools/aws/deploy.py   *)
(* and tools/aws/teardown.py; at most MaxFaults calls fail for a reason    *)
(* outside the model (a time-out, expired credentials, an API error).      *)
(***************************************************************************)
EXTENDS Naturals, Sequences, FiniteSets

CONSTANTS
    MaxFaults,      \* bound: calls that fail, runs that are killed, mistakes
    MaxTasks        \* bound: running tasks

ASSUME MaxFaultsAssumption == MaxFaults \in Nat /\ MaxTasks \in Nat

VARIABLES
    alive,      \* the resources that exist
    recorded,   \* those that the state files list
    bucket,     \* the bucket with the state files exists
    outputs,    \* the state of the durable stack has outputs (vpc_id)
    dist,       \* the CloudFront distribution of each frontend
    trigger,    \* the EventBridge rule that starts Spark tasks
    service,    \* desired count of the ECS service
    tasks,      \* running ECS tasks
    faults      \* calls that failed so far

ecs == <<trigger, service, tasks>>
cloud == <<alive, recorded, bucket, outputs, dist, ecs, faults>>

Frontends == {"nonkube", "kube"}
Stacks == {"cooloff", "durable", "nondurable"} \union Frontends

\* What stands for the resources of a stack: "alb" is everything of nonkube
\* that import_preexist knows by name, "oac_*" the origin access controls.
Owned == [cooloff    |-> {"secrets"},
          durable    |-> {"vpc"},
          nondurable |-> {"ecr"},
          nonkube    |-> {"ecs", "alb", "oac_nonkube"},
          kube       |-> {"eks", "oac_kube"}]
Oac == [nonkube |-> "oac_nonkube", kube |-> "oac_kube"]
Managed == UNION {Owned[s] : s \in Stacks}

\* Made by AWS or by Kubernetes, in no state file: the load balancer of the
\* Service, its security group, those of the EKS cluster, log groups.
Unmanaged == {"lb", "elb_sg", "eks_sg", "logs"}

\* What the import before an apply or a destroy looks for, by name.
CooloffImports == {"secrets"}
NonkubeImports == {"alb", "oac_nonkube"}
KubeImports == {"oac_kube"}
Importable == CooloffImports \union NonkubeImports \union KubeImports

InVpc == {"ecs", "alb", "eks", "lb", "elb_sg", "eks_sg"}
Dists == {"none", "enabled", "propagating", "disabled", "deleting"}

CloudTypeOK ==
    /\ alive \subseteq Managed \union Unmanaged
    /\ recorded \subseteq Managed
    /\ bucket \in BOOLEAN
    /\ outputs \in BOOLEAN
    /\ dist \in [Frontends -> Dists]
    /\ trigger \in {"none", "on", "off"}
    /\ service \in {0, 1}
    /\ tasks \in Nat
    /\ faults \in 0..MaxFaults

CloudInit ==
    /\ alive = {}
    /\ recorded = {}
    /\ bucket = FALSE
    /\ outputs = FALSE
    /\ dist = [f \in Frontends |-> "none"]
    /\ trigger = "none"
    /\ service = 0
    /\ tasks = 0
    /\ faults = 0

\* A call works, or fails at the expense of the bound.
Works == faults' = faults
Fails == faults < MaxFaults /\ faults' = faults + 1

----------------------------------------------------------------------------
\* AWS refuses to delete what something else still uses.
Blocked(r) ==
    \/ r = "vpc" /\ alive \intersect InVpc # {}
    \/ r = "ecs" /\ tasks > 0
    \/ r = "eks" /\ "lb" \in alive
    \/ \E f \in Frontends : r = Oac[f] /\ dist[f] # "none"

\* The configuration of nonkube and kube reads the outputs of durable; no
\* stack can be initialised without the bucket.
Evaluates(s) == bucket /\ (s \in Frontends => outputs)

\* tofu destroy deletes what the state lists and forgets what is gone. EKS may
\* leave its security groups behind. The outputs go before the resources do.
Destroy(s, gone) ==
    /\ gone \subseteq {r \in Owned[s] \intersect recorded : ~Blocked(r)}
    /\ recorded' = recorded \ gone
    /\ \E left \in SUBSET (IF "eks" \in gone \intersect alive THEN {"eks_sg"} ELSE {}) :
        alive' = (alive \ gone) \union left
    /\ outputs' = (outputs /\ s # "durable")
    /\ trigger' = IF "alb" \in gone THEN "none" ELSE trigger
    /\ service' = IF "ecs" \in gone THEN 0 ELSE service
    /\ UNCHANGED <<bucket, dist, tasks>>

DestroyWorks(s) == Works /\ Evaluates(s) /\ Destroy(s, Owned[s] \intersect recorded)

\* Something is in use, or a call fails after some deletions.
DestroyFails(s) ==
    \/ ~Evaluates(s) /\ UNCHANGED cloud
    \/ /\ Works
       /\ Evaluates(s)
       /\ \E r \in Owned[s] \intersect recorded : Blocked(r)
       /\ Destroy(s, {r \in Owned[s] \intersect recorded : ~Blocked(r)})
    \/ Fails /\ Evaluates(s) /\ \E gone \in SUBSET Owned[s] : Destroy(s, gone)

\* tofu apply creates what is missing. A resource that exists under its name
\* and is not recorded is a conflict; an ECS cluster is created anew or not.
Conflict(s) == ((Owned[s] \intersect alive) \ recorded) \ {"ecs"}

Create(s, made) ==
    /\ alive' = alive \union made \union
                (IF s = "durable" /\ made # {} THEN {"logs"} ELSE {})
    /\ recorded' = recorded \union made
    /\ dist' = IF s \in Frontends /\ made # {} /\ dist[s] = "none"
               THEN [dist EXCEPT ![s] = "enabled"] ELSE dist
    /\ trigger' = IF "alb" \in made THEN "on" ELSE trigger
    /\ service' = IF "ecs" \in made THEN 1 ELSE service
    /\ UNCHANGED <<bucket, tasks>>

ApplyWorks(s) ==
    /\ Works
    /\ Evaluates(s)
    /\ Conflict(s) = {}
    /\ Create(s, Owned[s])
    /\ outputs' = (outputs \/ s = "durable")

ApplyFails(s) ==
    \/ (~Evaluates(s) \/ Conflict(s) # {}) /\ UNCHANGED cloud
    \/ /\ Fails
       /\ Evaluates(s)
       /\ \E made \in SUBSET (Owned[s] \ Conflict(s)) : Create(s, made)
       /\ UNCHANGED outputs

\* The run is killed in an apply: what was being created is in no state file.
ApplyKilled(s) ==
    /\ Fails
    /\ Evaluates(s)
    /\ \E r \in Owned[s] \ alive : alive' = alive \union {r}
    /\ UNCHANGED <<recorded, bucket, outputs, dist, ecs>>

\* tofu import, resource by resource; a failing one is skipped.
ImportAll(s) ==
    recorded' = recorded \union (Owned[s] \intersect Importable \intersect alive)
ImportSome(s) ==
    \E found \in SUBSET (Owned[s] \intersect Importable \intersect alive) :
        recorded' = recorded \union found

----------------------------------------------------------------------------
\* What happens meanwhile: the rule and the service start tasks, tasks end, a
\* distribution gets deployed or disappears.
TaskStarts ==
    /\ "ecs" \in alive
    /\ trigger = "on" \/ service = 1
    /\ tasks < MaxTasks
    /\ tasks' = tasks + 1
    /\ UNCHANGED <<alive, recorded, bucket, outputs, dist, trigger, service, faults>>

TaskEnds ==
    /\ tasks > 0
    /\ tasks' = tasks - 1
    /\ UNCHANGED <<alive, recorded, bucket, outputs, dist, trigger, service, faults>>

Propagates(f) ==
    /\ dist[f] \in {"propagating", "deleting"}
    /\ dist' = [dist EXCEPT ![f] = IF @ = "deleting" THEN "none" ELSE "disabled"]
    /\ UNCHANGED <<alive, recorded, bucket, outputs, ecs, faults>>
============================================================================
