---------------------------- MODULE KubeClusters ---------------------------
(***************************************************************************)
(* The clusters of the kube scope, EKS, GKE and Docker Desktop, as kubectl *)
(* sees them: one current context, shared by every tool, says which of     *)
(* them a call reaches.                                                    *)
(***************************************************************************)
EXTENDS Naturals

CONSTANT MaxRuns    \* bound: tools the operator starts
ASSUME RolloutAssumption == MaxRuns \in Nat

Clusters == {"eks", "gke", "desktop"}
Clouds == {"eks", "gke"}
Contexts == Clusters \union {"none"}
HostsOf == [eks |-> {"elb", "nlb"}, gke |-> {"ip"}, desktop |-> {"node"}]
Hosts == {"elb", "nlb", "ip", "node"}

Own == [none |-> "none", aws |-> "eks", aws_down |-> "eks", gcp |-> "gke",
        reapply |-> "gke", gcp_down |-> "gke", local |-> "desktop", local_down |-> "desktop"]
Deploys == {"aws", "gcp", "local", "reapply"}

\* The steps of each tool, in order. Behind a plan that failed, a deploy to GKE has
\* nothing left but its report.
Following ==
    [aws     |-> [start |-> "lookup", lookup |-> "apply", apply |-> "nodes", nodes |-> "suspend",
                  suspend |-> "install", install |-> "controller", controller |-> "job",
                  job |-> "service", service |-> "schedule", schedule |-> "restart",
                  restart |-> "ready", ready |-> "unsuspend", unsuspend |-> "poll",
                  poll |-> "dns", dns |-> "health", health |-> "rewire", rewire |-> "end"],
     gcp     |-> [start |-> "lookup", lookup |-> "apply", apply |-> "credentials",
                  credentials |-> "job", job |-> "service", service |-> "ready",
                  ready |-> "schedule", schedule |-> "poll", poll |-> "rewire",
                  rewire |-> "health", health |-> "proxy", proxy |-> "end",
                  unplanned |-> "unplanned"],
     reapply |-> [start |-> "credentials", credentials |-> "poll", poll |-> "rewire",
                  rewire |-> "end"],
     local   |-> [start |-> "prepare", prepare |-> "job", job |-> "service",
                  service |-> "schedule", schedule |-> "end"],
     aws_down   |-> [start |-> "clean", clean |-> "destroy", destroy |-> "end"],
     gcp_down   |-> [start |-> "clean", clean |-> "destroy", destroy |-> "end"],
     local_down |-> [start |-> "clean", clean |-> "end"]]
Tools == DOMAIN Following

VARIABLES
    context,    \* the cluster kubectl talks to
    up,         \* clusters that exist
    svc,        \* per cluster: the kind of host its Service asks for
    host,       \* per cluster: the host the Service has got
    cron,       \* per cluster: the CronJob
    job,        \* per cluster: the bootstrap Job
    origin,     \* per cloud: the API origin of its CDN; "gone" when it was deleted
    tool, step, \* what runs, and what it does next
    want,       \* the kind of host its manifest asks for
    before,     \* the hostname known before the first apply
    after,      \* the hostname the poll found
    runs,
    \* history of the run
    touched,    \* clusters whose objects it has changed
    missed,     \* a call to its own cluster failed and the tool went on
    lastAws     \* how the last deploy to EKS ended

objects == <<svc, host, cron, job>>
cluster == <<up, svc, host, cron, job, origin>>
known == <<want, before, after, runs>>
history == <<touched, missed, lastAws>>
vars == <<context, cluster, tool, step, known, history>>

own == Own[tool]
At(s) == tool # "none" /\ step = s
Goto(s) == step' = s /\ UNCHANGED <<tool, lastAws>>
Advance == Goto(Following[tool][step])

\* The tool ends; ok says whether with exit code 0.
End(ok) ==
    /\ tool' = "none" /\ step' = "end"
    /\ lastAws' = IF tool = "aws" THEN (IF ok /\ ~missed THEN "ok" ELSE "bad") ELSE lastAws

----------------------------------------------------------------------------
\* kubectl.

\* A kubeconfig script, then kubectl against the context k that it leaves,
\* which answers or not. The caller looks at neither exit code.
Call(k, got) ==
    /\ \/ k = own /\ own \in up
       \/ k = context
    /\ got => k \in up
    /\ context' = k
    /\ missed' = (missed \/ (own \in up /\ (k # own \/ ~got)))

\* The same where a failure ends the tool.
Checked == own \in up /\ context' = own /\ UNCHANGED missed
Denied == own \notin up /\ End(FALSE) /\ UNCHANGED <<context, missed, touched>>

\* kubectl changes f at k to v; an unanswered call changes nothing.
Sets(f, k, got, v) == IF got /\ k \in Clusters THEN [f EXCEPT ![k] = v] ELSE f
Touches(k, got) == touched' = IF got THEN touched \union {k} ELSE touched

\* delete service, cronjob, job and namespace.
Wipe(k, got) ==
    /\ svc' = Sets(svc, k, got, "none") /\ host' = Sets(host, k, got, "none")
    /\ cron' = Sets(cron, k, got, "none") /\ job' = Sets(job, k, got, "none")
    /\ origin' = [c \in Clouds |->
            IF got /\ k \in Clusters /\ origin[c] # "none" /\ origin[c] = host[k]
            THEN "gone" ELSE origin[c]]
    /\ touched' = IF got /\ k \in Clusters /\ (svc[k] # "none" \/ cron[k] # "none" \/ job[k] # "none")
                  THEN touched \union {k} ELSE touched

----------------------------------------------------------------------------
\* The controllers of the clusters.

\* A load balancer gets its name, of a kind that its cloud gives; on EKS one of
\* another kind is replaced.
Provision(c) ==
    /\ c \in up /\ svc[c] # "none"
    /\ \E h \in HostsOf[c] \ {host[c]} :
        /\ svc[c] \in HostsOf[c] => h = svc[c]
        /\ host' = [host EXCEPT ![c] = h]
    /\ UNCHANGED <<context, up, svc, cron, job, origin, tool, step, known, history>>

JobSucceeds(c) ==
    /\ c \in up /\ job[c] = "running"
    /\ job' = [job EXCEPT ![c] = "succeeded"]
    /\ UNCHANGED <<context, up, svc, host, cron, origin, tool, step, known, history>>
============================================================================
