---------------------------- MODULE KubeRollout ----------------------------
(***************************************************************************)
(* One operator deploys and tears down the kube scope of the three         *)
(* providers, one tool after the other. The clusters go on meanwhile; a    *)
(* tool can stop before any of its steps.                                  *)
(***************************************************************************)
EXTENDS KubeDeploy

TypeOK ==
    /\ context \in Contexts
    /\ up \subseteq Clusters
    /\ svc \in [Clusters -> Hosts \union {"none"}] /\ host \in [Clusters -> Hosts \union {"none"}]
    /\ cron \in [Clusters -> {"none", "active", "suspended"}]
    /\ job \in [Clusters -> {"none", "running", "succeeded"}]
    /\ origin \in [Clouds -> Hosts \union {"none", "gone"}]
    /\ tool \in Tools \union {"none"}
    /\ tool = "none" \/ step \in (DOMAIN Following[tool] \ {"start"}) \union {"end"}
    /\ want \in Hosts /\ {before, after} \subseteq Hosts \union {"none"}
    /\ runs \in 0..MaxRuns
    /\ touched \subseteq Clusters /\ missed \in BOOLEAN
    /\ lastAws \in {"ok", "bad"}

\* Earlier deploys have left both clouds complete, or there were none.
Init ==
    /\ context = "none" /\ up \in {{"desktop"}, Clusters}
    /\ LET Left(v) == [c \in Clusters |-> IF c \in up \ {"desktop"} THEN v[c] ELSE "none"]
       IN /\ svc = Left([eks |-> "nlb", gke |-> "ip"]) /\ host = svc
          /\ cron = Left([c \in Clouds |-> "active"])
          /\ job = Left([c \in Clouds |-> "succeeded"])
          /\ origin = [c \in Clouds |-> host[c]]
    /\ tool = "none" /\ step = "end"
    /\ want = "nlb" /\ before = "none" /\ after = "none"
    /\ runs = 0
    /\ touched = {} /\ missed = FALSE /\ lastAws = "ok"

----------------------------------------------------------------------------
\* Teardown.

CleanFrame == Advance /\ UNCHANGED <<up, known>>
Skips == UNCHANGED <<context, objects, origin, touched, missed>>

\* The exit code of eks_kubeconfig is always 0. One that times out skips the
\* clean-up.
AwsClean ==
    /\ tool = "aws_down" /\ At("clean")
    /\ \/ \E k \in Contexts, got \in BOOLEAN : Call(k, got) /\ Wipe(k, got)
       \/ Skips
    /\ CleanFrame

\* Skipped when the cluster is not found; after another error it goes on.
GcpClean ==
    /\ tool = "gcp_down" /\ At("clean")
    /\ IF own \in up
       THEN \E k \in Contexts, got \in BOOLEAN : Call(k, got) /\ Wipe(k, got)
       ELSE Skips
    /\ CleanFrame

\* Whatever context is current.
LocalClean ==
    /\ tool = "local_down" /\ At("clean")
    /\ Wipe(context, context \in up) /\ UNCHANGED <<context, missed>>
    /\ CleanFrame

Destroyed ==
    /\ up' = up \ {own}
    /\ svc' = [svc EXCEPT ![own] = "none"] /\ host' = [host EXCEPT ![own] = "none"]
    /\ cron' = [cron EXCEPT ![own] = "none"] /\ job' = [job EXCEPT ![own] = "none"]
    /\ origin' = [origin EXCEPT ![own] = "none"]
    /\ Advance

AwsDestroy ==
    /\ tool = "aws_down" /\ At("destroy")
    /\ Destroyed \/ (UNCHANGED cluster /\ End(FALSE))
    /\ UNCHANGED <<context, known, touched, missed>>

\* Whether tofu destroy works is not looked at.
GcpDestroy ==
    /\ tool = "gcp_down" /\ At("destroy")
    /\ Destroyed \/ (UNCHANGED cluster /\ Advance)
    /\ UNCHANGED <<context, known, touched, missed>>

----------------------------------------------------------------------------
\* The operator, the clusters, and the end of a run.

\* standalone/kubeconfig.py, between two tools.
SwitchContext ==
    /\ tool = "none" /\ runs < MaxRuns
    /\ context' \in up
    /\ UNCHANGED <<cluster, tool, step, known, history>>

Start(t) ==
    /\ tool = "none" /\ runs < MaxRuns
    /\ tool' = t /\ step' = Following[t]["start"]
    /\ want' \in HostsOf[Own[t]]
    /\ before' = "none" /\ after' = "none" /\ runs' = runs + 1
    /\ touched' = {} /\ missed' = FALSE
    /\ lastAws' = IF t = "aws" THEN "bad" ELSE lastAws
    /\ UNCHANGED <<context, cluster>>

\* The report of success, at the end of its steps or behind a plan that failed.
Reports == End(TRUE) /\ UNCHANGED <<context, cluster, known, touched, missed>>
Finish == At("end") /\ Reports
FinishUnplanned == At("unplanned") /\ Reports

\* The tool raises, or is killed, before its next step.
Stop == tool # "none" /\ step # "end" /\ End(FALSE) /\ UNCHANGED <<context, cluster, known, touched, missed>>

AwsStep ==
    \/ AwsLookup \/ AwsApply \/ Nodes \/ Suspend \/ Install \/ Controller
    \/ AwsJob \/ AwsService \/ AwsSchedule \/ Restart \/ Unsuspend
    \/ AwsPoll \/ Dns \/ AwsRewire \/ AwsClean \/ AwsDestroy
GcpStep ==
    \/ GcpLookup \/ GcpApply \/ Credentials \/ GcpJob \/ GcpService \/ GcpSchedule
    \/ GcpPoll \/ GcpRewire \/ Proxy \/ ReapplyPoll \/ ReapplyRewire \/ GcpClean \/ GcpDestroy
LocalStep == Prepare \/ LocalJob \/ LocalService \/ LocalSchedule \/ LocalClean
ToolStep == AwsStep \/ GcpStep \/ LocalStep \/ Ready \/ Health \/ Finish \/ FinishUnplanned
External == \E c \in Clusters : Provision(c) \/ JobSucceeds(c)
Next == (\E t \in Tools : Start(t)) \/ SwitchContext \/ ToolStep \/ Stop \/ External

Spec == Init /\ [][Next]_vars

----------------------------------------------------------------------------
\* Properties.

\* "so kubectl targets the correct cluster": a deploy changes objects of its
\* own cluster only, unless a call to that cluster failed unnoticed.
DeployStaysHome == tool \in Deploys /\ ~missed => touched \subseteq {own}

\* No CDN is ever given the load balancer of another provider, whatever context
\* is current and whichever calls fail.
OriginIsOwn == \A c \in Clouds : origin[c] \in HostsOf[c] \union {"none", "gone"}

\* One kubectl context serves all providers, and yet no deploy reaches into the
\* cluster or the CDN of another one.
ClustersApart == TypeOK /\ DeployStaysHome /\ OriginIsOwn

\* A deploy that reports success at its end leaves its origin at the hostname it
\* found last, and on AWS at some hostname, whichever of its two applies it made.
WiredAtEnd ==
    [][Finish /\ tool \in {"aws", "gcp", "reapply"} =>
        /\ origin[own] = ToUse \/ (tool = "gcp" /\ ToUse = "none" /\ origin[own] = "none")
        /\ tool = "aws" => origin[own] # "none"]_vars

\* A deploy run again never takes away the origin of a CDN that works, unless
\* a call to the cluster failed.
NeverUnwired ==
    [][\A c \in Clouds :
        tool \in Deploys /\ ~missed /\ origin[c] # "none" /\ origin[c] = host[c]
            => origin'[c] # "none"]_vars

\* The CDN is wired by every deploy that comes to its end, and by none unwired.
StaysWired == WiredAtEnd /\ NeverUnwired

\* The analytics job of EKS stays suspended only after a deploy that failed or
\* that lost a call.
CronResumed == cron["eks"] = "suspended" /\ tool # "aws" => lastAws = "bad"

\* A deploy that reports success has set up its cluster completely.
DeployedAtEnd ==
    [][Finish /\ tool \in Deploys \ {"reapply"} /\ ~missed =>
        /\ own \in up /\ svc[own] = want /\ job[own] # "none"
        /\ tool # "local" => cron[own] # "none"]_vars

\* One that reports success behind a plan that failed has changed no cluster.
UnplannedIsIdle == [][FinishUnplanned => tool = "gcp" /\ touched = {}]_vars

\* What a deploy's report of success stands for: its cluster is set up completely
\* and its CDN wired, and no CDN was unwired on the way. Two reports are less: that
\* of a deploy to GKE whose plan failed, which has done nothing, and that of one
\* that lost a call to its cluster, which may have left a part out.
SuccessHolds == DeployedAtEnd /\ UnplannedIsIdle /\ StaysWired
============================================================================
