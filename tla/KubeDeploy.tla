----------------------------- MODULE KubeDeploy ----------------------------
(***************************************************************************)
(* The deploys of the kube scope and the tool that wires GKE again. A      *)
(* deploy finds the hostname of the load balancer, applies the stack with  *)
(* it as the origin of the CDN, applies the manifests, and wires the       *)
(* origin a second time when the hostname is new.                          *)
(***************************************************************************)
EXTENDS KubeClusters

----------------------------------------------------------------------------
\* The hostname, and the stack that takes it.

\* What a lookup through context k reports. On AWS only a name of its region
\* counts.
AwsSeen(k) == IF k \in up /\ host[k] \in HostsOf["eks"] THEN host[k] ELSE "none"

GcpSeen(k) == IF k \in up THEN host[k] ELSE "none"

LookupFrame == Advance /\ UNCHANGED <<cluster, want, after, runs, touched>>

\* Mutant: no kubeconfig before the lookup.
AwsLookup_Unconfigured ==
    /\ tool = "aws" /\ At("lookup")
    /\ before' = AwsSeen(context)
    /\ LookupFrame /\ UNCHANGED <<context, missed>>

AwsLookup ==
    /\ tool = "aws" /\ At("lookup")
    /\ \E k \in Contexts, got \in BOOLEAN :
        Call(k, got) /\ before' = IF got THEN AwsSeen(k) ELSE "none"
    /\ LookupFrame

\* Mutant: the hostname is read whether or not there are credentials.
GcpLookup_AnyContext ==
    /\ tool = "gcp" /\ At("lookup")
    /\ \E k \in Contexts, got \in BOOLEAN :
        Call(k, got) /\ before' = IF got THEN GcpSeen(k) ELSE "none"
    /\ LookupFrame

\* Read only when the credentials of the own cluster work.
GcpLookup ==
    /\ tool = "gcp" /\ At("lookup")
    /\ \E k \in Contexts, got \in BOOLEAN :
        Call(k, got) /\ before' = IF got /\ k = own THEN GcpSeen(k) ELSE "none"
    /\ LookupFrame

\* tofu apply with the hostname h: it completes, or fails part way.
Applied(h) == up' = up \union {own} /\ origin' = [origin EXCEPT ![own] = h]
PartlyApplied ==
    /\ up' \in {up, up \union {own}} /\ UNCHANGED origin
    /\ End(FALSE)
ApplyFrame == UNCHANGED <<context, objects, known, touched, missed>>

\* A plan without changes saves the apply and the wait for the nodes.
AwsApply ==
    /\ tool = "aws" /\ At("apply")
    /\ \/ own \in up /\ origin[own] = before /\ Goto("suspend") /\ UNCHANGED <<up, origin>>
       \/ Applied(before) /\ Advance
       \/ PartlyApplied
    /\ ApplyFrame

\* run_deploy_stack tells its caller of a plan that failed, and deploy.py does not
\* look at it.
Unplanned == UNCHANGED <<up, origin>> /\ Goto("unplanned")

GcpApply ==
    /\ tool = "gcp" /\ At("apply")
    /\ (Applied(before) /\ Advance) \/ PartlyApplied \/ Unplanned
    /\ ApplyFrame

\* kubectl get nodes, on whatever context is current.
Nodes ==
    /\ At("nodes")
    /\ IF context \in up THEN Advance ELSE End(FALSE)
    /\ UNCHANGED <<context, cluster, known, touched, missed>>

Credentials ==
    /\ At("credentials")
    /\ (Checked /\ Advance /\ UNCHANGED touched) \/ Denied
    /\ UNCHANGED <<cluster, known>>

\* Sixty lookups with no kubeconfig before them: one finds the host h, or none
\* answers, or none finds one, and the poll gives up.
Polled(h) ==
    /\ \/ after' = h /\ h # "none" /\ UNCHANGED missed
       \/ /\ after' = "none"
          /\ missed' = (missed \/ h # "none")
    /\ UNCHANGED <<context, cluster, want, before, runs, touched>>

AwsPoll == tool = "aws" /\ At("poll") /\ Polled(AwsSeen(context)) /\ Advance

GcpPoll == tool = "gcp" /\ At("poll") /\ Polled(GcpSeen(context)) /\ Advance

ReapplyPoll ==
    /\ tool = "reapply" /\ At("poll") /\ Polled(GcpSeen(context))
    /\ IF after' = "none" THEN End(FALSE) ELSE Advance

ToUse == IF after # "none" THEN after ELSE before

NeedSecond == ToUse # "none" /\ (before = "none" \/ (after # "none" /\ after # before))

SecondApply == NeedSecond /\ ((Applied(ToUse) /\ Advance) \/ PartlyApplied)

\* Without any hostname AWS fails and GCP only warns.
AwsRewire ==
    /\ tool = "aws" /\ At("rewire")
    /\ SecondApply \/ /\ ~NeedSecond /\ UNCHANGED <<up, origin>>
                      /\ IF ToUse = "none" THEN End(FALSE) ELSE Advance
    /\ ApplyFrame

GcpRewire ==
    /\ tool = "gcp" /\ At("rewire")
    /\ SecondApply \/ (~NeedSecond /\ UNCHANGED <<up, origin>> /\ Advance)
    /\ ApplyFrame

ReapplyRewire ==
    /\ tool = "reapply" /\ At("rewire")
    /\ SecondApply
    /\ ApplyFrame

\* The checks from outside that the API answers: the name resolves, /health of
\* the load balancer and, on GCP, of the proxy say that it has its database.
Passes == Advance /\ UNCHANGED <<context, cluster, known, touched, missed>>
Dns == At("dns") /\ Passes
Health == At("health") /\ Passes
Proxy == At("proxy") /\ Passes

----------------------------------------------------------------------------
\* The manifests.

Prepare ==
    /\ At("prepare")
    /\ Checked /\ Advance
    /\ UNCHANGED <<cluster, known, touched>>

\* kubectl of GCP and local ends the tool on an error; that of AWS goes on.
CheckedCall(k) == k = own /\ Checked

JobFrame == Advance /\ UNCHANGED <<up, svc, host, cron, origin, known>>
Creates(k) == job' = [job EXCEPT ![k] = "running"] /\ Touches(k, TRUE)

\* Only a Job that has not succeeded is deleted and created anew. A lost call
\* leaves the old one, or none.
AwsJob ==
    /\ tool = "aws" /\ At("job")
    /\ \E k \in Contexts, got \in BOOLEAN :
        /\ Call(k, got)
        /\ \/ got /\ job[k] = "succeeded" /\ UNCHANGED <<job, touched>>
           \/ got /\ job[k] # "succeeded" /\ Creates(k)
           \/ ~got /\ k \in up /\ (Creates(k) \/ (job' = [job EXCEPT ![k] = "none"] /\ Touches(k, TRUE)))
           \/ ~got /\ UNCHANGED <<job, touched>>
    /\ JobFrame

\* With --force, or when the query fails, also one that has.
GcpJob ==
    /\ tool = "gcp" /\ At("job")
    /\ CheckedCall(own)
    /\ Creates(own) \/ (job[own] = "succeeded" /\ UNCHANGED <<job, touched>>)
    /\ JobFrame

LocalJob ==
    /\ tool = "local" /\ At("job")
    /\ CheckedCall(own) /\ Creates(own)
    /\ JobFrame

\* Deployment and Service. A Service for the NLB is retried while its webhook
\* is not up, and must go through.
ServiceFrame == UNCHANGED <<up, host, cron, job, origin, known>>
AwsService ==
    /\ tool = "aws" /\ At("service")
    /\ \E k \in Contexts, got \in BOOLEAN :
        /\ Call(k, got)
        /\ svc' = Sets(svc, k, got, want) /\ Touches(k, got)
        /\ IF ~got /\ want = "nlb" THEN End(FALSE) ELSE Advance
    /\ ServiceFrame

GcpService ==
    /\ tool = "gcp" /\ At("service")
    /\ CheckedCall(own)
    /\ svc' = [svc EXCEPT ![own] = want] /\ Touches(own, TRUE) /\ Advance
    /\ ServiceFrame

LocalService ==
    /\ tool = "local" /\ At("service")
    /\ CheckedCall(own)
    /\ svc' = [svc EXCEPT ![own] = want] /\ Touches(own, TRUE) /\ Advance
    /\ ServiceFrame

\* kubectl apply leaves a suspension that the manifest does not mention.
Scheduled(k, got) ==
    /\ cron' = IF got /\ k \in Clusters /\ cron[k] = "none" THEN [cron EXCEPT ![k] = "active"] ELSE cron
    /\ Touches(k, got) /\ Advance
    /\ UNCHANGED <<up, svc, host, job, origin, known>>

AwsSchedule ==
    /\ tool = "aws" /\ At("schedule")
    /\ \E k \in Contexts, got \in BOOLEAN : Call(k, got) /\ Scheduled(k, got)

GcpSchedule == tool = "gcp" /\ At("schedule") /\ CheckedCall(own) /\ Scheduled(own, TRUE)

\* Skipped with --skip-spark.
LocalSchedule ==
    /\ tool = "local" /\ At("schedule")
    /\ \/ CheckedCall(own) /\ Scheduled(own, TRUE)
       \/ Passes

\* A patch of the CronJob from one state to the other, if it is in the first.
Patch(from, to) ==
    /\ \E k \in Contexts, got \in BOOLEAN :
        /\ Call(k, got)
        /\ LET hit == got /\ k \in Clusters /\ cron[k] = from
           IN cron' = Sets(cron, k, hit, to) /\ Touches(k, hit)
    /\ Advance
    /\ UNCHANGED <<up, svc, host, job, origin, known>>

Suspend == At("suspend") /\ Patch("active", "suspended")

\* Mutant: the CronJob is resumed only by a first deploy.
Unsuspend_First == At("unsuspend") /\ Patch(IF before = "none" THEN "suspended" ELSE "none", "active")

Unsuspend == At("unsuspend") /\ Patch("suspended", "active")

\* helm upgrade of the load balancer controller, unless --elb, and the wait for
\* its pods.
Install ==
    /\ At("install")
    /\ \/ want = "nlb" /\ \E k \in Contexts, got \in BOOLEAN :
            Call(k, got) /\ Touches(k, got) /\ IF got THEN Advance ELSE End(FALSE)
       \/ want = "elb" /\ Goto("job") /\ UNCHANGED <<context, missed, touched>>
    /\ UNCHANGED <<cluster, known>>

Controller ==
    /\ At("controller")
    /\ \E k \in Contexts, got \in BOOLEAN :
        Call(k, got) /\ IF got THEN Advance ELSE End(FALSE)
    /\ UNCHANGED <<cluster, known, touched>>

\* rollout restart, for the new secrets.
Restart ==
    /\ At("restart")
    /\ \E k \in Contexts, got \in BOOLEAN : Call(k, got) /\ Touches(k, got)
    /\ Advance
    /\ UNCHANGED <<cluster, known>>

\* One replica that is ready is enough, an old one too; without a deployment
\* the wait times out.
Ready ==
    /\ At("ready")
    /\ \E k \in Contexts, got \in BOOLEAN :
        Call(k, got) /\ IF got /\ svc[k] # "none" THEN Advance ELSE End(FALSE)
    /\ UNCHANGED <<cluster, known, touched>>
============================================================================
