-------------------------- MODULE KubeRollout_proofs --------------------------
(* The properties of KubeRollout, for any number of tools that the operator
   starts. ClustersApart: a deploy knows where its kubectl calls go from the
   step on that has seen its own cluster exist. The others: what a deploy that
   lost no call has done at each of its steps, and that a hostname it found, or
   that is an origin, does not vanish under it. *)
EXTENDS KubeRollout, TLAPS

(* The steps of a deploy at which its cluster may not be there yet. *)
Unsure == {"lookup", "apply", "credentials", "prepare", "unplanned"}

(* From then on the cluster is there, and for the tools that end when a
   kubeconfig fails it is the one that kubectl talks to. *)
Reached ==
    /\ tool \in Deploys /\ step \notin Unsure => own \in up
    /\ tool \in Deploys \ {"aws"} /\ step \notin Unsure => context = own

(* A hostname is one that its own cloud gave, also the one a tool has found. *)
HostIsOwn == \A c \in Clusters : host[c] \in HostsOf[c] \union {"none"}
FoundIsOwn ==
    tool \in {"aws", "gcp", "reapply"} =>
        before \in HostsOf[own] \union {"none"} /\ after \in HostsOf[own] \union {"none"}

IInv == TypeOK /\ Reached /\ HostIsOwn /\ FoundIsOwn /\ DeployStaysHome /\ OriginIsOwn

(* What a step of a tool can follow with. *)
LEMMA Follows ==
    ASSUME NEW t \in Tools, NEW s \in (DOMAIN Following[t]) \ {"start"}
    PROVE  /\ Following[t][s] \in ((DOMAIN Following[t]) \ {"start"}) \union {"end"}
           /\ s \notin Unsure => Following[t][s] \notin Unsure
           /\ t # "none"
  BY DEF Tools, Following, Unsure, Deploys

LEMMA Starts ==
    ASSUME NEW t \in Tools
    PROVE  /\ Following[t]["start"] \in ((DOMAIN Following[t]) \ {"start"}) \union {"end"}
           /\ t \in Deploys => Following[t]["start"] \in Unsure
  BY DEF Tools, Following, Unsure, Deploys

LEMMA Owns ==
    /\ \A t \in Tools : Own[t] \in Clusters
    /\ \A t \in Tools \ {"local", "local_down"} : Own[t] \in Clouds
    /\ Own["aws"] = "eks" /\ Own["gcp"] = "gke" /\ Own["reapply"] = "gke"
    /\ {"eks", "gke"} = Clouds /\ Clouds \subseteq Clusters /\ Deploys \subseteq Tools
    /\ "none" \notin Tools /\ "none" \notin Clusters
    /\ \A c \in Clusters : HostsOf[c] \subseteq Hosts
    /\ "none" \notin Hosts /\ "gone" \notin Hosts
  BY DEF Own, Tools, Following, Clusters, Clouds, Deploys, HostsOf, Hosts

THEOREM Initially == Init => IInv
  <1> SUFFICES ASSUME Init PROVE IInv OBVIOUS
  <1> USE DEF Init
  <1>1. TypeOK
    <2>1. /\ svc \in [Clusters -> Hosts \union {"none"}] /\ host \in [Clusters -> Hosts \union {"none"}]
          /\ origin \in [Clouds -> Hosts \union {"none", "gone"}]
      BY DEF Clusters, Clouds, Hosts
    <2>2. cron \in [Clusters -> {"none", "active", "suspended"}]
      BY DEF Clusters, Clouds
    <2>3. job \in [Clusters -> {"none", "running", "succeeded"}]
      BY DEF Clusters, Clouds
    <2>4. runs \in 0..MaxRuns
      BY RolloutAssumption DEF RolloutAssumption
    <2>5. up \subseteq Clusters /\ context \in Contexts /\ {want, before, after} \subseteq Hosts \union {"none"} /\ want \in Hosts
      BY DEF Clusters, Contexts, Hosts
    <2> QED BY <2>1, <2>2, <2>3, <2>4, <2>5 DEF TypeOK
  <1>2. HostIsOwn /\ OriginIsOwn
    BY DEF HostIsOwn, OriginIsOwn, Clusters, Clouds, HostsOf
  <1>3. Reached /\ FoundIsOwn /\ DeployStaysHome
    BY DEF Reached, FoundIsOwn, DeployStaysHome, Deploys
  <1> QED BY <1>1, <1>2, <1>3 DEF IInv

(* The tool goes on to a step that its own order allows, or it ends. *)
Moved ==
    /\ tool' = "none" \/ (tool' = tool /\ step' \in ((DOMAIN Following[tool]) \ {"start"}) \union {"end"})
    /\ step \notin Unsure => step' \notin Unsure
    /\ lastAws' \in {"ok", "bad"}

LEMMA StepMoves ==
    ASSUME IInv, tool # "none", step # "end", Advance \/ End(TRUE) \/ End(FALSE)
    PROVE  Moved /\ (tool' = "none" \/ step' = Following[tool][step])
  <1>1. tool \in Tools /\ step \in (DOMAIN Following[tool]) \ {"start"} /\ lastAws \in {"ok", "bad"}
    BY DEF IInv, TypeOK
  <1>2. CASE Advance
    <2>1. tool' = tool /\ step' = Following[tool][step] /\ lastAws' = lastAws
      BY <1>2 DEF Advance, Goto
    <2> QED BY <1>1, <2>1, Follows DEF Moved
  <1>3. CASE End(TRUE) \/ End(FALSE)
    BY <1>1, <1>3 DEF End, Moved, Unsure
  <1> QED BY <1>2, <1>3

(* kubectl calls of a deploy reach its own cluster, or one was lost. *)
LEMMA CallsStayHome ==
    ASSUME IInv, tool \in Deploys, step \notin Unsure,
           NEW k \in Contexts, NEW got \in BOOLEAN, Call(k, got)
    PROVE  /\ context' \in Contexts /\ missed' \in BOOLEAN
           /\ got => k \in Clusters
           /\ got => k = own \/ missed'
           /\ tool # "aws" => context' = own
           /\ \A g \in {got, FALSE} : Touches(k, g) =>
                touched' \subseteq Clusters /\ (~missed' => touched' \subseteq {own})
           /\ touched' = touched => touched' \subseteq Clusters /\ (~missed' => touched' \subseteq {own})
  <1>1. own \in up /\ own \in Clusters /\ up \subseteq Clusters /\ missed \in BOOLEAN
        /\ touched \subseteq Clusters /\ (~missed => touched \subseteq {own})
        /\ (tool # "aws" => context = own)
    BY Owns DEF IInv, TypeOK, Reached, DeployStaysHome, own
  <1>2. context' = k /\ missed' = (missed \/ (k # own \/ ~got)) /\ (got => k \in up) /\ (k = own \/ k = context)
    BY <1>1 DEF Call
  <1>3. missed => missed'
    BY <1>1, <1>2
  <1> QED BY <1>1, <1>2, <1>3 DEF Touches

(* A step of a deploy that leaves stacks and hostnames alone. *)
LEMMA DeployKeeps ==
    ASSUME IInv, tool \in Deploys, Moved, step' \notin Unsure => step \notin Unsure \/ tool' = "none",
           UNCHANGED <<up, host, origin, want, before, after, runs>>,
           svc' \in [Clusters -> Hosts \union {"none"}],
           cron' \in [Clusters -> {"none", "active", "suspended"}],
           job' \in [Clusters -> {"none", "running", "succeeded"}],
           context' \in Contexts, missed' \in BOOLEAN, touched' \subseteq Clusters,
           ~missed' => touched' \subseteq {own},
           tool # "aws" => context' = own \/ step' \in Unsure \/ tool' = "none"
    PROVE  IInv'
  <1>1. tool' = "none" \/ (tool' = tool /\ own' = own)
    BY DEF Moved, own
  <1>2. TypeOK'
    BY Owns DEF IInv, TypeOK, Moved
  <1>3. Reached'
    BY <1>1, Owns DEF IInv, Reached
  <1>4. HostIsOwn' /\ OriginIsOwn'
    BY DEF IInv, HostIsOwn, OriginIsOwn
  <1>5. FoundIsOwn'
    BY <1>1 DEF IInv, FoundIsOwn
  <1>6. DeployStaysHome'
    BY <1>1, Owns DEF DeployStaysHome
  <1> QED BY <1>2, <1>3, <1>4, <1>5, <1>6 DEF IInv

(* The same for a step that changes nothing but where the tool stands. *)
LEMMA PassKeeps ==
    ASSUME IInv, tool # "none", Moved, step' \notin Unsure => step \notin Unsure \/ tool' = "none",
           UNCHANGED <<context, cluster, known, touched, missed>>
    PROVE  IInv'
  <1>0. up' = up /\ host' = host /\ svc' = svc /\ cron' = cron /\ job' = job /\ origin' = origin
        /\ want' = want /\ before' = before /\ after' = after /\ runs' = runs
        /\ context' = context /\ touched' = touched /\ missed' = missed
    BY DEF cluster, known
  <1>1. tool' = "none" \/ (tool' = tool /\ own' = own)
    BY DEF Moved, own
  <1>2. TypeOK'
    BY <1>0, Owns DEF IInv, TypeOK, Moved
  <1>3. Reached'
    BY <1>0, <1>1, Owns DEF IInv, Reached
  <1>4. HostIsOwn' /\ OriginIsOwn'
    BY <1>0 DEF IInv, HostIsOwn, OriginIsOwn
  <1>5. FoundIsOwn'
    BY <1>0, <1>1 DEF IInv, FoundIsOwn
  <1>6. DeployStaysHome'
    BY <1>0, <1>1, Owns DEF IInv, DeployStaysHome
  <1> QED BY <1>2, <1>3, <1>4, <1>5, <1>6 DEF IInv

(* Which tool has a step, and that all of these are behind the first ones. *)
LEMMA StepOwner ==
    ASSUME IInv, tool # "none"
    PROVE  /\ step \in {"nodes", "suspend", "install", "controller", "restart", "unsuspend", "dns"}
                => tool = "aws"
           /\ step \in {"job", "service", "schedule", "ready", "health", "poll", "rewire", "proxy",
                          "credentials", "prepare", "lookup", "apply"} => tool \in Deploys
           /\ step \in {"clean", "destroy"} => tool \notin Deploys
  <1>1. tool \in Tools /\ step \in ((DOMAIN Following[tool]) \ {"start"}) \union {"end"}
    BY DEF IInv, TypeOK
  <1> QED BY <1>1 DEF Tools, Following, Deploys

LEMMA OwnKubectl ==
    ASSUME IInv, tool \in Deploys, Checked
    PROVE  context' = own /\ own \in Clusters /\ missed' = missed /\ own \in up /\ context' \in Contexts
  BY Owns DEF Checked, own, Contexts

(* The steps of a deploy between the two times it applies the stack. *)
LEMMA ManifestsKeep ==
    ASSUME IInv, AwsJob \/ GcpJob \/ LocalJob \/ AwsService \/ GcpService \/ LocalService
                 \/ AwsSchedule \/ GcpSchedule \/ LocalSchedule
    PROVE  IInv'
  <1>0. /\ tool \in Deploys /\ step \notin Unsure /\ tool # "none" /\ step # "end" /\ own \in Clusters
        /\ touched \subseteq Clusters /\ (~missed => touched \subseteq {own})
        /\ svc \in [Clusters -> Hosts \union {"none"}]
        /\ cron \in [Clusters -> {"none", "active", "suspended"}]
        /\ job \in [Clusters -> {"none", "running", "succeeded"}]
        /\ want \in Hosts /\ missed \in BOOLEAN
    BY Owns DEF IInv, TypeOK, DeployStaysHome, own, Deploys, Unsure, At, AwsJob, GcpJob, LocalJob,
       AwsService, GcpService, LocalService, AwsSchedule, GcpSchedule, LocalSchedule
  <1>1. CASE AwsJob
    <2>1. PICK k \in Contexts, got \in BOOLEAN : Call(k, got) /\
            (\/ got /\ job[k] = "succeeded" /\ UNCHANGED <<job, touched>>
             \/ got /\ job[k] # "succeeded" /\ Creates(k)
             \/ ~got /\ k \in up /\ (Creates(k) \/ (job' = [job EXCEPT ![k] = "none"] /\ Touches(k, TRUE)))
             \/ ~got /\ UNCHANGED <<job, touched>>)
      BY <1>1 DEF AwsJob
    <2>2. job' \in [Clusters -> {"none", "running", "succeeded"}]
      BY <1>0, <2>1 DEF Creates
    <2>3. up \subseteq Clusters /\ (k \in up => k = own \/ missed') /\ (got => k \in up)
          /\ missed' \in BOOLEAN /\ (missed => missed') /\ context' = k
      BY <1>0, <2>1 DEF IInv, TypeOK, Call, Reached
    <2>4. touched' \subseteq Clusters /\ (~missed' => touched' \subseteq {own})
      BY <1>0, <2>1, <2>3 DEF Touches, Creates
    <2>5. Moved /\ UNCHANGED <<up, svc, cron, host, origin, want, before, after, runs>>
      BY <1>0, <1>1, StepMoves DEF AwsJob, JobFrame, known
    <2> QED BY <1>0, <1>1, <2>2, <2>3, <2>4, <2>5, DeployKeeps DEF AwsJob
  <1>2. CASE GcpJob \/ LocalJob
    <2>1. Checked /\ (Creates(own) \/ UNCHANGED <<job, touched>>)
      BY <1>2 DEF GcpJob, LocalJob, CheckedCall
    <2>2. job' \in [Clusters -> {"none", "running", "succeeded"}]
          /\ touched' \subseteq Clusters /\ (~missed => touched' \subseteq {own})
      BY <1>0, <2>1 DEF Creates, Touches
    <2>3. Moved /\ UNCHANGED <<up, svc, cron, host, origin, want, before, after, runs>>
      BY <1>0, <1>2, StepMoves DEF GcpJob, LocalJob, JobFrame, known
    <2> QED BY <1>0, <2>1, <2>2, <2>3, OwnKubectl, DeployKeeps
  <1>3. CASE AwsService
    <2>1. PICK k \in Contexts, got \in BOOLEAN :
            Call(k, got) /\ svc' = Sets(svc, k, got, want) /\ Touches(k, got)
      BY <1>3 DEF AwsService
    <2>2. svc' \in [Clusters -> Hosts \union {"none"}]
      BY <1>0, <2>1 DEF Sets
    <2>3. context' \in Contexts /\ missed' \in BOOLEAN /\ touched' \subseteq Clusters
          /\ (~missed' => touched' \subseteq {own})
      BY <1>0, <2>1, CallsStayHome
    <2>4. Moved /\ UNCHANGED <<up, cron, job, host, origin, want, before, after, runs>>
      BY <1>0, <1>3, StepMoves DEF AwsService, ServiceFrame, known
    <2> QED BY <1>0, <1>3, <2>2, <2>3, <2>4, DeployKeeps DEF AwsService
  <1>4. CASE GcpService \/ LocalService
    <2>1. Checked /\ svc' = [svc EXCEPT ![own] = want] /\ Touches(own, TRUE)
      BY <1>4 DEF GcpService, LocalService, CheckedCall
    <2>2. svc' \in [Clusters -> Hosts \union {"none"}]
          /\ touched' \subseteq Clusters /\ (~missed => touched' \subseteq {own})
      BY <1>0, <2>1 DEF Touches
    <2>3. Moved /\ UNCHANGED <<up, cron, job, host, origin, want, before, after, runs>>
      BY <1>0, <1>4, StepMoves DEF GcpService, LocalService, ServiceFrame, known
    <2> QED BY <1>0, <2>1, <2>2, <2>3, OwnKubectl, DeployKeeps
  <1>5. ASSUME NEW k \in Contexts, NEW got \in BOOLEAN, Scheduled(k, got)
        PROVE  /\ cron' \in [Clusters -> {"none", "active", "suspended"}] /\ Moved
               /\ UNCHANGED <<up, svc, job, host, origin, want, before, after, runs>>
               /\ Touches(k, got)
    BY <1>0, <1>5, StepMoves DEF Scheduled, known
  <1>6. CASE AwsSchedule
    <2>1. PICK k \in Contexts, got \in BOOLEAN : Call(k, got) /\ Scheduled(k, got)
      BY <1>6 DEF AwsSchedule
    <2>2. Touches(k, got)
      BY <1>5, <2>1
    <2>3. context' \in Contexts /\ missed' \in BOOLEAN /\ touched' \subseteq Clusters
          /\ (~missed' => touched' \subseteq {own})
      BY <1>0, <2>1, <2>2, CallsStayHome
    <2> QED BY <1>0, <1>5, <1>6, <2>1, <2>3, DeployKeeps DEF AwsSchedule
  <1>7. ASSUME Checked, Scheduled(own, TRUE) PROVE IInv'
    <2>1. own \in Contexts /\ Touches(own, TRUE)
      BY <1>0, <1>5, <1>7 DEF Contexts
    <2>2. touched' \subseteq Clusters /\ (~missed => touched' \subseteq {own})
      BY <1>0, <2>1 DEF Touches
    <2> QED BY <1>0, <1>5, <1>7, <2>1, <2>2, OwnKubectl, DeployKeeps
  <1>8. CASE GcpSchedule \/ LocalSchedule
    <2>1. (Checked /\ Scheduled(own, TRUE)) \/ Passes
      BY <1>8 DEF GcpSchedule, LocalSchedule, CheckedCall
    <2>2. ASSUME Passes PROVE IInv'
      BY <1>0, <2>2, StepMoves, PassKeeps DEF Passes
    <2> QED BY <1>7, <2>1, <2>2
  <1> QED BY <1>1, <1>2, <1>3, <1>4, <1>6, <1>8

(* The other calls to kubectl of a deploy, and its waits. *)
LEMMA CallsKeep ==
    ASSUME IInv, Suspend \/ Unsuspend \/ Install \/ Controller \/ Restart \/ Ready, tool # "none"
    PROVE  IInv'
  <1>0. /\ tool \in Deploys /\ step \notin Unsure /\ step # "end" /\ own \in Clusters
        /\ svc \in [Clusters -> Hosts \union {"none"}]
        /\ cron \in [Clusters -> {"none", "active", "suspended"}]
        /\ job \in [Clusters -> {"none", "running", "succeeded"}]
    BY Owns, StepOwner DEF IInv, TypeOK, own, Deploys, Unsure, At, Suspend, Unsuspend, Install, Controller,
       Restart, Ready
  <1>1. ASSUME NEW from \in {"none", "active", "suspended"}, NEW to \in {"none", "active", "suspended"},
               Patch(from, to)
        PROVE  IInv'
    <2>1. PICK k \in Contexts, got \in BOOLEAN : Call(k, got) /\
            LET hit == got /\ k \in Clusters /\ cron[k] = from
            IN cron' = Sets(cron, k, hit, to) /\ Touches(k, hit)
      BY <1>1 DEF Patch
    <2>2. PICK hit \in {got, FALSE} : cron' = Sets(cron, k, hit, to) /\ Touches(k, hit)
      <3>1. (got /\ k \in Clusters /\ cron[k] = from) \in {got, FALSE}
        OBVIOUS
      <3> QED BY <2>1, <3>1
    <2>3. cron' \in [Clusters -> {"none", "active", "suspended"}]
      BY <1>0, <1>1, <2>2 DEF Sets
    <2>4. context' \in Contexts /\ missed' \in BOOLEAN /\ touched' \subseteq Clusters
          /\ (~missed' => touched' \subseteq {own}) /\ (tool # "aws" => context' = own)
      BY <1>0, <2>1, <2>2, CallsStayHome
    <2>5. Moved /\ UNCHANGED <<up, svc, job, host, origin, want, before, after, runs>>
      BY <1>0, <1>1, StepMoves DEF Patch, known
    <2> QED BY <1>0, <2>3, <2>4, <2>5, DeployKeeps
  <1>2. CASE Suspend \/ Unsuspend
    BY <1>1, <1>2 DEF Suspend, Unsuspend
  <1>3. CASE Install \/ Controller \/ Restart \/ Ready
    <2>1. tool \in Deploys /\ UNCHANGED <<up, svc, host, cron, job, origin, want, before, after, runs>>
      BY <1>0, <1>3 DEF Install, Controller, Restart, Ready, cluster, known
    <2>2. Moved
      <3>1. CASE Advance \/ End(TRUE) \/ End(FALSE)
        BY <1>0, <3>1, StepMoves
      <3>2. CASE Install /\ Goto("job")
        BY <1>0, <3>2, StepOwner DEF Goto, Moved, IInv, TypeOK, Install, At, Following, Unsure
      <3> QED BY <1>3, <3>1, <3>2 DEF Install, Controller, Restart, Ready
    <2>3. CASE UNCHANGED <<context, missed, touched>>
      <3>1. UNCHANGED <<context, cluster, known, touched, missed>>
        BY <2>1, <2>3 DEF cluster, known
      <3> QED BY <1>0, <2>2, <3>1, PassKeeps
    <2>4. ASSUME NEW k \in Contexts, NEW got \in BOOLEAN, Call(k, got),
                 Touches(k, got) \/ touched' = touched
          PROVE  IInv'
      <3>1. context' \in Contexts /\ missed' \in BOOLEAN /\ touched' \subseteq Clusters
            /\ (~missed' => touched' \subseteq {own}) /\ (tool # "aws" => context' = own)
        BY <1>0, <2>4, CallsStayHome
      <3> QED BY <1>0, <2>1, <2>2, <3>1, DeployKeeps
    <2> QED BY <1>3, <2>3, <2>4 DEF Install, Controller, Restart, Ready
  <1> QED BY <1>2, <1>3

(* The checks from outside, and the two ends of a tool. *)
LEMMA PassesKeep ==
    ASSUME IInv, tool # "none", Nodes \/ Dns \/ Health \/ Proxy \/ Finish \/ FinishUnplanned \/ Stop
    PROVE  IInv'
  <1>1. CASE Nodes \/ Dns \/ Health \/ Proxy
    <2>1. step # "end" /\ step \notin Unsure /\ (Advance \/ End(FALSE))
          /\ UNCHANGED <<context, cluster, known, touched, missed>>
      BY <1>1 DEF Nodes, Dns, Health, Proxy, Passes, At, Unsure
    <2> QED BY <2>1, StepMoves, PassKeeps
  <1>2. CASE Finish \/ FinishUnplanned \/ Stop
    <2>1. tool' = "none" /\ step' = "end" /\ lastAws' \in {"ok", "bad"}
          /\ UNCHANGED <<context, cluster, known, touched, missed>>
      BY <1>2 DEF Finish, FinishUnplanned, Reports, Stop, End, IInv, TypeOK
    <2>2. Moved
      BY <2>1 DEF Moved, Unsure
    <2> QED BY <2>1, <2>2, PassKeeps
  <1> QED BY <1>1, <1>2

(* From the step on that sees the cluster, the deploy knows where it is. *)
LEMMA CredentialsKeep ==
    ASSUME IInv, tool # "none", Credentials \/ Prepare
    PROVE  IInv'
  <1>1. tool \in Deploys /\ step # "end" /\ own \in Clusters
    BY Owns, StepOwner DEF Credentials, Prepare, At, own
  <1>2. UNCHANGED <<up, svc, host, cron, job, origin, want, before, after, runs>>
    BY DEF Credentials, Prepare, cluster, known
  <1>3. Moved
    BY <1>1, StepMoves DEF Credentials, Prepare, Denied
  <1>4. touched' = touched /\ missed' = missed
    BY DEF Credentials, Prepare, Denied, Checked
  <1>5. tool' = "none" \/ (tool' = tool /\ own' = own)
    BY <1>3 DEF Moved, own
  <1>6. context' \in Contexts /\ (tool' = tool => context' = own /\ own \in up)
    BY <1>1, Owns DEF Credentials, Prepare, Denied, Checked, End, Contexts, IInv, TypeOK
  <1>7. TypeOK'
    BY <1>2, <1>3, <1>4, <1>6 DEF IInv, TypeOK, Moved
  <1>8. Reached' /\ HostIsOwn' /\ OriginIsOwn' /\ FoundIsOwn' /\ DeployStaysHome'
    BY <1>2, <1>4, <1>5, <1>6, Owns
       DEF IInv, Reached, HostIsOwn, OriginIsOwn, FoundIsOwn, DeployStaysHome
  <1> QED BY <1>7, <1>8 DEF IInv

(* What a tool reads of its own cluster is a hostname that its cloud gave. *)
LEMMA LookupsKeep ==
    ASSUME IInv, AwsLookup \/ GcpLookup
    PROVE  IInv'
  <1>1. PICK k \in Contexts, got \in BOOLEAN : Call(k, got) /\
          before' = IF tool = "aws" THEN (IF got THEN AwsSeen(k) ELSE "none")
                    ELSE IF got /\ k = own THEN GcpSeen(k) ELSE "none"
    BY DEF AwsLookup, GcpLookup
  <1>2. tool \in {"aws", "gcp"} /\ step = "lookup" /\ own \in Clusters
    BY Owns DEF AwsLookup, GcpLookup, At, own
  <1>3. before' \in HostsOf[own] \union {"none"}
    BY <1>1, <1>2 DEF AwsSeen, GcpSeen, IInv, HostIsOwn, own, Own
  <1>4. context' \in Contexts /\ missed' \in BOOLEAN /\ (missed => missed')
    BY <1>1 DEF Call, IInv, TypeOK
  <1>5. UNCHANGED <<up, svc, host, cron, job, origin, want, after, runs, touched>>
    BY DEF AwsLookup, GcpLookup, LookupFrame, cluster
  <1>6. tool' = tool /\ own' = own /\ step' = "apply" /\ lastAws' = lastAws
    BY <1>2 DEF AwsLookup, GcpLookup, LookupFrame, Advance, Goto, own, Following
  <1>7. Moved
    BY <1>2, <1>6, StepMoves DEF AwsLookup, GcpLookup, LookupFrame
  <1>8. TypeOK'
    BY <1>2, <1>3, <1>4, <1>5, <1>7, Owns DEF IInv, TypeOK, Moved
  <1>9. Reached' /\ HostIsOwn' /\ OriginIsOwn' /\ FoundIsOwn' /\ DeployStaysHome'
    BY <1>3, <1>4, <1>5, <1>6
       DEF IInv, Reached, HostIsOwn, OriginIsOwn, FoundIsOwn, DeployStaysHome, Unsure
  <1> QED BY <1>8, <1>9 DEF IInv

(* The stack takes a hostname of its own cloud, completely or in part. *)
LEMMA StackKeeps ==
    ASSUME IInv, tool \in {"aws", "gcp", "reapply"}, Moved,
           UNCHANGED <<context, objects, known, touched, missed>>,
           NEW h \in HostsOf[own] \union {"none"},
           up' = up \/ up' = up \union {own},
           origin' = origin \/ origin' = [origin EXCEPT ![own] = h],
           tool' = "none" \/ step' \in Unsure \/ own \in up',
           tool' = "none" \/ tool = "aws" \/ step' \in Unsure \/ context = own
    PROVE  IInv'
  <1>1. UNCHANGED <<svc, host, cron, job, want, before, after, runs>> /\ own \in Clouds /\ own \in Clusters
    BY Owns DEF objects, known, own
  <1>2. tool' = "none" \/ (tool' = tool /\ own' = own)
    BY DEF Moved, own
  <1>3. h \in Hosts \union {"none"}
    BY <1>1, Owns
  <1>4. origin' \in [Clouds -> Hosts \union {"none", "gone"}]
    BY <1>1, <1>3 DEF IInv, TypeOK
  <1>5. TypeOK'
    BY <1>1, <1>4 DEF IInv, TypeOK, Moved
  <1>6. OriginIsOwn'
    <2>1. origin \in [Clouds -> Hosts \union {"none", "gone"}]
      BY DEF IInv, TypeOK
    <2> QED BY <2>1 DEF IInv, OriginIsOwn
  <1>7. Reached' /\ HostIsOwn' /\ FoundIsOwn' /\ DeployStaysHome'
    BY <1>1, <1>2, Owns DEF IInv, Reached, HostIsOwn, FoundIsOwn, DeployStaysHome
  <1> QED BY <1>5, <1>6, <1>7 DEF IInv

LEMMA AppliesKeep ==
    ASSUME IInv, AwsApply \/ GcpApply \/ AwsRewire \/ GcpRewire \/ ReapplyRewire
    PROVE  IInv'
  <1>1. tool \in {"aws", "gcp", "reapply"} /\ tool # "none" /\ step \in {"apply", "rewire"} /\ own \in Clouds
        /\ UNCHANGED <<context, objects, known, touched, missed>>
    BY Owns DEF AwsApply, GcpApply, AwsRewire, GcpRewire, ReapplyRewire, At, ApplyFrame, own
  <1>2. before \in HostsOf[own] \union {"none"} /\ ToUse \in HostsOf[own] \union {"none"}
    BY <1>1 DEF IInv, FoundIsOwn, ToUse
  <1>3. Moved
    <2>1. CASE Advance \/ End(TRUE) \/ End(FALSE)
      BY <1>1, <2>1, StepMoves
    <2>2. CASE tool = "aws" /\ Goto("suspend")
      BY <2>2 DEF Goto, Moved, IInv, TypeOK, Following, Unsure
    <2>3. CASE tool = "gcp" /\ step = "apply" /\ Goto("unplanned")
      BY <2>3 DEF Goto, Moved, IInv, TypeOK, Following, Unsure
    <2> QED BY <1>1, <2>1, <2>2, <2>3
            DEF AwsApply, GcpApply, AwsRewire, GcpRewire, ReapplyRewire, SecondApply, PartlyApplied, Unplanned, At
  <1>4. CASE step = "rewire"
    <2>1. own \in up /\ (tool = "aws" \/ context = own)
      BY <1>1, <1>4 DEF IInv, Reached, Deploys, Unsure
    <2>2. (up' = up \/ up' = up \union {own}) /\ (origin' = origin \/ origin' = [origin EXCEPT ![own] = ToUse])
      BY <1>1, <1>4 DEF AwsApply, GcpApply, AwsRewire, GcpRewire, ReapplyRewire, SecondApply, PartlyApplied,
         Applied, At
    <2>3. own \in up'
      BY <2>1, <2>2
    <2> QED BY <1>1, <1>2, <1>3, <2>1, <2>2, <2>3, StackKeeps
  <1>5. CASE step = "apply"
    <2>1. (up' = up \/ up' = up \union {own}) /\ (origin' = origin \/ origin' = [origin EXCEPT ![own] = before])
          /\ (tool' = "none" \/ step' \in Unsure \/ own \in up')
      BY <1>1, <1>5 DEF AwsApply, GcpApply, AwsRewire, GcpRewire, ReapplyRewire, PartlyApplied, Applied, Unplanned,
                        At, End, Goto, Unsure
    <2>2. tool' = "none" \/ tool = "aws" \/ step' \in Unsure
      <3>1. CASE GcpApply
        BY <1>5, <3>1 DEF GcpApply, PartlyApplied, Unplanned, End, Advance, Goto, Following, Unsure
      <3> QED BY <1>5, <3>1 DEF AwsApply, AwsRewire, GcpRewire, ReapplyRewire, At
    <2> QED BY <1>1, <1>2, <1>3, <2>1, <2>2, StackKeeps
  <1> QED BY <1>1, <1>4, <1>5

(* The poll of a GCP deploy reads its own cluster: the kubeconfig was checked. *)
LEMMA PollsKeep ==
    ASSUME IInv, AwsPoll \/ GcpPoll \/ ReapplyPoll
    PROVE  IInv'
  <1>1. tool \in {"aws", "gcp", "reapply"} /\ tool # "none" /\ step = "poll" /\ tool \in Deploys /\ step \notin Unsure
    BY DEF AwsPoll, GcpPoll, ReapplyPoll, At, Deploys, Unsure
  <1>2. Moved
    BY <1>1, StepMoves DEF AwsPoll, GcpPoll, ReapplyPoll
  <1>3. PICK h \in {AwsSeen(context), GcpSeen(context)} : Polled(h) /\ (tool # "aws" => h = GcpSeen(context))
          /\ (tool = "aws" => h = AwsSeen(context))
    BY DEF AwsPoll, GcpPoll, ReapplyPoll
  <1>4. h \in HostsOf[own] \union {"none"}
    BY <1>1, <1>3 DEF AwsSeen, GcpSeen, IInv, Reached, HostIsOwn, own, Own, Clusters
  <1>5. after' \in HostsOf[own] \union {"none"} /\ missed' \in BOOLEAN /\ (missed => missed')
        /\ UNCHANGED <<context, up, svc, host, cron, job, origin, want, before, runs, touched>>
    <2>1. missed \in BOOLEAN
      BY DEF IInv, TypeOK
    <2>2. \/ after' = h /\ missed' = missed
          \/ after' = "none" /\ missed' = (missed \/ h # "none")
      BY <1>3, Zenon DEF Polled
    <2>3. UNCHANGED <<context, up, svc, host, cron, job, origin, want, before, runs, touched>>
      BY <1>3 DEF Polled, cluster
    <2> QED BY <1>4, <2>1, <2>2, <2>3
  <1>6. tool' = "none" \/ (tool' = tool /\ own' = own)
    BY <1>2 DEF Moved, own
  <1>7. own \in Clusters
    BY <1>1, Owns DEF own
  <1>8. TypeOK'
    BY <1>2, <1>5, <1>7, Owns DEF IInv, TypeOK, Moved
  <1>9. Reached' /\ HostIsOwn' /\ OriginIsOwn' /\ FoundIsOwn' /\ DeployStaysHome'
    BY <1>1, <1>5, <1>6, Owns DEF IInv, Reached, HostIsOwn, OriginIsOwn, FoundIsOwn, DeployStaysHome
  <1> QED BY <1>8, <1>9 DEF IInv

(* A teardown takes objects and hostnames away and gives none. *)
LEMMA DownKeeps ==
    ASSUME IInv, tool \notin Deploys, tool # "none", Moved,
           UNCHANGED known, context' \in Contexts, missed' \in BOOLEAN, touched' \subseteq Clusters,
           up' \subseteq Clusters,
           svc' \in [Clusters -> Hosts \union {"none"}], host' \in [Clusters -> Hosts \union {"none"}],
           cron' \in [Clusters -> {"none", "active", "suspended"}],
           job' \in [Clusters -> {"none", "running", "succeeded"}],
           origin' \in [Clouds -> Hosts \union {"none", "gone"}],
           \A c \in Clusters : host'[c] \in {host[c], "none"},
           \A c \in Clouds : origin'[c] \in {origin[c], "none", "gone"}
    PROVE  IInv'
  <1>1. UNCHANGED <<want, before, after, runs>>
    BY DEF known
  <1>2. tool' \notin Deploys /\ tool' \notin {"aws", "gcp", "reapply"}
    BY Owns DEF Moved, Deploys
  <1>3. TypeOK'
    BY <1>1 DEF IInv, TypeOK, Moved
  <1>4. HostIsOwn' /\ OriginIsOwn'
    BY DEF IInv, HostIsOwn, OriginIsOwn
  <1>5. Reached' /\ FoundIsOwn' /\ DeployStaysHome'
    BY <1>2 DEF Reached, FoundIsOwn, DeployStaysHome
  <1> QED BY <1>3, <1>4, <1>5 DEF IInv

LEMMA TeardownsKeep ==
    ASSUME IInv, AwsClean \/ GcpClean \/ LocalClean \/ AwsDestroy \/ GcpDestroy
    PROVE  IInv'
  <1>1. /\ tool \in {"aws_down", "gcp_down", "local_down"} /\ tool \in Tools /\ tool \notin Deploys
        /\ tool # "none" /\ step # "end" /\ own \in Clusters
        /\ (tool # "local_down" => own \in Clouds)
    <2>1. tool \in {"aws_down", "gcp_down", "local_down"} /\ step \in {"clean", "destroy"}
      BY DEF AwsClean, GcpClean, LocalClean, AwsDestroy, GcpDestroy, At
    <2>2. {"aws_down", "gcp_down", "local_down"} \subseteq Tools
      BY DEF Tools, Following
    <2> QED BY <2>1, <2>2 DEF Deploys, own, Own, Clusters, Clouds
  <1>2. Moved
    BY <1>1, StepMoves DEF AwsClean, GcpClean, LocalClean, AwsDestroy, GcpDestroy, CleanFrame, Destroyed
  <1>3. /\ context \in Contexts /\ up \subseteq Clusters /\ missed \in BOOLEAN /\ touched \subseteq Clusters
        /\ svc \in [Clusters -> Hosts \union {"none"}] /\ host \in [Clusters -> Hosts \union {"none"}]
        /\ cron \in [Clusters -> {"none", "active", "suspended"}]
        /\ job \in [Clusters -> {"none", "running", "succeeded"}]
        /\ origin \in [Clouds -> Hosts \union {"none", "gone"}]
    BY DEF IInv, TypeOK
  <1>4. CASE AwsClean \/ GcpClean \/ LocalClean
    <2>1. up' = up /\ UNCHANGED known
      BY <1>4 DEF AwsClean, GcpClean, LocalClean, CleanFrame
    <2>2. context' \in Contexts /\ missed' \in BOOLEAN
      BY <1>3, <1>4 DEF AwsClean, GcpClean, LocalClean, Skips, Call
    <2>3. ASSUME NEW k \in Contexts, NEW got \in BOOLEAN, Wipe(k, got) PROVE IInv'
      <3>1. /\ svc' \in [Clusters -> Hosts \union {"none"}]
            /\ cron' \in [Clusters -> {"none", "active", "suspended"}]
            /\ job' \in [Clusters -> {"none", "running", "succeeded"}]
        BY <1>3, <2>3 DEF Wipe, Sets
      <3>2. /\ host' \in [Clusters -> Hosts \union {"none"}]
            /\ \A c \in Clusters : host'[c] \in {host[c], "none"}
        BY <1>3, <2>3 DEF Wipe, Sets
      <3>3. /\ origin' \in [Clouds -> Hosts \union {"none", "gone"}]
            /\ \A c \in Clouds : origin'[c] \in {origin[c], "none", "gone"}
        BY <1>3, <2>3 DEF Wipe
      <3>4. touched' \subseteq Clusters
        BY <1>3, <2>3 DEF Wipe
      <3> QED BY <1>1, <1>2, <1>3, <2>1, <2>2, <3>1, <3>2, <3>3, <3>4, DownKeeps
    <2>4. ASSUME Skips PROVE IInv'
      <3>1. UNCHANGED <<context, svc, host, cron, job, origin, touched, missed>>
        BY <2>4 DEF Skips, objects
      <3> QED BY <1>1, <1>2, <1>3, <2>1, <2>2, <3>1, DownKeeps
    <2>5. (\E k \in Contexts, got \in BOOLEAN : Wipe(k, got)) \/ Skips
      <3>1. LocalClean => Wipe(context, context \in up) /\ context \in Contexts /\ (context \in up) \in BOOLEAN
        BY <1>3 DEF LocalClean
      <3>2. LocalClean => \E k \in Contexts, got \in BOOLEAN : Wipe(k, got)
        BY <3>1, Zenon
      <3>3. AwsClean \/ GcpClean => (\E k \in Contexts, got \in BOOLEAN : Wipe(k, got)) \/ Skips
        BY Zenon DEF AwsClean, GcpClean
      <3> QED BY <1>4, <3>2, <3>3
    <2> QED BY <2>3, <2>4, <2>5
  <1>5. CASE AwsDestroy \/ GcpDestroy
    <2>1. UNCHANGED <<context, known, touched, missed>> /\ own \in Clouds
      BY <1>1, <1>5 DEF AwsDestroy, GcpDestroy
    <2>2. CASE Destroyed
      <3>1. /\ up' \subseteq Clusters
            /\ svc' \in [Clusters -> Hosts \union {"none"}] /\ host' \in [Clusters -> Hosts \union {"none"}]
            /\ \A c \in Clusters : host'[c] \in {host[c], "none"}
        BY <1>1, <1>3, <2>2 DEF Destroyed
      <3>2. /\ cron' \in [Clusters -> {"none", "active", "suspended"}]
            /\ job' \in [Clusters -> {"none", "running", "succeeded"}]
        BY <1>1, <1>3, <2>2 DEF Destroyed
      <3>3. /\ origin' \in [Clouds -> Hosts \union {"none", "gone"}]
            /\ \A c \in Clouds : origin'[c] \in {origin[c], "none", "gone"}
        BY <1>3, <2>1, <2>2 DEF Destroyed
      <3> QED BY <1>1, <1>2, <1>3, <2>1, <3>1, <3>2, <3>3, DownKeeps
    <2>3. CASE UNCHANGED cluster
      <3>1. UNCHANGED <<up, svc, host, cron, job, origin>>
        BY <2>3 DEF cluster
      <3> QED BY <1>1, <1>2, <1>3, <2>1, <3>1, DownKeeps
    <2> QED BY <1>5, <2>2, <2>3 DEF AwsDestroy, GcpDestroy
  <1> QED BY <1>4, <1>5

(* The operator between two tools, and the clusters at any time. *)
LEMMA OthersKeep ==
    ASSUME IInv, SwitchContext \/ External \/ \E t \in Tools : Start(t)
    PROVE  IInv'
  <1>1. CASE SwitchContext
    <2>1. /\ context' \in Contexts /\ tool = "none" /\ tool' = tool /\ step' = step
          /\ UNCHANGED <<up, svc, host, cron, job, origin, want, before, after, runs, touched, missed, lastAws>>
      BY <1>1 DEF SwitchContext, cluster, known, history, IInv, TypeOK, Contexts
    <2>2. TypeOK'
      BY <2>1 DEF IInv, TypeOK
    <2> QED BY <2>1, <2>2, Owns
            DEF IInv, Reached, HostIsOwn, FoundIsOwn, DeployStaysHome, OriginIsOwn
  <1>2. ASSUME NEW t \in Tools, Start(t) PROVE IInv'
    <2>1. /\ tool' = t /\ own' = Own[t] /\ step' = Following[t]["start"] /\ want' \in HostsOf[Own[t]]
          /\ before' = "none" /\ after' = "none" /\ touched' = {} /\ missed' = FALSE
          /\ lastAws' \in {"ok", "bad"} /\ runs' = runs + 1 /\ runs < MaxRuns
          /\ UNCHANGED <<context, up, svc, host, cron, job, origin>>
      BY <1>2 DEF Start, cluster, own, IInv, TypeOK
    <2>2. runs' \in 0..MaxRuns
      BY <2>1, RolloutAssumption DEF RolloutAssumption, IInv, TypeOK
    <2>3. want' \in Hosts
      BY <2>1, Owns
    <2>4. TypeOK'
      BY <2>1, <2>2, <2>3, Starts, Owns DEF IInv, TypeOK
    <2> QED BY <2>1, <2>4, Starts
            DEF IInv, Reached, HostIsOwn, FoundIsOwn, DeployStaysHome, OriginIsOwn
  <1>3. ASSUME NEW c \in Clusters, Provision(c) PROVE IInv'
    <2>1. PICK h \in HostsOf[c] : host' = [host EXCEPT ![c] = h]
      BY <1>3 DEF Provision
    <2>2. /\ UNCHANGED <<context, up, svc, cron, job, origin, tool, step, want, before, after, runs>>
          /\ UNCHANGED <<touched, missed, lastAws>> /\ own' = own
      BY <1>3 DEF Provision, known, history, own
    <2>3. host \in [Clusters -> Hosts \union {"none"}] /\ host' \in [Clusters -> Hosts \union {"none"}]
      BY <2>1, Owns DEF IInv, TypeOK
    <2>4. TypeOK'
      BY <2>2, <2>3 DEF IInv, TypeOK
    <2>5. HostIsOwn'
      BY <2>1, <2>3 DEF IInv, HostIsOwn
    <2> QED BY <2>2, <2>4, <2>5 DEF IInv, Reached, FoundIsOwn, DeployStaysHome, OriginIsOwn
  <1>4. ASSUME NEW c \in Clusters, JobSucceeds(c) PROVE IInv'
    <2>1. /\ UNCHANGED <<context, up, svc, host, cron, origin, tool, step, want, before, after, runs>>
          /\ UNCHANGED <<touched, missed, lastAws>> /\ own' = own
      BY <1>4 DEF JobSucceeds, known, history, own
    <2>2. job' \in [Clusters -> {"none", "running", "succeeded"}]
      BY <1>4 DEF JobSucceeds, IInv, TypeOK
    <2>3. TypeOK'
      BY <2>1, <2>2 DEF IInv, TypeOK
    <2> QED BY <2>1, <2>3 DEF IInv, Reached, HostIsOwn, FoundIsOwn, DeployStaysHome, OriginIsOwn
  <1> QED BY <1>1, <1>2, <1>3, <1>4 DEF External

THEOREM Step == IInv /\ [Next]_vars => IInv'
  <1> SUFFICES ASSUME IInv, [Next]_vars PROVE IInv' OBVIOUS
  <1>1. CASE AwsStep
    <2>1. tool # "none"
      BY <1>1 DEF AwsStep, AwsLookup, AwsApply, Nodes, Suspend, Install, Controller, AwsJob, AwsService,
         AwsSchedule, Restart, Unsuspend, AwsPoll, Dns, AwsRewire, AwsClean, AwsDestroy, At
    <2> QED BY <1>1, <2>1, LookupsKeep, AppliesKeep, PassesKeep, CallsKeep, ManifestsKeep, PollsKeep, TeardownsKeep
            DEF AwsStep
  <1>2. CASE GcpStep
    <2>1. Credentials \/ Proxy => tool # "none"
      BY DEF Credentials, Proxy, At
    <2> QED BY <1>2, <2>1, LookupsKeep, AppliesKeep, CredentialsKeep, PassesKeep, ManifestsKeep, PollsKeep, TeardownsKeep
            DEF GcpStep
  <1>3. CASE LocalStep
    <2>1. Prepare => tool # "none"
      BY DEF Prepare, At
    <2> QED BY <1>3, <2>1, CredentialsKeep, ManifestsKeep, TeardownsKeep DEF LocalStep
  <1>4. CASE Ready \/ Health \/ Finish \/ FinishUnplanned \/ Stop
    <2>1. tool # "none"
      BY <1>4 DEF Ready, Health, Finish, FinishUnplanned, Stop, At
    <2> QED BY <1>4, <2>1, CallsKeep, PassesKeep
  <1>5. CASE SwitchContext \/ External \/ \E t \in Tools : Start(t)
    BY <1>5, OthersKeep
  <1>6. CASE UNCHANGED vars
    <2>1. /\ UNCHANGED <<context, up, svc, host, cron, job, origin, tool, step, want, before, after, runs>>
          /\ UNCHANGED <<touched, missed, lastAws>> /\ own' = own
      BY <1>6 DEF vars, cluster, known, history, own
    <2>2. TypeOK'
      BY <2>1 DEF IInv, TypeOK
    <2> QED BY <2>1, <2>2 DEF IInv, Reached, HostIsOwn, FoundIsOwn, DeployStaysHome, OriginIsOwn
  <1> QED BY <1>1, <1>2, <1>3, <1>4, <1>5, <1>6 DEF Next, ToolStep

(* No deploy reaches into the cluster or the CDN of another provider: for any
   number of deploys and teardowns, one after the other, each of which may stop
   at any step, and whichever of their calls to kubectl fail. *)
THEOREM Apart == Spec => []ClustersApart
  <1>1. IInv => ClustersApart
    BY DEF IInv, ClustersApart
  <1> QED BY <1>1, Initially, Step, PTL DEF Spec

-------------------------------------------------------------------------------
(* What a deploy that goes on has done, for the properties of its end. *)

Rest == {"poll", "dns", "health", "rewire", "proxy", "end"}
JobDone == Rest \union {"service", "ready", "schedule", "restart", "unsuspend"}
ServiceDone == JobDone \ {"service"}
ScheduleDone(t) == Rest \union {"restart", "unsuspend"} \union (IF t = "aws" THEN {"ready"} ELSE {})
Rewired(t) == IF t = "gcp" THEN {"health", "proxy", "end"} ELSE {"end"}

(* Its CronJob is resumed, its objects are there, its origin is set. *)
Resumed == tool = "aws" /\ ~missed /\ step \in Rest => cron["eks"] # "suspended"
SetUp ==
    tool \in {"aws", "gcp", "local"} /\ ~missed =>
        /\ step \in JobDone => job[own] # "none"
        /\ step \in ServiceDone => svc[own] = want
        /\ tool # "local" /\ step \in ScheduleDone(tool) => cron[own] # "none"
Wired ==
    /\ tool \in {"aws", "gcp"} /\ step \notin {"lookup", "apply", "unplanned"} \union Rewired(tool) =>
        origin[own] = before
    /\ tool \in {"aws", "gcp", "reapply"} /\ step \in Rewired(tool) =>
        /\ origin[own] = ToUse
        /\ tool = "aws" => ToUse # "none"

(* A hostname that was found, or that is an origin, does not vanish under a
   deploy; where the first apply gets none there is no Service yet. *)
Nowhere == \A c \in Clusters \ up : svc[c] = "none" /\ host[c] = "none"
Found == tool \in {"aws", "gcp", "reapply"} /\ (before # "none" \/ after # "none") => host[own] # "none"
Held ==
    /\ origin["gke"] \in Hosts => host["gke"] # "none"
    /\ origin["eks"] \in Hosts /\ host["eks"] = "none" =>
        /\ svc["eks"] = "none"
        /\ tool = "aws" => step \in {"lookup", "apply"}
Missing ==
    tool \in {"aws", "gcp"} /\ step = "apply" /\ ~missed /\ before = "none" /\ origin[own] \in Hosts
        => svc[own] = "none" /\ host[own] = "none"

(* Up to its plan a deploy to GKE has changed no object. *)
Idle == tool = "gcp" /\ step \in {"lookup", "apply", "unplanned"} => touched = {}

Done == CronResumed /\ Resumed /\ SetUp /\ Wired /\ Nowhere /\ Found /\ Held /\ Missing /\ Idle

(* The steps that stand before the ones with a promise. *)
LEMMA FollowsOn ==
    ASSUME NEW t \in Tools, NEW s \in (DOMAIN Following[t]) \ {"start"}
    PROVE  LET f == Following[t][s] IN
           /\ t \in {"aws", "gcp", "local"} =>
                /\ f \in JobDone => s \in JobDone \union {"job"}
                /\ f \in ServiceDone => s \in ServiceDone \union {"service"}
                /\ t # "local" /\ f \in ScheduleDone(t) => s \in ScheduleDone(t) \union {"schedule"}
           /\ t = "aws" /\ f \in Rest => s \in Rest \union {"unsuspend"}
           /\ t \in {"aws", "gcp", "reapply"} /\ f \in Rewired(t) => s \in Rewired(t) \union {"rewire"}
           /\ t \in {"aws", "gcp"} /\ s \in Rewired(t) \union {"rewire"} => f \in Rewired(t)
           /\ f # "lookup" /\ (f = "apply" <=> s = "lookup") /\ (f = "unplanned" <=> s = "unplanned")
  <1>1. CASE t \in {"aws", "gcp"}
    BY <1>1 DEF Tools, Following, Rest, JobDone, ServiceDone, ScheduleDone, Rewired
  <1>2. CASE t \in {"local", "reapply"}
    BY <1>2 DEF Tools, Following, Rest, JobDone, ServiceDone, ScheduleDone, Rewired
  <1>3. CASE t \in {"aws_down", "gcp_down", "local_down"}
    BY <1>3 DEF Tools, Following, Rest, JobDone, ServiceDone, ScheduleDone, Rewired
  <1> QED BY <1>1, <1>2, <1>3 DEF Tools, Following

(* The same of a step of a tool that goes on. *)
MovedOn ==
    \/ tool' = "none"
    \/ /\ tool' = tool /\ own' = own
       /\ tool \in {"aws", "gcp", "local"} =>
            /\ step' \in JobDone => step \in JobDone \union {"job"}
            /\ step' \in ServiceDone => step \in ServiceDone \union {"service"}
            /\ tool # "local" /\ step' \in ScheduleDone(tool) => step \in ScheduleDone(tool) \union {"schedule"}
       /\ tool = "aws" /\ step' \in Rest => step \in Rest \union {"unsuspend"}
       /\ tool \in {"aws", "gcp", "reapply"} /\ step' \in Rewired(tool) => step \in Rewired(tool) \union {"rewire"}
       /\ tool \in {"aws", "gcp"} /\ step \in Rewired(tool) \union {"rewire"} => step' \in Rewired(tool)
       /\ step' # "lookup" /\ (step' = "apply" <=> step = "lookup") /\ (step' = "unplanned" <=> step = "unplanned")

(* Only a deploy to EKS that comes to its end changes how the last one ended to
   anything but bad. *)
LastKept ==
    /\ tool = "aws" /\ tool' = "none" => lastAws' = "bad"
    /\ tool # "aws" => lastAws' = lastAws

LEMMA StepMovesOn ==
    ASSUME IInv, tool # "none", step # "end",
           Advance \/ End(FALSE) \/ (Goto("suspend") /\ At("apply")) \/ (Goto("job") /\ At("install"))
    PROVE  MovedOn /\ LastKept
  <1>1. tool \in Tools /\ step \in (DOMAIN Following[tool]) \ {"start"}
    BY DEF IInv, TypeOK
  <1>2. CASE Advance
    <2>1. tool' = tool /\ own' = own /\ step' = Following[tool][step] /\ lastAws' = lastAws
      BY <1>2 DEF Advance, Goto, own
    <2> QED BY <1>1, <2>1, FollowsOn DEF MovedOn, LastKept
  <1>3. CASE End(FALSE)
    BY <1>3 DEF End, MovedOn, LastKept
  <1>4. CASE (Goto("suspend") /\ At("apply")) \/ (Goto("job") /\ At("install"))
    <2>1. step' \in {"suspend", "job"} /\ tool' = tool /\ own' = own /\ lastAws' = lastAws /\ step \in {"apply", "install"}
      BY <1>4 DEF Goto, At, own
    <2> QED BY <2>1 DEF MovedOn, LastKept, JobDone, ServiceDone, ScheduleDone, Rest, Rewired
  <1> QED BY <1>2, <1>3, <1>4

(* A step of a deploy that leaves stacks and hostnames alone. *)
LEMMA DoneKeeps ==
    ASSUME IInv, Done, tool \in Deploys, MovedOn, LastKept, missed => missed',
           UNCHANGED <<up, host, origin, want, before, after>>,
           step \notin {"lookup", "apply", "rewire", "unplanned"} \/ tool' = "none",
           tool \in {"aws", "gcp", "local"} /\ ~missed' =>
             /\ job[own] # "none" \/ step = "job" => job'[own] # "none"
             /\ svc[own] = want \/ step = "service" => svc'[own] = want
             /\ tool # "local" => (cron[own] # "none" \/ step = "schedule" => cron'[own] # "none"),
           tool = "aws" /\ ~missed' /\ step \in Rest \union {"unsuspend"} =>
             (cron["eks"] # "suspended" \/ step = "unsuspend" => cron'["eks"] # "suspended"),
           tool # "aws" /\ cron'["eks"] = "suspended" => cron["eks"] = "suspended",
           \A c \in Clusters : svc'[c] = svc[c] \/ (c \in up /\ (c = "eks" => tool = "aws" /\ step = "service"))
    PROVE  Done'
  <1>1. tool' = "none" \/ (tool' = tool /\ own' = own)
    BY DEF MovedOn
  <1>2. CronResumed'
    BY <1>1, Owns DEF Done, CronResumed, LastKept
  <1>3. Resumed'
    BY <1>1 DEF Done, Resumed, MovedOn
  <1>4. SetUp'
    BY <1>1 DEF Done, SetUp, MovedOn
  <1>5. Wired'
    <2>1. CASE tool' = "none"
      BY <2>1 DEF Wired
    <2>2. CASE tool' = tool /\ tool' # "none"
      <3>1. ToUse' = ToUse /\ (tool' \in {"aws", "gcp", "reapply"} /\ step' \in Rewired(tool) => step \in Rewired(tool))
        BY <2>2 DEF ToUse, MovedOn
      <3>2. tool \in {"aws", "gcp"} /\ step' \notin {"lookup", "apply", "unplanned"} \union Rewired(tool)
              => step \notin {"lookup", "apply", "unplanned"} \union Rewired(tool) \/ step \in Rewired(tool)
        BY <2>2
      <3>3. tool \in {"aws", "gcp"} /\ step \in Rewired(tool) => step' \in Rewired(tool)
        BY <2>2 DEF MovedOn
      <3> QED BY <1>1, <2>2, <3>1, <3>2, <3>3 DEF Done, Wired
    <2> QED BY <1>1, <2>1, <2>2
  <1>6. Nowhere' /\ Found'
    BY <1>1 DEF Done, Nowhere, Found
  <1>7. Held'
    BY <1>1, Owns DEF Done, Held, Clusters, MovedOn
  <1>8. Missing' /\ Idle'
    BY <1>1 DEF Missing, Idle, MovedOn
  <1> QED BY <1>2, <1>3, <1>4, <1>5, <1>6, <1>7, <1>8 DEF Done

(* A call that was not missed went to the own cluster, and was answered. *)
LEMMA CallReaches ==
    ASSUME IInv, tool \in Deploys, step \notin Unsure,
           NEW k \in Contexts, NEW got \in BOOLEAN, Call(k, got)
    PROVE  /\ missed => missed'
           /\ ~missed' => k = own /\ got
           /\ tool # "aws" => k = own
           /\ got => k \in up
  <1>1. own \in up /\ missed \in BOOLEAN /\ (tool # "aws" => context = own)
    BY DEF IInv, TypeOK, Reached
  <1> QED BY <1>1 DEF Call

LEMMA ManifestsDone ==
    ASSUME IInv, Done, AwsJob \/ GcpJob \/ LocalJob \/ AwsService \/ GcpService \/ LocalService
                 \/ AwsSchedule \/ GcpSchedule \/ LocalSchedule
    PROVE  Done'
  <1>0. /\ tool \in {"aws", "gcp", "local"} /\ tool \in Deploys /\ step \in {"job", "service", "schedule"}
        /\ step \notin Unsure /\ tool # "none" /\ step # "end" /\ own \in Clusters /\ own \in up
        /\ step \notin {"lookup", "apply", "rewire", "unplanned"} /\ step \notin Rest \union {"unsuspend"}
        /\ (tool = "aws" <=> own = "eks")
    <2>1. tool \in {"aws", "gcp", "local"} /\ step \in {"job", "service", "schedule"}
      BY DEF At, AwsJob, GcpJob, LocalJob, AwsService, GcpService, LocalService, AwsSchedule, GcpSchedule,
         LocalSchedule
    <2>2. own \in Clusters /\ (tool = "aws" <=> own = "eks")
      BY <2>1 DEF own, Own, Clusters
    <2>3. step \notin Unsure /\ tool \in Deploys /\ step \notin Rest \union {"unsuspend"}
      BY <2>1 DEF Unsure, Deploys, Rest
    <2>4. own \in up
      BY <2>3 DEF IInv, Reached
    <2> QED BY <2>1, <2>2, <2>3, <2>4
  <1>1. /\ svc \in [Clusters -> Hosts \union {"none"}]
        /\ cron \in [Clusters -> {"none", "active", "suspended"}]
        /\ job \in [Clusters -> {"none", "running", "succeeded"}] /\ missed \in BOOLEAN
    BY DEF IInv, TypeOK
  <1>2. MovedOn /\ LastKept
    <2>1. Advance \/ End(FALSE)
      BY DEF AwsJob, GcpJob, LocalJob, AwsService, GcpService, LocalService, AwsSchedule, GcpSchedule,
         LocalSchedule, JobFrame, Scheduled, Passes
    <2> QED BY <1>0, <2>1, StepMovesOn
  <1>3. UNCHANGED <<up, host, origin, want, before, after>>
    BY DEF AwsJob, GcpJob, LocalJob, AwsService, GcpService, LocalService, AwsSchedule, GcpSchedule,
       LocalSchedule, JobFrame, ServiceFrame, Scheduled, Passes, known, cluster
  <1>4. CASE AwsJob \/ GcpJob \/ LocalJob
    <2>1. svc' = svc /\ cron' = cron
      BY <1>4 DEF AwsJob, GcpJob, LocalJob, JobFrame
    <2>2. (missed => missed') /\ (~missed' => job'[own] # "none")
      <3>1. CASE AwsJob
        <4>1. PICK k \in Contexts, got \in BOOLEAN : Call(k, got) /\
                (got => (job[k] = "succeeded" /\ job' = job) \/ Creates(k))
          BY <3>1 DEF AwsJob
        <4> QED BY <1>0, <1>1, <4>1, CallReaches DEF Creates
      <3>2. CASE GcpJob \/ LocalJob
        BY <1>0, <1>1, <3>2 DEF GcpJob, LocalJob, CheckedCall, Checked, Creates
      <3> QED BY <1>4, <3>1, <3>2
    <2>3. step = "job"
      BY <1>4 DEF AwsJob, GcpJob, LocalJob, At
    <2> QED BY <1>0, <1>2, <1>3, <2>1, <2>2, <2>3, DoneKeeps
  <1>5. CASE AwsService \/ GcpService \/ LocalService
    <2>1. job' = job /\ cron' = cron
      BY <1>5 DEF AwsService, GcpService, LocalService, ServiceFrame
    <2>2. /\ (missed => missed') /\ (~missed' => svc'[own] = want)
          /\ \A c \in Clusters : svc'[c] = svc[c] \/ (c \in up /\ (tool # "aws" => c = own))
      <3>1. CASE AwsService
        <4>1. PICK k \in Contexts, got \in BOOLEAN : Call(k, got) /\ svc' = Sets(svc, k, got, want)
          BY <3>1 DEF AwsService
        <4>2. (missed => missed') /\ (~missed' => k = own /\ got) /\ (got => k \in up) /\ (tool # "aws" => k = own)
          BY <1>0, <4>1, CallReaches
        <4> QED BY <1>0, <1>1, <4>1, <4>2 DEF Sets
      <3>2. CASE GcpService \/ LocalService
        BY <1>0, <1>1, <3>2 DEF GcpService, LocalService, CheckedCall, Checked
      <3> QED BY <1>5, <3>1, <3>2
    <2>3. step = "service"
      BY <1>5 DEF AwsService, GcpService, LocalService, At
    <2> QED BY <1>0, <1>2, <1>3, <2>1, <2>2, <2>3, DoneKeeps
  <1>6. CASE AwsSchedule \/ GcpSchedule \/ LocalSchedule
    <2>1. job' = job /\ svc' = svc
      BY <1>6 DEF AwsSchedule, GcpSchedule, LocalSchedule, Scheduled, Passes, cluster
    <2>2. /\ (missed => missed')
          /\ (~missed' /\ tool # "local" => cron'[own] # "none")
          /\ (cron'["eks"] = "suspended" => cron["eks"] = "suspended")
      <3>1. ASSUME NEW k \in Contexts, NEW got \in BOOLEAN, Scheduled(k, got)
            PROVE  /\ cron'["eks"] = "suspended" => cron["eks"] = "suspended"
                   /\ got /\ k = own => cron'[own] # "none"
        BY <1>0, <1>1, <3>1 DEF Scheduled, Clusters
      <3>2. CASE AwsSchedule
        <4>1. PICK k \in Contexts, got \in BOOLEAN : Call(k, got) /\ Scheduled(k, got)
          BY <3>2 DEF AwsSchedule
        <4> QED BY <1>0, <3>1, <4>1, CallReaches
      <3>3. CASE GcpSchedule \/ (LocalSchedule /\ ~Passes)
        <4>1. Checked /\ Scheduled(own, TRUE) /\ own \in Contexts
          BY <1>0, <3>3 DEF GcpSchedule, LocalSchedule, CheckedCall, Contexts
        <4> QED BY <3>1, <4>1 DEF Checked
      <3>4. CASE LocalSchedule /\ Passes
        BY <1>0, <3>4 DEF LocalSchedule, Passes, cluster
      <3> QED BY <1>6, <3>2, <3>3, <3>4
    <2>3. step = "schedule"
      BY <1>6 DEF AwsSchedule, GcpSchedule, LocalSchedule, At
    <2> QED BY <1>0, <1>2, <1>3, <2>1, <2>2, <2>3, DoneKeeps
  <1> QED BY <1>4, <1>5, <1>6

(* The other calls to kubectl: only the patches change an object. *)
LEMMA CallsDone ==
    ASSUME IInv, Done, Suspend \/ Unsuspend \/ Install \/ Controller \/ Restart \/ Ready, tool # "none"
    PROVE  Done'
  <1>0. /\ tool \in Deploys /\ step \notin Unsure /\ step # "end" /\ own \in Clusters
        /\ step \in {"suspend", "unsuspend", "install", "controller", "restart", "ready"}
        /\ step \notin {"lookup", "apply", "rewire", "unplanned", "job", "service", "schedule"} \union Rest
    BY Owns, StepOwner DEF own, Deploys, Unsure, At, Suspend, Unsuspend, Install, Controller, Restart, Ready, Rest
  <1>1. cron \in [Clusters -> {"none", "active", "suspended"}] /\ missed \in BOOLEAN
    BY DEF IInv, TypeOK
  <1>2. MovedOn /\ LastKept
    <2>1. Advance \/ End(FALSE) \/ (Goto("job") /\ At("install"))
      BY DEF Suspend, Unsuspend, Install, Controller, Restart, Ready, Patch
    <2> QED BY <1>0, <2>1, StepMovesOn
  <1>3. UNCHANGED <<up, svc, host, job, origin, want, before, after>>
    BY DEF Suspend, Unsuspend, Install, Controller, Restart, Ready, Patch, cluster, known
  <1>4. CASE Suspend \/ Unsuspend
    <2>1. tool = "aws" /\ own = "eks"
      BY <1>4, StepOwner DEF Suspend, Unsuspend, At, own, Own
    <2>2. PICK from \in {"active", "suspended"}, to \in {"active", "suspended"},
               k \in Contexts, got \in BOOLEAN, hit \in BOOLEAN :
            /\ Call(k, got) /\ cron' = Sets(cron, k, hit, to)
            /\ (hit <=> (got /\ k \in Clusters /\ cron[k] = from))
            /\ (Suspend /\ from = "active") \/ (Unsuspend /\ from = "suspended" /\ to = "active")
      <3>1. ASSUME NEW from \in {"active", "suspended"}, NEW to \in {"active", "suspended"}, Patch(from, to)
            PROVE  \E k \in Contexts, got \in BOOLEAN, hit \in BOOLEAN :
                     /\ Call(k, got) /\ cron' = Sets(cron, k, hit, to)
                     /\ (hit <=> (got /\ k \in Clusters /\ cron[k] = from))
        BY <3>1 DEF Patch
      <3>2. CASE Suspend
        BY <3>1, <3>2 DEF Suspend
      <3>3. CASE Unsuspend
        BY <3>1, <3>3 DEF Unsuspend
      <3> QED BY <1>4, <3>2, <3>3
    <2>3. (missed => missed') /\ (~missed' => k = own /\ got)
      BY <1>0, <2>2, CallReaches
    <2>4. cron[own] # "none" => cron'[own] # "none"
      BY <1>0, <1>1, <2>2 DEF Sets
    <2>5. ~missed' /\ step = "unsuspend" => cron'["eks"] # "suspended"
      <3>1. step = "unsuspend" => Unsuspend /\ from = "suspended" /\ to = "active"
        BY <2>2 DEF Suspend, At
      <3> QED BY <1>0, <1>1, <2>1, <2>2, <2>3, <3>1 DEF Sets
    <2> QED BY <1>0, <1>2, <1>3, <2>1, <2>3, <2>4, <2>5, DoneKeeps
  <1>5. CASE Install \/ Controller \/ Restart \/ Ready
    <2>1. cron' = cron /\ step # "unsuspend"
      BY <1>5 DEF Install, Controller, Restart, Ready, cluster, At
    <2>2. missed => missed'
      BY <1>1, <1>5 DEF Install, Controller, Restart, Ready, Call
    <2> QED BY <1>0, <1>2, <1>3, <2>1, <2>2, DoneKeeps
  <1> QED BY <1>4, <1>5

(* A tool that ends leaves the promises of the others alone. *)
LEMMA EndsDone ==
    ASSUME IInv, Done, tool # "none", Finish \/ FinishUnplanned \/ Stop
    PROVE  Done'
  <1>1. UNCHANGED <<up, svc, host, cron, job, origin, missed>> /\ tool' = "none"
    BY DEF Finish, FinishUnplanned, Reports, Stop, End, cluster
  <1>2. CronResumed'
    <2>1. Stop => LastKept
      BY DEF Stop, End, LastKept
    <2>2. Finish /\ tool = "aws" => lastAws' = "bad" \/ cron["eks"] # "suspended"
      BY DEF Finish, Reports, End, At, Done, Resumed, Rest
    <2>3. (Finish \/ FinishUnplanned) /\ tool # "aws" => lastAws' = lastAws
      BY DEF Finish, FinishUnplanned, Reports, End
    <2>4. FinishUnplanned => tool # "aws"
      BY DEF FinishUnplanned, At, IInv, TypeOK, Following
    <2> QED BY <1>1, <2>1, <2>2, <2>3, <2>4 DEF Done, CronResumed, LastKept
  <1> QED BY <1>1, <1>2 DEF Done, Resumed, SetUp, Wired, Nowhere, Found, Held, Missing, Idle

LEMMA PassesDone ==
    ASSUME IInv, Done, tool # "none", Nodes \/ Dns \/ Health \/ Proxy \/ Credentials \/ Prepare
    PROVE  Done'
  <1>0. /\ tool \in Deploys /\ step # "end" /\ step \notin {"job", "service", "schedule", "unsuspend"}
        /\ step \notin {"lookup", "apply", "rewire", "unplanned"}
    BY StepOwner DEF Nodes, Dns, Health, Proxy, Credentials, Prepare, At, Deploys
  <1>1. UNCHANGED <<up, svc, host, cron, job, origin, want, before, after, missed>>
    BY DEF Nodes, Dns, Health, Proxy, Credentials, Prepare, Passes, Checked, Denied, cluster, known
  <1>2. MovedOn /\ LastKept
    BY <1>0, StepMovesOn DEF Nodes, Dns, Health, Proxy, Credentials, Prepare, Passes, Denied
  <1> QED BY <1>0, <1>1, <1>2, DoneKeeps

(* What the lookup found stands, or there is nothing to be found. *)
LEMMA LookupsDone ==
    ASSUME IInv, Done, AwsLookup \/ GcpLookup
    PROVE  Done'
  <1>1. PICK k \in Contexts, got \in BOOLEAN : Call(k, got) /\
          before' = IF tool = "aws" THEN (IF got THEN AwsSeen(k) ELSE "none")
                    ELSE IF got /\ k = own THEN GcpSeen(k) ELSE "none"
    BY DEF AwsLookup, GcpLookup
  <1>2. tool \in {"aws", "gcp"} /\ step = "lookup" /\ own = Own[tool]
    BY DEF AwsLookup, GcpLookup, At, own
  <1>3. UNCHANGED <<up, svc, host, cron, job, origin, want, after>> /\ lastAws' = lastAws
        /\ tool' = tool /\ own' = own /\ step' = "apply"
    BY <1>2 DEF AwsLookup, GcpLookup, LookupFrame, Advance, Goto, cluster, own, Following
  <1>4. HostIsOwn /\ OriginIsOwn /\ up \subseteq Clusters /\ missed \in BOOLEAN /\ own \in Clouds
    BY <1>2, Owns DEF IInv, TypeOK
  <1>5. before' # "none" => host[own] # "none"
    BY ZenonT(60), <1>1, <1>2, <1>4, Owns DEF AwsSeen, GcpSeen, HostIsOwn, HostsOf, Clusters
  <1>6. ~missed' /\ before' = "none" => host[own] = "none"
    <2>1. CASE own \notin up
      BY <1>4, <2>1, Owns DEF Done, Nowhere
    <2>2. CASE own \in up /\ ~missed' /\ before' = "none"
      <3>1. k = own /\ got
        BY <1>1, <2>2 DEF Call
      <3> QED BY <1>1, <1>2, <1>4, <2>2, <3>1, Owns DEF AwsSeen, GcpSeen, HostIsOwn
    <2> QED BY <2>1, <2>2
  <1>7. host[own] = "none" /\ origin[own] \in Hosts => svc[own] = "none"
    BY <1>2, Owns DEF Done, Held
  <1>8. Missing' /\ Idle'
    <2>1. touched' = touched
      BY DEF AwsLookup, GcpLookup, LookupFrame
    <2> QED BY <1>2, <1>3, <1>6, <1>7, <2>1 DEF Done, Missing, Idle
  <1>9. Found'
    BY <1>2, <1>3, <1>5 DEF Found, Done
  <1>10. Wired' /\ SetUp' /\ Resumed'
    BY <1>2, <1>3 DEF Wired, SetUp, Resumed, Rest, JobDone, ServiceDone, ScheduleDone, Rewired
  <1>11. CronResumed' /\ Nowhere' /\ Held'
    BY <1>2, <1>3 DEF Done, CronResumed, Nowhere, Held
  <1> QED BY <1>8, <1>9, <1>10, <1>11 DEF Done

(* The poll finds a hostname that stands. *)
LEMMA PollsDone ==
    ASSUME IInv, Done, AwsPoll \/ GcpPoll \/ ReapplyPoll
    PROVE  Done'
  <1>1. tool \in {"aws", "gcp", "reapply"} /\ tool # "none" /\ step = "poll" /\ tool \in Deploys
        /\ step \notin Unsure /\ own = Own[tool]
    BY DEF AwsPoll, GcpPoll, ReapplyPoll, At, Deploys, Unsure, own
  <1>2. MovedOn /\ LastKept
    BY <1>1, StepMovesOn DEF AwsPoll, GcpPoll, ReapplyPoll
  <1>3. PICK h \in {AwsSeen(context), GcpSeen(context)} : Polled(h) /\ (tool # "aws" => h = GcpSeen(context))
          /\ (tool = "aws" => h = AwsSeen(context))
    BY DEF AwsPoll, GcpPoll, ReapplyPoll
  <1>4. h # "none" => host[own] # "none"
    <2>1. HostIsOwn /\ up \subseteq Clusters /\ (tool # "aws" => context = own)
      BY <1>1 DEF IInv, TypeOK, Reached
    <2>2. CASE tool = "aws" /\ h # "none"
      <3>1. context \in Clusters /\ host[context] = h /\ h \in {"elb", "nlb"} /\ own = "eks"
        BY <1>1, <1>3, <2>1, <2>2, Owns DEF AwsSeen, HostsOf
      <3>2. context = "eks"
        BY <2>1, <3>1 DEF HostIsOwn, HostsOf, Clusters
      <3> QED BY <2>2, <3>1, <3>2
    <2>3. CASE tool # "aws" /\ h # "none"
      BY <1>3, <2>1, <2>3 DEF GcpSeen
    <2> QED BY <2>2, <2>3
  <1>5. UNCHANGED <<up, svc, host, cron, job, origin, want, before>> /\ after' \in {h, "none"}
    BY <1>3 DEF Polled, cluster
  <1>6. missed => missed'
    <2>1. missed' = missed \/ missed' = (missed \/ h # "none")
      BY <1>3, Zenon DEF Polled
    <2> QED BY <2>1 DEF IInv, TypeOK
  <1>7. CASE tool' = "none"
    BY <1>2, <1>5, <1>7
       DEF Done, LastKept, CronResumed, Resumed, SetUp, Wired, Nowhere, Found, Held, Missing, Idle
  <1>8. CASE tool' = tool /\ own' = own /\ tool' # "none"
    <2>1. step \notin Rewired(tool) /\ step' \notin Rewired(tool)
      BY <1>1, <1>2, <1>8 DEF MovedOn, Rewired
    <2>2. Wired'
      BY <1>1, <1>5, <1>8, <2>1 DEF Done, Wired
    <2>3. Found'
      BY <1>1, <1>4, <1>5, <1>8 DEF Done, Found
    <2>4. SetUp' /\ Resumed'
      BY <1>1, <1>2, <1>5, <1>6, <1>8
         DEF Done, MovedOn, SetUp, Resumed, Rest, JobDone, ServiceDone, ScheduleDone
    <2>5. CronResumed' /\ Nowhere' /\ Held' /\ Missing' /\ Idle'
      BY <1>1, <1>2, <1>5, <1>8 DEF Done, MovedOn, LastKept, CronResumed, Nowhere, Held, Missing, Idle
    <2> QED BY <2>2, <2>3, <2>4, <2>5 DEF Done
  <1> QED BY <1>2, <1>7, <1>8 DEF MovedOn

(* Both applies set the origin to a hostname that stands; the first one leaves
   an origin out only where it can know of none. *)
LEMMA StackDone ==
    ASSUME IInv, Done, AwsApply \/ GcpApply \/ AwsRewire \/ GcpRewire \/ ReapplyRewire
    PROVE  Done'
  <1>1. tool \in {"aws", "gcp", "reapply"} /\ tool # "none" /\ step \in {"apply", "rewire"} /\ step # "end"
        /\ own \in Clouds /\ own = Own[tool] /\ UNCHANGED <<svc, host, cron, job, want, before, after, missed>>
    BY Owns DEF AwsApply, GcpApply, AwsRewire, GcpRewire, ReapplyRewire, At, ApplyFrame, own, objects, known
  <1>0. CASE tool = "gcp" /\ Unplanned
    <2>1. /\ UNCHANGED <<up, origin, touched>> /\ tool' = tool /\ lastAws' = lastAws /\ own' = own
          /\ step' = "unplanned"
      BY <1>0 DEF AwsApply, GcpApply, AwsRewire, GcpRewire, ReapplyRewire, ApplyFrame, Unplanned, Goto, own
    <2>2. step = "apply"
      BY <1>0, <1>1, <2>1 DEF AwsApply, GcpApply, AwsRewire, GcpRewire, ReapplyRewire, SecondApply, PartlyApplied,
         End, Advance, Goto, At, Following
    <2>3. SetUp' /\ Wired' /\ Resumed' /\ Missing' /\ Found'
      BY <1>0, <1>1, <2>1, <2>2
         DEF Done, SetUp, Wired, Resumed, Missing, Found, Rest, JobDone, ServiceDone, ScheduleDone, Rewired
    <2>4. CronResumed' /\ Nowhere' /\ Held' /\ Idle'
      BY <1>0, <1>1, <2>1, <2>2 DEF Done, CronResumed, Nowhere, Held, Idle
    <2> QED BY <2>3, <2>4 DEF Done
  <1> SUFFICES ASSUME ~(tool = "gcp" /\ Unplanned) PROVE Done'
    BY <1>0
  <1>2. MovedOn /\ LastKept
    BY <1>1, StepMovesOn
       DEF AwsApply, GcpApply, AwsRewire, GcpRewire, ReapplyRewire, SecondApply, PartlyApplied, At
  <1>3. origin \in [Clouds -> Hosts \union {"none", "gone"}] /\ up \subseteq up'
    BY DEF AwsApply, GcpApply, AwsRewire, GcpRewire, ReapplyRewire, SecondApply, PartlyApplied, Applied,
       IInv, TypeOK
  <1>4. /\ step = "apply" /\ tool' # "none" => origin' = [origin EXCEPT ![own] = before]
        /\ step = "apply" => tool \in {"aws", "gcp"}
        /\ step = "rewire" /\ tool' # "none" => origin' = [origin EXCEPT ![own] = ToUse]
        /\ step = "rewire" /\ tool' # "none" /\ tool = "aws" => ToUse # "none"
        /\ tool' = "none" => origin' = origin
    <2>1. CASE AwsApply \/ GcpApply
      BY <1>1, <1>3, <2>1 DEF AwsApply, GcpApply, PartlyApplied, Applied, At, End, Goto, Advance
    <2>2. CASE AwsRewire \/ GcpRewire \/ ReapplyRewire
      <3>1. step = "rewire" /\ (tool \in {"aws", "gcp"} => origin[own] = before)
        BY <1>1, <2>2 DEF AwsRewire, GcpRewire, ReapplyRewire, At, Done, Wired, Rewired
      <3>2. CASE SecondApply
        BY <1>1, <3>1, <3>2 DEF SecondApply, NeedSecond, Applied, PartlyApplied, End, Advance, Goto
      <3>3. CASE ~NeedSecond /\ origin' = origin /\ tool \in {"aws", "gcp"} /\ (tool = "aws" /\ ToUse = "none" => tool' = "none")
        <4>1. ToUse = before
          BY <3>3 DEF NeedSecond, ToUse
        <4> QED BY <1>3, <3>1, <3>3, <4>1
      <3> QED BY <2>2, <3>2, <3>3 DEF AwsRewire, GcpRewire, ReapplyRewire, End
    <2> QED BY <2>1, <2>2
  <1>5. Nowhere'
    BY <1>1, <1>3 DEF Done, Nowhere
  <1>6. CASE tool' = "none"
    BY <1>1, <1>2, <1>4, <1>5, <1>6
       DEF Done, LastKept, CronResumed, Resumed, SetUp, Wired, Found, Held, Missing, Idle
  <1>7. CASE tool' = tool /\ own' = own /\ tool' # "none"
    <2>1. Wired'
      <3>1. CASE step = "apply"
        BY <1>1, <1>2, <1>3, <1>4, <1>7, <3>1 DEF Wired, MovedOn, Rewired
      <3>2. CASE step = "rewire"
        <4>1. ToUse' = ToUse /\ origin'[own] = ToUse
          BY <1>1, <1>3, <1>4, <1>7, <3>2 DEF ToUse
        <4> QED BY <1>1, <1>2, <1>4, <1>7, <3>2, <4>1 DEF Wired, MovedOn, Rewired
      <3> QED BY <1>1, <3>1, <3>2
    <2>2. Held'
      <3>1. origin'[own] # "none" => host[own] # "none"
        BY <1>1, <1>3, <1>4, <1>7 DEF Done, Found, ToUse
      <3>2. \A c \in Clouds \ {own} : origin'[c] = origin[c]
        BY <1>1, <1>3, <1>4, <1>7
      <3> QED BY <1>1, <1>7, <3>1, <3>2, Owns DEF Done, Held
    <2>3. Found'
      BY <1>1, <1>7 DEF Done, Found
    <2>4. SetUp' /\ Resumed'
      BY <1>1, <1>2, <1>7
         DEF Done, MovedOn, SetUp, Resumed, Rest, JobDone, ServiceDone, ScheduleDone
    <2>5. CronResumed' /\ Missing' /\ Idle'
      BY <1>1, <1>2, <1>7 DEF Done, MovedOn, LastKept, CronResumed, Missing, Idle
    <2> QED BY <1>5, <2>1, <2>2, <2>3, <2>4, <2>5 DEF Done
  <1> QED BY <1>2, <1>6, <1>7 DEF MovedOn

(* A teardown takes the origin away with the load balancer it names. *)
LEMMA TeardownsDone ==
    ASSUME IInv, Done, AwsClean \/ GcpClean \/ LocalClean \/ AwsDestroy \/ GcpDestroy
    PROVE  Done'
  <1>1. /\ tool \in {"aws_down", "gcp_down", "local_down"} /\ tool # "none" /\ step # "end"
        /\ own \in Clusters /\ (AwsDestroy \/ GcpDestroy => own \in Clouds)
    <2>1. tool \in {"aws_down", "gcp_down", "local_down"} /\ step \in {"clean", "destroy"}
          /\ (AwsDestroy \/ GcpDestroy => tool \in {"aws_down", "gcp_down"})
      BY DEF AwsClean, GcpClean, LocalClean, AwsDestroy, GcpDestroy, At
    <2> QED BY <2>1 DEF own, Own, Clusters, Clouds
  <1>2. tool' \in {tool, "none"} /\ tool' \notin {"aws", "gcp", "reapply", "local"} /\ lastAws' = lastAws
    BY <1>1 DEF AwsClean, GcpClean, LocalClean, AwsDestroy, GcpDestroy, CleanFrame, Destroyed, Advance, Goto, End
  <1>3. /\ up \subseteq Clusters
        /\ svc \in [Clusters -> Hosts \union {"none"}] /\ host \in [Clusters -> Hosts \union {"none"}]
        /\ cron \in [Clusters -> {"none", "active", "suspended"}]
        /\ origin \in [Clouds -> Hosts \union {"none", "gone"}]
    BY DEF IInv, TypeOK
  <1>4. ASSUME /\ \A c \in Clusters \ up' : (svc'[c] = "none" /\ host'[c] = "none")
               /\ cron'["eks"] \in {cron["eks"], "none"}
               /\ origin'["gke"] \in Hosts => host'["gke"] # "none"
               /\ origin'["eks"] \in Hosts /\ host'["eks"] = "none" => svc'["eks"] = "none"
        PROVE  Done'
    BY <1>1, <1>2, <1>4
       DEF Done, CronResumed, Resumed, SetUp, Wired, Nowhere, Found, Held, Missing, Idle
  <1>5. ASSUME NEW k \in Contexts, NEW got \in BOOLEAN, Wipe(k, got), up' = up PROVE Done'
    <2>1. CASE ~(got /\ k \in Clusters)
      <3>1. UNCHANGED <<svc, host, cron>> /\ \A c \in Clouds : origin'[c] = origin[c]
        BY <1>3, <1>5, <2>1 DEF Wipe, Sets
      <3> QED BY <1>1, <1>3, <1>4, <1>5, <3>1, Owns DEF Done, Nowhere, Held
    <2>2. CASE got /\ k \in Clusters
      <3>1. /\ svc' = [svc EXCEPT ![k] = "none"] /\ host' = [host EXCEPT ![k] = "none"]
            /\ cron' = [cron EXCEPT ![k] = "none"]
        BY <1>5, <2>2 DEF Wipe, Sets
      <3>2. \A c \in Clouds : origin'[c] = IF origin[c] # "none" /\ origin[c] = host[k] THEN "gone" ELSE origin[c]
        BY <1>5, <2>2 DEF Wipe
      <3>3. origin'["gke"] \in Hosts => host'["gke"] # "none"
        <4>1. origin["gke"] \in Hosts => origin["gke"] = "ip" /\ host["gke"] = "ip"
          BY Owns DEF Done, Held, IInv, HostIsOwn, OriginIsOwn, HostsOf, Clusters, Hosts
        <4> QED BY <1>3, <3>1, <3>2, <4>1, Owns
      <3>4. origin'["eks"] \in Hosts /\ host'["eks"] = "none" => svc'["eks"] = "none"
        BY <1>3, <2>2, <3>1, <3>2, Owns DEF Done, Held
      <3>5. \A c \in Clusters \ up' : svc'[c] = "none" /\ host'[c] = "none"
        BY <1>3, <1>5, <2>2, <3>1 DEF Done, Nowhere
      <3>6. cron'["eks"] \in {cron["eks"], "none"}
        BY <1>3, <2>2, <3>1, Owns
      <3> QED BY <1>4, <3>3, <3>4, <3>5, <3>6
    <2> QED BY <2>1, <2>2
  <1>6. ASSUME UNCHANGED <<up, svc, host, cron, origin>> PROVE Done'
    BY <1>4, <1>6 DEF Done, Nowhere, Held
  <1>7. CASE AwsClean \/ GcpClean \/ LocalClean
    <2>1. up' = up
      BY <1>7 DEF AwsClean, GcpClean, LocalClean, CleanFrame
    <2>2. (\E k \in Contexts, got \in BOOLEAN : Wipe(k, got)) \/ Skips
      <3>1. LocalClean => Wipe(context, context \in up) /\ context \in Contexts /\ (context \in up) \in BOOLEAN
        BY DEF LocalClean, IInv, TypeOK
      <3>2. LocalClean => \E k \in Contexts, got \in BOOLEAN : Wipe(k, got)
        BY <3>1, Zenon
      <3>3. AwsClean \/ GcpClean => (\E k \in Contexts, got \in BOOLEAN : Wipe(k, got)) \/ Skips
        BY Zenon DEF AwsClean, GcpClean
      <3> QED BY <1>7, <3>2, <3>3
    <2>3. Skips => UNCHANGED <<svc, host, cron, origin>>
      BY DEF Skips, objects
    <2> QED BY <1>5, <1>6, <2>1, <2>2, <2>3
  <1>8. CASE AwsDestroy \/ GcpDestroy
    <2>1. CASE Destroyed
      <3>1. /\ up' = up \ {own} /\ svc' = [svc EXCEPT ![own] = "none"] /\ host' = [host EXCEPT ![own] = "none"]
            /\ cron' = [cron EXCEPT ![own] = "none"] /\ origin' = [origin EXCEPT ![own] = "none"] /\ own \in Clouds
        BY <1>1, <1>8, <2>1 DEF Destroyed
      <3>2. \A c \in Clusters \ up' : svc'[c] = "none" /\ host'[c] = "none"
        BY <1>3, <3>1, Owns DEF Done, Nowhere
      <3>3. /\ cron'["eks"] \in {cron["eks"], "none"}
            /\ origin'["gke"] \in Hosts => host'["gke"] # "none"
            /\ origin'["eks"] \in Hosts /\ host'["eks"] = "none" => svc'["eks"] = "none"
        BY <1>3, <3>1, Owns DEF Done, Held
      <3> QED BY <1>4, <3>2, <3>3
    <2>2. CASE UNCHANGED cluster
      BY <1>6, <2>2 DEF cluster
    <2> QED BY <1>8, <2>1, <2>2 DEF AwsDestroy, GcpDestroy
  <1> QED BY <1>7, <1>8

LEMMA OthersDone ==
    ASSUME IInv, Done, SwitchContext \/ External \/ \E t \in Tools : Start(t)
    PROVE  Done'
  <1>1. CASE SwitchContext
    BY <1>1 DEF SwitchContext, cluster, history, known,
       Done, CronResumed, Resumed, SetUp, Wired, Nowhere, Found, Held, Missing, Idle
  <1>2. ASSUME NEW t \in Tools, Start(t) PROVE Done'
    <2>1. /\ tool = "none" /\ tool' = t /\ step' = Following[t]["start"] /\ before' = "none" /\ after' = "none"
          /\ lastAws' = (IF t = "aws" THEN "bad" ELSE lastAws)
          /\ UNCHANGED <<up, svc, host, cron, origin>> /\ touched' = {}
      BY <1>2 DEF Start, cluster
    <2>2. /\ t \in {"aws", "gcp"} => step' = "lookup"
          /\ t = "reapply" => step' = "credentials"
          /\ t = "local" => step' = "prepare"
      BY <2>1 DEF Following
    <2>3. SetUp' /\ Wired' /\ Resumed' /\ Missing' /\ Found' /\ Idle'
      BY <2>1, <2>2 DEF Idle, SetUp, Wired, Resumed, Missing, Found, Rest, JobDone, ServiceDone, ScheduleDone, Rewired
    <2>4. CronResumed' /\ Nowhere' /\ Held'
      BY <2>1, <2>2, Owns DEF Done, CronResumed, Nowhere, Held
    <2> QED BY <2>3, <2>4 DEF Done
  <1>3. ASSUME NEW c \in Clusters, Provision(c) PROVE Done'
    <2>1. PICK h \in HostsOf[c] : host' = [host EXCEPT ![c] = h]
      BY <1>3 DEF Provision
    <2>2. UNCHANGED <<up, svc, cron, job, origin, tool, step, want, before, after, missed, touched, lastAws>>
          /\ own' = own /\ ToUse' = ToUse /\ c \in up /\ svc[c] # "none"
      BY <1>3 DEF Provision, known, history, own, ToUse
    <2>3. host \in [Clusters -> Hosts \union {"none"}] /\ h # "none"
      BY <2>1, Owns DEF IInv, TypeOK
    <2>4. \A d \in Clusters : host[d] # "none" => host'[d] # "none"
      BY <2>1, <2>3
    <2>5. Nowhere' /\ Held'
      BY <2>1, <2>2, <2>3, <2>4, Owns DEF Done, Nowhere, Held
    <2>6. Found' /\ Missing'
      <3>1. tool \in {"aws", "gcp", "reapply"} => own \in Clusters
        BY Owns DEF own
      <3>2. Found'
        BY <2>2, <2>4, <3>1 DEF Done, Found
      <3>3. Missing'
        BY <2>1, <2>2, <2>3, <3>1 DEF Done, Missing
      <3> QED BY <3>2, <3>3
    <2>7. CronResumed' /\ Resumed' /\ SetUp' /\ Wired' /\ Idle'
      BY <2>2 DEF Done, CronResumed, Resumed, SetUp, Wired, Idle
    <2> QED BY <2>5, <2>6, <2>7 DEF Done
  <1>4. ASSUME NEW c \in Clusters, JobSucceeds(c) PROVE Done'
    <2>1. UNCHANGED <<up, svc, host, cron, origin, tool, step, want, before, after, missed, touched, lastAws>>
          /\ own' = own /\ ToUse' = ToUse
      BY <1>4 DEF JobSucceeds, known, history, own, ToUse
    <2>2. tool \in Tools => (job[own] # "none" => job'[own] # "none")
      BY <1>4, Owns DEF JobSucceeds, own, IInv, TypeOK
    <2>3. SetUp'
      BY <2>1, <2>2, Owns DEF Done, SetUp, Deploys
    <2>4. CronResumed' /\ Resumed' /\ Wired' /\ Nowhere' /\ Held' /\ Found' /\ Missing' /\ Idle'
      BY <2>1 DEF Done, CronResumed, Resumed, Wired, Nowhere, Held, Found, Missing, Idle
    <2> QED BY <2>3, <2>4 DEF Done
  <1> QED BY <1>1, <1>2, <1>3, <1>4 DEF External

LEMMA InitiallyDone == Init => Done
  <1> SUFFICES ASSUME Init PROVE Done OBVIOUS
  <1>1. tool = "none" /\ up \in {{"desktop"}, Clusters} /\ cron["eks"] # "suspended"
    BY DEF Init, Clusters, Clouds
  <1>2. Nowhere
    BY <1>1 DEF Init, Nowhere, Clusters
  <1>3. Held
    BY <1>1 DEF Init, Held, Clusters, Clouds, Hosts
  <1> QED BY <1>1, <1>2, <1>3 DEF Done, CronResumed, Resumed, SetUp, Wired, Found, Missing, Idle

LEMMA StepDone == IInv /\ Done /\ [Next]_vars => Done'
  <1> SUFFICES ASSUME IInv, Done, [Next]_vars PROVE Done' OBVIOUS
  <1>1. CASE AwsStep
    <2>1. tool # "none"
      BY <1>1 DEF AwsStep, AwsLookup, AwsApply, Nodes, Suspend, Install, Controller, AwsJob, AwsService,
         AwsSchedule, Restart, Unsuspend, AwsPoll, Dns, AwsRewire, AwsClean, AwsDestroy, At
    <2> QED BY <1>1, <2>1, LookupsDone, StackDone, PassesDone, CallsDone, ManifestsDone, PollsDone, TeardownsDone
            DEF AwsStep
  <1>2. CASE GcpStep
    <2>1. Credentials \/ Proxy => tool # "none"
      BY DEF Credentials, Proxy, At
    <2> QED BY <1>2, <2>1, LookupsDone, StackDone, PassesDone, ManifestsDone, PollsDone, TeardownsDone
            DEF GcpStep
  <1>3. CASE LocalStep
    <2>1. Prepare => tool # "none"
      BY DEF Prepare, At
    <2> QED BY <1>3, <2>1, PassesDone, ManifestsDone, TeardownsDone DEF LocalStep
  <1>4. CASE Ready \/ Health \/ Finish \/ FinishUnplanned \/ Stop
    <2>1. tool # "none"
      BY <1>4 DEF Ready, Health, Finish, FinishUnplanned, Stop, At
    <2> QED BY <1>4, <2>1, CallsDone, PassesDone, EndsDone
  <1>5. CASE SwitchContext \/ External \/ \E t \in Tools : Start(t)
    BY <1>5, OthersDone
  <1>6. CASE UNCHANGED vars
    <2>1. UNCHANGED <<up, svc, host, cron, job, origin, tool, step, want, before, after, missed, touched, lastAws>>
          /\ own' = own /\ ToUse' = ToUse
      BY <1>6 DEF vars, cluster, known, history, own, ToUse
    <2> QED BY <2>1 DEF Done, CronResumed, Resumed, SetUp, Wired, Nowhere, Found, Held, Missing, Idle
  <1> QED BY <1>1, <1>2, <1>3, <1>4, <1>5, <1>6 DEF Next, ToolStep

(* The analytics job of EKS does not stay suspended after a deploy that reports
   success and lost no call, however many tools run before and after it. *)
THEOREM Resumes == Spec => []CronResumed
  <1>1. Done => CronResumed
    BY DEF Done
  <1> QED BY <1>1, Initially, InitiallyDone, Step, StepDone, PTL DEF Spec

(* A deploy that reports success and lost no call has set up its own cluster. *)
THEOREM EndsDeployed == Spec => DeployedAtEnd
  <1>1. IInv /\ Done /\ [Next]_vars =>
          [Finish /\ tool \in Deploys \ {"reapply"} /\ ~missed =>
            /\ own \in up /\ svc[own] = want /\ job[own] # "none"
            /\ tool # "local" => cron[own] # "none"]_vars
    BY DEF Finish, At, Done, SetUp, IInv, Reached, Deploys, Unsure, Rest, JobDone, ServiceDone, ScheduleDone
  <1> QED BY <1>1, Initially, InitiallyDone, Step, StepDone, PTL DEF Spec, DeployedAtEnd

(* The CDN is wired by every deploy that reports success, and unwired by none
   that lost no call. *)
THEOREM Wires == Spec => StaysWired
  <1>1. IInv /\ Done /\ [Next]_vars =>
          [Finish /\ tool \in {"aws", "gcp", "reapply"} =>
            /\ origin[own] = ToUse \/ (tool = "gcp" /\ ToUse = "none" /\ origin[own] = "none")
            /\ tool = "aws" => origin[own] # "none"]_vars
    BY DEF Finish, At, Done, Wired, Rewired
  <1>2. IInv /\ Done /\ [Next]_vars =>
          [\A c \in Clouds :
            tool \in Deploys /\ ~missed /\ origin[c] # "none" /\ origin[c] = host[c]
                => origin'[c] # "none"]_vars
    <2> SUFFICES ASSUME IInv, Done, Next, NEW c \in Clouds,
                        tool \in Deploys, ~missed, origin[c] # "none", origin[c] = host[c]
                 PROVE  origin'[c] # "none"
      OBVIOUS
    <2>1. origin \in [Clouds -> Hosts \union {"none", "gone"}] /\ origin[c] \in Hosts /\ tool # "none"
      BY Owns DEF IInv, TypeOK
    <2>2. CASE AwsApply \/ GcpApply \/ AwsRewire \/ GcpRewire \/ ReapplyRewire
      <3>1. CASE AwsApply \/ GcpApply
        <4>1. tool \in {"aws", "gcp"} /\ step = "apply" /\ (origin' = origin \/ origin' = [origin EXCEPT ![own] = before])
          BY <3>1 DEF AwsApply, GcpApply, PartlyApplied, Applied, Unplanned, At
        <4>2. c = own => before # "none"
          BY <2>1, <4>1, Owns DEF Done, Missing
        <4> QED BY <2>1, <4>1, <4>2
      <3>2. CASE AwsRewire \/ GcpRewire \/ ReapplyRewire
        <4>1. origin' = origin \/ (origin' = [origin EXCEPT ![own] = ToUse] /\ ToUse # "none")
          BY <3>2 DEF AwsRewire, GcpRewire, ReapplyRewire, SecondApply, NeedSecond, PartlyApplied, Applied
        <4> QED BY <2>1, <4>1
      <3> QED BY <2>2, <3>1, <3>2
    <2>3. CASE ~(AwsApply \/ GcpApply \/ AwsRewire \/ GcpRewire \/ ReapplyRewire)
      <3>1. ~(AwsClean \/ GcpClean \/ LocalClean \/ AwsDestroy \/ GcpDestroy)
        BY DEF AwsClean, GcpClean, LocalClean, AwsDestroy, GcpDestroy, Deploys
      <3>2. origin' = origin
        BY <2>3, <3>1
           DEF Next, ToolStep, AwsStep, GcpStep, LocalStep, External, Start, SwitchContext, Finish, FinishUnplanned, Reports, Stop,
               AwsLookup, GcpLookup, LookupFrame, Nodes, Suspend, Unsuspend, Patch, Install, Controller, AwsJob,
               GcpJob, LocalJob, JobFrame, AwsService, GcpService, LocalService, ServiceFrame, AwsSchedule,
               GcpSchedule, LocalSchedule, Scheduled, Restart, AwsPoll, GcpPoll, ReapplyPoll, Polled, Dns, Health,
               Proxy, Passes, Credentials, Prepare, Ready, Provision, JobSucceeds, cluster
      <3> QED BY <2>1, <3>2
    <2> QED BY <2>2, <2>3
  <1> QED BY <1>1, <1>2, Initially, InitiallyDone, Step, StepDone, PTL
          DEF Spec, StaysWired, WiredAtEnd, NeverUnwired

(* A report of success behind a plan that failed is that of a deploy to GKE which
   has changed no object of any cluster. *)
THEOREM UnplannedIdles == Spec => UnplannedIsIdle
  <1>1. IInv /\ Done /\ [Next]_vars => [FinishUnplanned => tool = "gcp" /\ touched = {}]_vars
    <2> SUFFICES ASSUME IInv, Done, FinishUnplanned PROVE tool = "gcp" /\ touched = {}
      OBVIOUS
    <2>1. tool \in Tools /\ step = "unplanned" /\ step \in (DOMAIN Following[tool]) \union {"end"}
      BY DEF FinishUnplanned, At, IInv, TypeOK
    <2>2. tool = "gcp"
      BY <2>1 DEF Tools, Following
    <2> QED BY <2>1, <2>2 DEF Done, Idle
  <1> QED BY <1>1, Initially, InitiallyDone, Step, StepDone, PTL DEF Spec, UnplannedIsIdle

(* All together: what a report of success stands for. *)
THEOREM SuccessStands == Spec => SuccessHolds
  BY EndsDeployed, UnplannedIdles, Wires DEF SuccessHolds

===============================================================================
