---------------------------- MODULE GcpLifecycle ----------------------------
(* deploy.py and teardown.py of GCP, run by one operator one after the other, as   *)
(* far as the stacks, the password and the database go.  A tool works through a      *)
(* queue of phases.  Any call may fail, and then the phase is passed over or the       *)
(* tool ends, as the code has it; the database's executions and users go on meanwhile. *)
EXTENDS GcpDbSetup

CONSTANTS Scopes,       \* the values of --scope: the application stacks, in order
          MaxTools      \* bound: how often a tool is started

ASSUME ScopesAssumption == /\ Scopes \subseteq {<<"kube">>, <<"nonkube">>, <<"nonkube", "kube">>}
                           /\ MaxTools \in Nat

VARIABLES tool, queue, tools,     \* idle, deploy or teardown; its phases to come
          bucket,                 \* the state bucket exists
          peering, tracked,      \* the peering of the VPC, and that the state has it
          env,                    \* PGPASSWORD of the operator
          left                    \* history: stacks that a teardown passed over or failed to destroy

cloudVars == <<up, bucket, peering, tracked, env, left>>
gcpVars == <<sql, password, secret, tables, raw, emb, vec, execs, lines, upset, deleted, calls,
          job, up, force, stage, step, cur,
          tool, queue, tools, bucket, peering, tracked, env, left>>

Stacks == {"cooloff", "durable", "nondurable", "nonkube", "kube"}
AppStacks == {"nonkube", "kube"}
DeployPhases(scope) == <<"cooloff", "secrets", "durable", "nondurable", "setup", "build">> \o scope

(* Mutant: what lasts longest goes first. *)
TeardownPhases_Reversed(scope, dura) ==
  (IF dura # "no" THEN <<"sql", "gone", "peering", "durable">> ELSE << >>)
  \o (IF Len(scope) = 2 THEN <<"nondurable">> ELSE << >>) \o scope

(* --incl-dura and --incl-dura-all count only with the scope all. *)
TeardownPhases(scope, dura) ==
  scope
  \o (IF Len(scope) = 2 THEN <<"nondurable">> ELSE << >>)
  \o (IF dura # "no" THEN <<"sql", "gone", "peering", "durable">> ELSE << >>)
  \o (IF dura = "all" THEN <<"cooloff">> ELSE << >>)

Phases == Stacks \cup {"secrets", "setup", "build", "sql", "gone", "peering"}

GcpTypeOK ==
  /\ DbTypeOK /\ SetupTypeOK
  /\ tool \in {"idle", "deploy", "teardown"} /\ queue \in Seq(Phases) /\ tools \in 0..MaxTools
  /\ up \subseteq Stacks /\ left \subseteq Stacks
  /\ {force, bucket, peering, tracked} \subseteq BOOLEAN /\ env \in Passwords
  /\ (tool = "idle" => queue = << >> /\ stage = "none" /\ ~force)
  /\ (stage # "none" => tool = "deploy")

GcpInit ==
  /\ DbInit /\ SetupInit
  /\ tool = "idle" /\ queue = << >> /\ tools = 0 /\ force = FALSE
  /\ up = {} /\ bucket = FALSE /\ peering = FALSE /\ tracked = FALSE
  /\ env \in Passwords /\ left = {}

-----------------------------------------------------------------------------
Phase == IF queue = << >> THEN "none" ELSE Head(queue)
Rest == Tail(queue)

(* The end of a tool, whether it is through or something raised. *)
Stop == /\ tool' = "idle" /\ queue' = << >> /\ force' = FALSE
        /\ stage' = "none" /\ step' = "prepare" /\ cur' = 0
        /\ UNCHANGED <<tools, job>>
Pass == queue' = Rest /\ UNCHANGED <<tool, force, tools, setupVars>>

(* A bucket that is not there, or is not seen, is created. *)
EnsureBucket == bucket' = TRUE

StartDeploy ==
  /\ tool = "idle" /\ tools < MaxTools
  /\ \E scope \in Scopes, f \in BOOLEAN :
       tool' = "deploy" /\ queue' = DeployPhases(scope) /\ force' = f
  /\ tools' = tools + 1 /\ EnsureBucket
  /\ UNCHANGED <<dbVars, setupVars, up, peering, tracked, env, left>>

StartTeardown ==
  /\ tool = "idle" /\ tools < MaxTools
  /\ \E scope \in Scopes, dura \in {"no", "incl", "all"} :
       /\ dura # "no" => Len(scope) = 2
       /\ queue' = TeardownPhases(scope, dura)
  /\ tool' = "teardown" /\ tools' = tools + 1
  /\ UNCHANGED <<dbVars, setupVars, force, cloudVars>>

(* A call raises, or the tool is stopped: it ends where it is. *)
RaiseOut == tool # "idle" /\ queue # << >> /\ Stop /\ UNCHANGED <<dbVars, cloudVars>>
Through == tool # "idle" /\ queue = << >> /\ Stop /\ UNCHANGED <<dbVars, cloudVars>>
NewPassword == tool = "idle" /\ env' \in Passwords \ {env}
               /\ UNCHANGED <<dbVars, setupVars, force, tool, queue, tools, up, bucket, peering, tracked, left>>

-----------------------------------------------------------------------------
(* Deploy *)

(* A plan that fails is passed over; the phase is reported complete all the same. *)
PlanFails ==
  /\ tool = "deploy" /\ Phase \in Stacks /\ Pass
  /\ UNCHANGED <<dbVars, cloudVars>>

(* An apply may be through or stop halfway, and then it raises. *)
ApplyShared ==
  /\ tool = "deploy" /\ Phase \in {"cooloff", "nondurable"}
  /\ up' = up \cup {Phase} /\ left' = left \ {Phase}
  /\ (Pass \/ Stop)
  /\ UNCHANGED <<dbVars, bucket, peering, tracked, env>>

(* The first run of the analytics job is waited for; that it fails, or takes too long, *)
(* ends the deploy.                                                                      *)
Bootstrap == Pass \/ Stop

ApplyApp ==
  /\ tool = "deploy" /\ Phase \in AppStacks
  /\ up' = up \cup {Phase} /\ left' = left \ {Phase}
  /\ Bootstrap
  /\ UNCHANGED <<dbVars, bucket, peering, tracked, env>>

(* The network first, then the peering, then the instance, with its password; the job *)
(* wants the secret to have a version.                                                 *)
ApplyDurable ==
  /\ tool = "deploy" /\ Phase = "durable"
  /\ up' = up \cup {"durable"} /\ left' = left \ {"durable"}
  /\ \/ /\ sql # "deleting" /\ sql' = "up" /\ password' = env /\ peering' = TRUE /\ tracked' = TRUE
        /\ (secret # NoPassword /\ Pass) \/ Stop
     \/ peering' = TRUE /\ tracked' = TRUE /\ Stop /\ UNCHANGED <<sql, password>>
     \/ Stop /\ UNCHANGED <<sql, password, peering, tracked>>
  /\ UNCHANGED <<secret, dataVars, execs, lines, bucket, env>>

(* The secrets are looked up in the outputs of their stack. *)
SecretRefs == "cooloff" \in up

EnsureSecrets ==
  /\ tool = "deploy" /\ Phase = "secrets" /\ SecretRefs
  /\ secret' = env
  /\ (Pass \/ Stop)
  /\ UNCHANGED <<sql, password, dataVars, execs, lines, cloudVars>>

BeginSetup ==
  /\ tool = "deploy" /\ Phase = "setup" /\ stage = "none" /\ stage' = "full"
  /\ UNCHANGED <<dbVars, job, step, cur, force, tool, queue, tools, cloudVars>>

EndSetup ==
  /\ Phase = "setup"
  /\ \/ stage \in {"ok", "recovered"} /\ Pass
     \/ stage = "failed" /\ Stop
  /\ UNCHANGED <<dbVars, cloudVars>>

BuildPhase == tool = "deploy" /\ Phase = "build" /\ Pass /\ UNCHANGED <<dbVars, cloudVars>>

-----------------------------------------------------------------------------
(* Teardown *)

StackOf == IF Phase = "sql" THEN "durable" ELSE Phase

(* A bucket that cannot be described counts as gone, and with it the resources. *)
SkipStack ==
  /\ tool = "teardown" /\ Phase \in AppStacks \cup {"nondurable", "sql", "cooloff"}
  /\ queue' = IF Phase = "sql" THEN SubSeq(queue, 5, Len(queue)) ELSE Rest
  /\ left' = left \cup ({StackOf} \cap up)
  /\ UNCHANGED <<dbVars, setupVars, force, tool, tools, up, bucket, peering, tracked, env>>

(* The exit code of the destroy is not looked at. *)
DestroyStack ==
  /\ tool = "teardown" /\ bucket /\ Phase \in Stacks \ {"durable"} /\ Pass
  /\ \/ /\ up' = up \ {Phase} /\ left' = left \ {Phase}
        /\ secret' = IF Phase = "cooloff" THEN NoPassword ELSE secret
     \/ left' = left \cup ({Phase} \cap up) /\ UNCHANGED <<up, secret>>
  /\ UNCHANGED <<sql, password, dataVars, execs, lines, bucket, peering, tracked, env>>

DestroySql ==
  /\ tool = "teardown" /\ bucket /\ Phase = "sql"
  /\ sql' = IF sql = "none" THEN "none" ELSE "deleting"
  /\ (Pass \/ Stop)
  /\ UNCHANGED <<password, secret, dataVars, execs, lines, cloudVars>>

(* An error counts as gone here too; out of patience, it raises (RaiseOut). *)
WaitGone == Phase = "gone" /\ Pass /\ UNCHANGED <<dbVars, cloudVars>>

(* What a deletion that did not raise leaves: it is deleted, or was not found. *)
Unpeered == {FALSE}

(* Then the state forgets it, or that fails with a warning. *)
DeletePeering ==
  /\ Phase = "peering" /\ Pass
  /\ peering' \in Unpeered /\ tracked' \in {tracked, FALSE}
  /\ UNCHANGED <<dbVars, up, bucket, env, left>>

(* Retried while the producer's services still use the peering; any other failure, *)
(* or the last, raises (RaiseOut).                                                    *)
DestroyDurable ==
  /\ tool = "teardown" /\ Phase = "durable" /\ (peering => tracked) /\ Pass
  /\ up' = up \ {"durable"} /\ left' = left \ {"durable"} /\ peering' = FALSE /\ tracked' = FALSE
  /\ UNCHANGED <<dbVars, bucket, env>>

-----------------------------------------------------------------------------
toolVars == <<job, up, force, stage, step, cur, tool, queue, tools, bucket, peering, tracked, env, left>>

GcpNext ==
  \/ StartDeploy \/ StartTeardown \/ RaiseOut \/ Through \/ NewPassword
  \/ PlanFails \/ ApplyShared \/ ApplyApp \/ ApplyDurable \/ EnsureSecrets \/ BeginSetup \/ EndSetup \/ BuildPhase
  \/ (Setup /\ UNCHANGED <<tool, queue, tools, force, cloudVars>>)
  \/ SkipStack \/ DestroyStack \/ DestroySql \/ WaitGone \/ DeletePeering \/ DestroyDurable
  \/ (InstanceGone /\ UNCHANGED toolVars)
  \/ \E i \in DOMAIN execs : Execute(i) /\ UNCHANGED toolVars
  \/ \E r \in Rows : up \cap AppStacks # {} /\ (SaveRow(r) \/ DeleteRow(r)) /\ UNCHANGED toolVars

GcpSpec == GcpInit /\ [][GcpNext]_gcpVars

-----------------------------------------------------------------------------
AfterSetup == tool = "deploy" /\ Phase \in AppStacks \cup {"build"}

(* The application is deployed only with a password that the database takes: that   *)
(* in Secret Manager and that of the instance are changed by two phases of which the *)
(* second may be passed over, and it is the job that connects with it that shows.     *)
CredentialsProven == AfterSetup => sql = "up" /\ secret = password

(* A vector, or a raw row, is lost only with the instance, to a user who deletes that *)
(* row, or to an execution of a deploy that was asked to refresh the data: the mode      *)
(* sticks to the job, and the next deploy has to take it off.                             *)
KeptUnlessForced ==
  [][\/ vec \subseteq vec' /\ raw \subseteq raw'
     \/ sql' = "none"
     \/ \E r \in Rows : DeleteRow(r)
     \/ \E i \in DOMAIN execs : execs[i].asked /\ ~Ended(execs[i])]_gcpVars

(* A database that a deploy found good without having to count again lacks the vector *)
(* of a row of the file that no user deleted only after a load that failed or is not     *)
(* over, that had no credentials, or that came after a user's row: the skip asks for one   *)
(* vector alone, and the count does not ask for any.                                        *)
LacksOnlyAfterFailedLoad ==
  AfterSetup /\ stage = "ok" /\ ~(Csv \subseteq vec \cup deleted) =>
    \/ upset
    \/ \E i \in DOMAIN execs : execs[i].mode # "verify" /\ execs[i].at # "succeeded"

(* The application is up without the network and the database under it only if a  *)
(* teardown failed to destroy it and went on.                                       *)
NothingUnderneath ==
  \A s \in AppStacks \cap up : "durable" \in up \/ s \in left

(* The peering is never there without the state that would destroy it. *)
PeeringTracked == peering => tracked

(* However many destroys fail, nothing but what a destroy failed on stands on what *)
(* is gone, and nothing that holds on to the network is forgotten.                 *)
TeardownIsOrdered == GcpTypeOK /\ NothingUnderneath /\ PeeringTracked
=============================================================================
