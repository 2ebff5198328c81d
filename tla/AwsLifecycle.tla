---------------------------- MODULE AwsLifecycle ----------------------------
(***************************************************************************)
(* One operator deploys and tears down, in any order and with any flags,   *)
(* one tool at a time, until faults and kills are used up; AWS goes on     *)
(* meanwhile.                                                              *)
(***************************************************************************)
EXTENDS AwsDbSetup

VARIABLE hung           \* the tool waits for a command that does not come back

awsVars == <<cloud, teardownVars, dbVars, hung>>

AwsTypeOK ==
    /\ CloudTypeOK /\ DbTypeOK
    /\ proc \in {"idle", "deploy", "teardown"}
    /\ result \in {"none", "ok", "failed", "killed"}
    /\ (proc = "idle") = (point = "end")
    /\ ~bucket => recorded = {} /\ ~outputs
    /\ polls \in 0..Polls
    /\ misread \subseteq Stacks
    /\ strays \subseteq Managed
    /\ hung \in BOOLEAN
    /\ hung => proc # "idle"

AwsInit ==
    /\ CloudInit
    /\ proc = "idle" /\ point = "end" /\ result = "none"
    /\ scope = "all" /\ incl = "none"
    /\ todo = <<>>
    /\ polls = 0
    /\ uncertain = FALSE
    /\ misread = {} /\ strays = {}
    /\ db = NoDatabase /\ forced = FALSE
    /\ hung = FALSE

\* Of one stack, --incl-dura-all destroys no more than --incl-dura.
Operator ==
    \/ \E sc \in DOMAIN Order : StartDeploy(sc)
    \/ \E sc \in DOMAIN Order, in \in {"none", "dura"} : StartTeardown(sc, in)
    \/ StartTeardown("all", "all")
    \/ \E in \in {"dura", "all"} : StartPostDestroy(in)

\* tofu, npm, docker and some calls of the AWS CLI are waited for without a time-out;
\* what the others have is longer than what they wait for only when a call fails.
Timed == {"resolve", "disable", "deployed", "delete", "gone", "oac", "logs", "backend"}

Hang ==
    /\ proc # "idle" /\ point \notin Timed /\ todo # <<>>
    /\ ~hung /\ hung' = TRUE
    /\ Fails
    /\ UNCHANGED <<teardownVars, dbVars, alive, recorded, bucket, outputs, dist, ecs>>

\* The tool dies between two calls, or is killed in one that hangs.
KillTool ==
    /\ proc # "idle"
    /\ Fails \/ (hung /\ Works)
    /\ End("killed")
    /\ hung' = FALSE
    /\ db' = Left(db) /\ forced' = FALSE
    /\ UNCHANGED <<history, alive, recorded, bucket, outputs, dist, ecs>>

Step == ~hung /\ UNCHANGED hung /\ (DbStep \/ ((DeployStep \/ TeardownStep) /\ DbFollows))

Propagate == \E f \in Frontends : Propagates(f)

Aws == (TaskStarts \/ TaskEnds \/ Propagate) /\ UNCHANGED <<teardownVars, dbVars, hung>>

Users == \E r \in Held : (SaveRow(r) \/ DeleteRow(r)) /\ UNCHANGED hung

AwsNext == (Operator /\ UNCHANGED <<dbVars, hung>>) \/ Step \/ Hang \/ KillTool \/ Aws \/ Users

\* The tool that runs goes on; a change of a distribution is deployed in the
\* end. Nothing is assumed of the operator.
AwsSpec ==
    /\ AwsInit /\ [][AwsNext]_awsVars
    /\ WF_awsVars(Step)
    /\ WF_awsVars(Propagate /\ UNCHANGED <<teardownVars, dbVars, hung>>)

----------------------------------------------------------------------------
\* Properties.

\* Whatever exists under one of the stacks is in their state files, so that a
\* later teardown will find it: the bucket with those files never goes before
\* its resources, whatever was skipped, unless a probe took an error for an
\* absence, an apply was killed, or --post-destroy-only deleted the files of a
\* region that was not torn down.
StateKnowsAll == alive \intersect Managed \subseteq recorded \union strays

\* The outputs of durable go last: a frontend that is still recorded can be
\* evaluated, and so destroyed. Again up to what a failed probe has skipped, or
\* what no state file listed when the outputs went.
NothingStranded ==
    \A s \in Frontends :
        bucket /\ ~outputs /\ s \notin misread => recorded \intersect Owned[s] \subseteq strays

\* Nothing is out of reach of a later teardown: what exists is in a state file,
\* and what a state file lists can still be destroyed.
NothingOrphaned == AwsTypeOK /\ StateKnowsAll /\ NothingStranded

\* Rule, service, tasks, load balancer and distribution are gone when the
\* destroy of their stack begins, and stay gone until it does, unless one of
\* the steps that see to it has failed or given up.
Prepared ==
    \A s \in Frontends :
        At("destroy", s) /\ ~uncertain => \A r \in Owned[s] : ~Blocked(r)

\* A full teardown that reports success has left none of the resources of the
\* stacks, but those no state file lists any more and those of stacks that a
\* failed probe has skipped.
FullTeardownCleans ==
    proc = "idle" /\ result = "ok" /\ scope = "all" /\ incl = "all" /\ ~bucket =>
        \A r \in alive \intersect Managed :
            r \in strays \/ \E s \in misread : r \in Owned[s]

\* A database that a deploy takes for loaded has every row of the file, but those
\* that users have deleted, with its vectors, unless an earlier set-up stopped with
\* rows or vectors missing from a table that was not empty, or went on without
\* credentials, or users had added a row to a table that was empty: counts are all
\* that the set-up asks for.
LoadedIsWhole == In("loaded", "database") => Whole(db) \/ db.upset

\* Every deploy and every teardown ends, or hangs in a command without a time-out:
\* it never goes on for ever with its own polls and retries.
ToolEnds == proc # "idle" ~> proc = "idle" \/ hung
============================================================================
