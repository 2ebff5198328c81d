---------------------------- MODULE ImageRelease ----------------------------
(* Deploys of one operator, one after another, to one target (a region of AWS, *)
(* GCP or the local machine), as far as the images go: whether the build is      *)
(* skipped, what is built, pushed and recorded, and which tag is deployed.  Any   *)
(* call may fail, the tool may be stopped anywhere, and the source may change at   *)
(* any time.  Targets share nothing but the images on the machine, which Init       *)
(* leaves there as a deploy to another region of AWS would.  The full teardown of    *)
(* the local machine is here too, for it removes images and keeps their hashes; that  *)
(* of a cloud takes the registry and the bucket of the hashes together.                *)
EXTENDS ImageRegistry

CONSTANTS MaxRuns, MaxEdits     \* bounds: deploys, and changes of the source

ASSUME BoundsAssumption == MaxRuns \in Nat /\ MaxEdits \in Nat

VARIABLES tree, edits,          \* the source tree
          local,                \* the AWS images on the machine, kept as latest
          at, reg, stored,      \* the target, its images, and the hashes it has recorded
          run, runs,            \* the deploy under way
          trusted, recorded, torn, removed   \* history, see below

history == <<trusted, recorded, torn, removed>>
vars == <<tree, edits, local, at, reg, stored, run, runs, trusted, recorded, torn, removed>>

(* trusted: no build read a tree that changed under it or moved a version to   *)
(* other files, and no image was pushed without being built.  recorded: the      *)
(* parts whose hash was stored after they last changed.  torn: the versions that  *)
(* a build began to push and did not push for every part.  removed: the parts that   *)
(* a teardown of the local machine has removed since their last build.                *)

First == [head |-> CHOOSE h \in Heads : TRUE, change |-> "none"]

Idle == [mode |-> "normal", noSpark |-> FALSE, given |-> None, alone |-> FALSE, pc |-> "idle",
         tag |-> None, from |-> First, hash |-> First, app |-> None, spark |-> None,
         k |-> 1, how |-> "none"]

(* Nothing but perhaps the images of an earlier region, or all deployed once. *)
Init ==
  /\ at \in Targets
  /\ \E deployed \in BOOLEAN, had \in BOOLEAN :
       /\ reg = [p \in PartSet(at) |->
                   IF ~deployed THEN << >>
                   ELSE [v \in IF at = "local" THEN {Latest} ELSE {Latest, Tag(First, 0)} |-> Content(p, First)]]
       /\ stored = [p \in {"app", "spark"} |-> IF deployed THEN Hash(p, First) ELSE None]
       /\ recorded = IF deployed THEN {"app", "spark"} ELSE {}
       /\ had => at = "aws"
       /\ local = [p \in {"app", "spark"} |-> IF had THEN Content(p, First) ELSE None]
  /\ tree = First /\ edits = 0 /\ runs = 0 /\ run = Idle
  /\ trusted = TRUE /\ torn = {} /\ removed = {}

(* The source changes.  The steps after the builds do not read it, so that a change *)
(* during them is as one after the deploy.                                            *)
Edit ==
  /\ edits < MaxEdits /\ run.pc \in {"idle", "hash", "app", "spark", "copy"}
  /\ tree' \in Trees \ {tree}
  /\ edits' = edits + 1
  /\ trusted' = (trusted /\ run.pc \notin {"hash", "app", "spark"})
  /\ UNCHANGED <<at, local, reg, stored, run, runs, recorded, torn, removed>>

(* The operator may give a tag for all images, or one for Spark alone. *)
Start ==
  /\ run.pc = "idle" /\ runs < MaxRuns
  /\ \E mode \in {"normal", "force", "skip"}, noSpark \in BOOLEAN, given \in {None, Pinned}, alone \in BOOLEAN :
       /\ at = "local" => mode # "skip" /\ given = None /\ ~alone
       /\ alone => given = None
       /\ noSpark => at = "local"
       /\ run' = [Idle EXCEPT !.mode = mode, !.noSpark = noSpark, !.given = given, !.alone = alone,
                              !.pc = "decide"]
  /\ runs' = runs + 1
  /\ UNCHANGED <<at, tree, edits, local, reg, stored, history>>

Compared == IF run.noSpark THEN {"app"} ELSE {"app", "spark"}

(* decide_build_skip: the stored hashes are those of the tree, and for GCP the *)
(* registry has every image.                                                     *)
Matches ==
  /\ \A p \in Compared : stored[p] = Hash(p, tree)
  /\ at = "gcp" => HasLatest(reg, PartSet(at))

(* A hash that cannot be read and a registry that does not answer mean a build. *)
Decide ==
  /\ run.pc = "decide"
  /\ \E read \in BOOLEAN :
       LET skipped == run.mode = "skip" \/ (run.mode = "normal" /\ Matches /\ read)
           after   == CASE ~skipped -> IF at = "local" THEN "app" ELSE "hash"
                        [] skipped /\ at = "aws" -> "copy"
                        [] skipped /\ at = "gcp" -> "resolve"
                        [] skipped /\ at = "local" -> "done"
       IN  run' = [run EXCEPT !.pc = after, !.from = tree, !.hash = tree,
                     !.how = IF run.mode = "skip" THEN "asked" ELSE IF skipped THEN "skipped" ELSE "built",
                     !.tag = IF at = "local" THEN Latest
                             ELSE IF run.given # None THEN run.given ELSE Tag(tree, runs)]
  /\ UNCHANGED <<at, tree, edits, local, reg, stored, runs, history>>

(* The build script hashes the tree again; the deploy of the local machine does not. *)
HashTree ==
  /\ run.pc = "hash"
  /\ run' = [run EXCEPT !.pc = "app", !.hash = tree]
  /\ UNCHANGED <<at, tree, edits, local, reg, stored, runs, history>>

(* docker build: it moves fru-api:local or fru-spark:local at once.  The images *)
(* of AWS and GCP get the local tag latest when all are built.                    *)
Build(p) ==
  LET image == Content(p, tree)
      last  == p = "spark" \/ run.noSpark
      next  == CASE ~last -> "spark" [] last /\ at = "local" -> "store" [] OTHER -> "push"
  IN  /\ run.pc = p
      /\ run' = [run EXCEPT !.pc = next, ![p] = image]
      /\ reg' = IF at = "local" THEN Tagged(reg, p, Latest, image) ELSE reg
      /\ recorded' = IF at = "local" THEN recorded \ {p} ELSE recorded
      /\ local' = IF last /\ at = "aws" THEN [app |-> run.app, spark |-> image] ELSE local
      /\ removed' = removed \ {p}
      /\ UNCHANGED <<at, tree, edits, stored, runs, trusted, torn>>

(* The proxy is built with Spark's image, from files of core_app as well. *)
Image(p) == IF p = "app" THEN run.app ELSE run.spark

(* Mutant: any push that fails is a warning. *)
MayMiss_Any(todo) == TRUE

(* That the tag latest of Spark cannot be pushed for want of a platform is a warning. *)
MayMiss(todo) == todo.latest /\ todo.part = "spark"

(* The version a part is pushed under: that of the app, or Spark's own tag. *)
PushedTag(p) == IF p = "spark" /\ run.alone THEN Pinned ELSE run.tag

(* docker push of the next tag. *)
Push ==
  /\ run.pc = "push"
  /\ LET todo  == Pushes(at)[run.k]
         tag   == IF todo.latest THEN Latest ELSE PushedTag(todo.part)
         repo  == reg[todo.part]
         ended == run.k = Len(Pushes(at))
         moved == ~todo.latest /\ tag \in DOMAIN repo /\ repo[tag] # Image(todo.part)
     IN  /\ reg' \in {Tagged(reg, todo.part, tag, Image(todo.part))}
                \cup {g \in {reg} : MayMiss(todo)}
         /\ trusted' = (trusted /\ ~moved)
         /\ recorded' = {}
         /\ torn' = IF ended /\ ~run.alone THEN torn \ {run.tag} ELSE torn \cup {run.tag}
         /\ run' = IF ended THEN [run EXCEPT !.pc = "store", !.k = 1] ELSE [run EXCEPT !.k = @ + 1]
  /\ UNCHANGED <<at, tree, edits, local, stored, runs, removed>>

ToStore == IF run.noSpark THEN <<"app">> ELSE <<"app", "spark">>

(* store_build_hash for the app, then for Spark; an error ends the storing, and *)
(* is a warning for AWS and GCP.                                                  *)
Store ==
  /\ run.pc = "store"
  /\ LET p     == ToStore[run.k]
         after == IF at = "local" THEN "done" ELSE "resolve"
     IN  \/ /\ stored' = [stored EXCEPT ![p] = Hash(p, run.hash)]
            /\ recorded' = recorded \cup {p}
            /\ run' = IF run.k = Len(ToStore) THEN [run EXCEPT !.pc = after, !.k = 1]
                      ELSE [run EXCEPT !.k = @ + 1]
         \/ /\ at # "local"
            /\ run' = [run EXCEPT !.pc = after, !.k = 1]
            /\ UNCHANGED <<stored, recorded>>
  /\ UNCHANGED <<at, tree, edits, local, reg, runs, trusted, torn, removed>>

(* _push_only_for_ecr_absence, after a skipped build: the images on the machine *)
(* are pushed as latest where the registry has none or does not answer, and the  *)
(* hashes of the tree are stored; the script may stop after any call, which is a  *)
(* warning.  missing is what the script takes to be missing.                       *)
Copy ==
  /\ run.pc = "copy"
  /\ \/ /\ HasLatest(reg, {"app", "spark"})
        /\ run' = [run EXCEPT !.pc = "resolve"]
        /\ UNCHANGED <<reg, stored, trusted, recorded>>
     \/ \E missing \in SUBSET {"app", "spark"}, n \in 0..4 :
          LET pushed == (IF n > 0 THEN {"app"} ELSE {}) \cup (IF n > 1 THEN {"spark"} ELSE {})
              known  == (IF n > 2 THEN {"app"} ELSE {}) \cup (IF n > 3 THEN {"spark"} ELSE {})
              sent   == missing \cap pushed
          IN  /\ missing # {} /\ \A p \in {"app", "spark"} : Latest \notin DOMAIN reg[p] => p \in missing
              /\ \A p \in sent : local[p] # None
              /\ reg' = [p \in {"app", "spark"} |->
                          IF p \in sent THEN Put(reg[p], Latest, local[p]) ELSE reg[p]]
              /\ stored' = [p \in {"app", "spark"} |->
                             IF p \in known THEN Hash(p, tree) ELSE stored[p]]
              /\ trusted' = (trusted /\ n = 0)
              /\ recorded' = (recorded \ sent) \cup known
              /\ run' = [run EXCEPT !.pc = "resolve", !.k = n]
  /\ UNCHANGED <<at, tree, edits, local, runs, torn, removed>>

(* Mutant: the tag that was generated for the build is deployed when it was skipped. *)
Candidates_Generated == {run.tag}

(* get_deploy_image_uris: the tag given, that of the build, or any version that *)
(* latest has; what the operator gave does not count on GCP when the hashes match. *)
Candidates ==
  IF run.how = "built" \/ (run.given # None /\ ~(at = "gcp" /\ run.how = "skipped"))
  THEN {run.tag} ELSE Versions(reg)

Resolve ==
  /\ run.pc = "resolve"
  /\ \/ \E v \in Candidates : run' = [run EXCEPT !.pc = "done", !.tag = v]
     \/ /\ Candidates = {}
        /\ run' = [run EXCEPT !.pc = "unresolved"]
  /\ UNCHANGED <<at, tree, edits, local, reg, stored, runs, history>>

(* A call fails, or the operator stops the tool. *)
Fail ==
  /\ run.pc \notin {"idle", "done", "unresolved"}
  /\ run' = Idle
  /\ UNCHANGED <<at, tree, edits, local, reg, stored, runs, history>>

Return ==
  /\ run.pc \in {"done", "unresolved"}
  /\ run' = Idle
  /\ UNCHANGED <<at, tree, edits, local, reg, stored, runs, history>>

(* The full teardown of the local machine: docker rmi of both images, whose exit code *)
(* is not looked at.  The hashes of their builds stay.                                  *)
Remove ==
  /\ at = "local" /\ run.pc = "idle"
  /\ \E gone \in SUBSET {"app", "spark"} :
       /\ reg' = [p \in PartSet(at) |-> IF p \in gone THEN << >> ELSE reg[p]]
       /\ recorded' = recorded \ gone
       /\ removed' = removed \cup gone
  /\ UNCHANGED <<at, tree, edits, local, stored, run, runs, trusted, torn>>

Next ==
  \/ Edit \/ Start \/ Decide \/ HashTree \/ (\E p \in {"app", "spark"} : Build(p))
  \/ Push \/ Store \/ Copy \/ Resolve \/ Fail \/ Return \/ Remove

Spec == Init /\ [][Next]_vars

-----------------------------------------------------------------------------
(* The images, hashes and tags are what the tools write. *)
TypeOK ==
  /\ tree \in Trees /\ edits \in 0..MaxEdits /\ runs \in 0..MaxRuns
  /\ \A p \in PartSet(at) : DOMAIN reg[p] \subseteq Tags(MaxRuns) /\ \A v \in DOMAIN reg[p] : reg[p][v] \in Trees
  /\ stored \in [{"app", "spark"} -> Trees \cup {None}]
  /\ local \in [{"app", "spark"} -> Trees \cup {None}]
  /\ run.pc \in {"idle", "decide", "hash", "app", "spark", "push", "store", "copy", "resolve", "done", "unresolved"}
  /\ at \in Targets /\ run.tag \in Tags(MaxRuns) \cup {None}
  /\ trusted \in BOOLEAN

(* A hash is stored in a cloud's bucket only once the image it stands for was    *)
(* pushed under a version: whatever call fails and wherever the build stops, the  *)
(* next deploy does not skip the build for files that never reached the registry. *)
RecordedIsPushed ==
  at # "local" /\ trusted => \A p \in {"app", "spark"} :
    stored[p] # None => \E v \in DOMAIN reg[p] \ {Latest} : Hash(p, reg[p][v]) = stored[p]

(* What a deploy settles on is vouched for: by the history of the target, and the *)
(* tag is not one that the operator gave and no build of this deploy has pushed.    *)
Vouched ==
  /\ run.pc = "done" /\ trusted /\ run.tag \notin torn
  /\ run.given # None => run.how = "built"

SameFiles(p, image, t) ==
  \/ Content(p, t) = image
  \/ p = "app" /\ t.head = image.head /\ {t.change, image.change} = {"config", "none"}

(* A deploy that was not told to skip the build runs the source it was started on, *)
(* config aside, whether it built the images or took those that were there, when     *)
(* their hashes were recorded by the build that made them and, on the local machine,  *)
(* no teardown has removed them since.                                                 *)
DeployedIsCurrent ==
  Vouched /\ run.how # "asked" /\ (run.how = "built" \/ Compared \subseteq recorded) =>
    \A p \in Compared :
      run.tag \in DOMAIN reg[p] /\ SameFiles(p, reg[p][run.tag], run.from)

(* The tag a deploy settles on exists for every image it needs, unless the build    *)
(* that pushed it stopped halfway or gave Spark a tag of its own: one tag, read from  *)
(* the app's image, is used for Spark and for the proxy too.  On the local machine     *)
(* only the images that a teardown has removed since their build can be missing: the    *)
(* teardown keeps the hashes, so that the next deploy skips the build it announces.      *)
DeployedExists ==
  Vouched => \A p \in IF at = "local" THEN Compared \ removed ELSE PartSet(at) : run.tag \in DOMAIN reg[p]

(* A deploy whose build is skipped for its hashes finds a version to deploy: a tag *)
(* latest never stands in the registry without one, wherever a build stopped.       *)
SkipResolves ==
  run.pc = "unresolved" /\ trusted => run.how = "asked"

(* In the clouds, a build is skipped only for images that the registry has, under a *)
(* version that the deploy then finds; RecordedIsPushed says nothing of the local      *)
(* machine, and neither holds once --skip-build has pushed images it did not build.     *)
SkipIsSafe == TypeOK /\ RecordedIsPushed /\ SkipResolves
=============================================================================
