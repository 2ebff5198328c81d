--------------------------- MODULE ImageRegistry ---------------------------
(* The images of the program: what the source tree is hashed and tagged as,  *)
(* the registries of the two clouds and the images on the operator's machine. *)
(* A tree is a commit and at most one change on top of it, named for the part *)
(* of the repository it touches, or "untracked" for a file of core_app that    *)
(* git does not know.  An image is the part of the tree copied into it: a       *)
(* build from the same files comes out of Docker's cache with the same digest. *)
EXTENDS Naturals, Sequences

CONSTANTS Heads,            \* the commits
          None, Latest, Pinned   \* no value; the tag latest; a tag the operator gives

Targets == {"aws", "gcp", "local"}
Changes == {"none", "core", "tools", "config", "untracked"}
Trees == [head : Heads, change : Changes]

ASSUME TreesAssumption == Heads # {} /\ None \notin Trees
ASSUME TagsAssumption == Latest # Pinned /\ Latest \notin Heads \X Nat

(* core_app/analytics/docker/Dockerfile is built in core_app; the app image *)
(* also takes tools/cloud_shared and config.                                 *)
Content(part, t) ==
  IF part = "app" THEN t
  ELSE [t EXCEPT !.change = IF @ \in {"core", "untracked"} THEN @ ELSE "none"]

(* Mutant: the hash of the app is that of core_app alone. *)
Hash_NoTools(part, t) == Content("spark", t)

(* compute_build_context_hash: the files of core_app, and for the app those of *)
(* tools/cloud_shared, as they are on the disk; config is not among them.       *)
Hash(part, t) ==
  [Content(part, t) EXCEPT !.change = IF @ = "config" THEN "none" ELSE @]

(* generate_image_tag: the commit, and the time when git diff shows a change. *)
Tag(t, now) ==
  IF t.change \in {"none", "untracked"} THEN <<t.head, 0>> ELSE <<t.head, now>>

Tags(lastRun) == {Latest, Pinned} \cup {<<h, n>> : h \in Heads, n \in 0..lastRun}

PartsOf(target) ==
  IF target = "gcp" THEN <<"app", "spark", "proxy">> ELSE <<"app", "spark">>

PartSet(target) == {PartsOf(target)[i] : i \in 1..Len(PartsOf(target))}

(* What the build script pushes, in its order: of each part the version, then latest. *)
Pushes(target) ==
  LET parts == PartsOf(target)
  IN  [i \in 1..(2 * Len(parts)) |->
        [part |-> parts[(i + 1) \div 2], latest |-> i % 2 = 0]]

HasLatest(repos, parts) == \A p \in parts : Latest \in DOMAIN repos[p]

(* get_image_tags: the versions that are tags of the digest of app:latest. *)
Versions(repos) ==
  {v \in DOMAIN repos["app"] \ {Latest} :
     Latest \in DOMAIN repos["app"] /\ repos["app"][v] = repos["app"][Latest]}

(* A tag of a repository is set or moved. *)
Put(repo, tag, image) == [v \in DOMAIN repo \cup {tag} |-> IF v = tag THEN image ELSE repo[v]]

Tagged(repos, part, tag, image) == [repos EXCEPT ![part] = Put(@, tag, image)]
=============================================================================
