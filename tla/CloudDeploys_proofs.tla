------------------------ MODULE CloudDeploys_proofs ------------------------
(* Theorems about what the deploys of the program rely on: the phases, the      *)
(* credentials and the data of a deploy to GCP, whatever tools follow one        *)
(* another and wherever they stop, and the images that a deploy to any target     *)
(* builds, skips, pushes and settles on.                                           *)
EXTENDS GcpLifecycle, ImageRelease, SequenceTheorems, FiniteSetTheorems, TLAPS

-----------------------------------------------------------------------------
(* GCP: the inductive invariant.                                              *)

(* The phases that come after the database is set up. *)
Afterwards == AppStacks \cup {"build"}

(* A deploy comes to its application only by way of the set-up. *)
SetupAhead == \E i \in DOMAIN queue :
  queue[i] = "setup" /\ \A j \in 1..i : queue[j] \notin Afterwards

QueueInv ==
  /\ tool = "idle" => queue = << >> /\ stage = "none" /\ ~force
  /\ stage = "none" => step = "prepare" /\ cur = 0
  /\ stage # "none" => /\ tool = "deploy"
                       /\ \A i \in DOMAIN queue : queue[i] \in Afterwards \cup {"setup"}
  /\ stage \in {"full", "verify", "failed"} => Phase = "setup"
  /\ tool = "deploy" =>
       /\ stage \notin {"ok", "recovered"} => SetupAhead
       /\ \A i, j \in DOMAIN queue :
            queue[i] = "setup" /\ i <= j => queue[j] \in Afterwards \cup {"setup"}
  /\ stage \in {"full", "verify"} /\ step # "prepare" => "durable" \in up
  /\ stage \in {"ok", "recovered"} => "durable" \in up

(* A teardown comes to the network only by way of what stands on it, and the  *)
(* four phases that take the instance down come together.                         *)
TeardownInv ==
  tool = "teardown" =>
    /\ \A i, j \in DOMAIN queue : queue[i] = "durable" /\ queue[j] = "durable" => i = j
    /\ \A i \in DOMAIN queue : queue[i] = "sql" => i + 3 \in DOMAIN queue /\ queue[i + 3] = "durable"
    /\ \A j \in DOMAIN queue : queue[j] = "durable" =>
         \A s \in AppStacks \cap up : s \in left \/ \E i \in 1..(j - 1) : queue[i] = s

StackInv == TeardownInv /\ NothingUnderneath /\ PeeringTracked

(* That an execution is past its start shows that the password is the right one. *)
Proven == sql = "up" /\ secret = password

CredInv ==
  /\ cur # 0 /\ stage \in {"full", "verify"} /\ execs[cur].at \notin {"start", "failed"} => Proven
  /\ stage \in {"full", "verify"} /\ step = "poll" => cur # 0
  /\ stage \in {"full", "verify"} /\ step = "read" => cur # 0 /\ execs[cur].at = "succeeded"
  /\ stage \in {"ok", "recovered"} => Proven

(* What an execution may do follows from its mode, and that from who asked for it. *)
ModeOf(e) ==
  /\ e.at \in {"dropEmb", "dropRaw"} => e.mode = "force"
  /\ e.mode = "force" /\ ~Ended(e) => e.asked
  /\ e.at = "count" => e.mode = "verify"
  /\ e.mode = "verify" => e.at \in {"start", "count", "succeeded", "failed"}
  /\ e.bad => e.at = "sync"

ModeInv ==
  /\ stage \in {"full", "verify"} /\ step = "execute" =>
       job \in Modes /\ (job = "force" => force) /\ (stage = "full" => job # "verify")
  /\ \A i \in DOMAIN execs : ModeOf(execs[i])

(* An execution that will not succeed, and one that will only with all the rows *)
(* and vectors of the file in place, whatever is lost until then.                    *)
Doomed(e) == e.mode # "verify" /\ (e.at = "failed" \/ e.bad)

(* The rows of the file that no user has deleted. *)
KeptRows == Csv \ deleted

Reloads(e) ==
  \/ e.mode = "force" /\ e.at \in {"dropRaw", "schema", "raw"}
  \/ e.mode = "force" /\ e.at = "embed" /\ KeptRows \subseteq raw
  \/ /\ e.at = "sync" /\ ~e.bad /\ e.mode # "verify"
     /\ KeptRows \subseteq raw \cap emb /\ KeptRows \subseteq vec \cup e.todo

Excused == upset \/ \E i \in DOMAIN execs : Doomed(execs[i]) \/ Reloads(execs[i])

(* Without any of these a database with a row is whole, and the load of the deploy *)
(* has put one there.                                                                  *)
LoadInv ==
  /\ ~Excused => emb = {} \/ KeptRows \subseteq raw \cap vec
  /\ ~Excused => raw = {} \/ KeptRows \subseteq raw
  /\ cur # 0 /\ stage = "full" =>
       /\ execs[cur].mode # "verify"
       /\ execs[cur].at = "embed" => Excused \/ KeptRows \subseteq raw
       /\ execs[cur].at \in {"sync", "succeeded"} => Excused \/ emb # {} \/ KeptRows = {}
  /\ stage = "ok" => Excused \/ emb # {} \/ KeptRows = {}

GcpInv == GcpTypeOK /\ QueueInv /\ StackInv /\ CredInv /\ ModeInv /\ LoadInv

-----------------------------------------------------------------------------
(* Sequences of phases. *)

LEMMA TailFacts ==
  ASSUME NEW S, NEW q \in Seq(S), q # << >>
  PROVE  /\ Tail(q) \in Seq(S) /\ Len(Tail(q)) = Len(q) - 1 /\ Head(q) = q[1] /\ 1 \in DOMAIN q
         /\ \A i \in DOMAIN Tail(q) : i \in Nat /\ i + 1 \in DOMAIN q /\ Tail(q)[i] = q[i + 1]
         /\ \A i \in DOMAIN q : i \in Nat /\ i >= 1 /\ (i # 1 => i - 1 \in DOMAIN Tail(q))
  OBVIOUS

LEMMA DropFourFacts ==
  ASSUME NEW S, NEW q \in Seq(S), Len(q) >= 4
  PROVE  /\ SubSeq(q, 5, Len(q)) \in Seq(S)
         /\ \A i \in DOMAIN SubSeq(q, 5, Len(q)) :
              i \in Nat /\ i >= 1 /\ i + 4 \in DOMAIN q /\ SubSeq(q, 5, Len(q))[i] = q[i + 4]
  OBVIOUS

LEMMA ScopeFacts ==
  ASSUME NEW scope \in Scopes
  PROVE  /\ scope \in {<<"kube">>, <<"nonkube">>, <<"nonkube", "kube">>}
         /\ scope \in Seq(AppStacks) /\ Len(scope) \in 1..2
         /\ Len(scope) = 2 => scope = <<"nonkube", "kube">>
  <1>1. scope \in {<<"kube">>, <<"nonkube">>, <<"nonkube", "kube">>}
    BY ScopesAssumption
  <1>2. CASE scope = <<"kube">>
    BY <1>2 DEF AppStacks
  <1>3. CASE scope = <<"nonkube">>
    BY <1>3 DEF AppStacks
  <1>4. CASE scope = <<"nonkube", "kube">>
    BY <1>4 DEF AppStacks
  <1> QED BY <1>1, <1>2, <1>3, <1>4

LEMMA DeployPhasesFacts ==
  ASSUME NEW scope \in Scopes, NEW q, q = DeployPhases(scope)
  PROVE  /\ q \in Seq(Phases) /\ 5 \in DOMAIN q
         /\ q[5] = "setup" /\ \A i \in 1..5 : q[i] \notin Afterwards /\ (i # 5 => q[i] # "setup")
         /\ \A i \in DOMAIN q : 5 <= i => q[i] \in Afterwards \cup {"setup"}
  <1> DEFINE p == <<"cooloff", "secrets", "durable", "nondurable", "setup", "build">>
  <1>1. q = p \o scope /\ scope \in Seq(Phases) /\ p \in Seq(Phases) /\ Len(p) = 6
    BY ScopeFacts DEF DeployPhases, Phases, Stacks, AppStacks
  <1>2. /\ q \in Seq(Phases) /\ Len(q) = 6 + Len(scope)
        /\ \A i \in 1..(6 + Len(scope)) : q[i] = IF i <= 6 THEN p[i] ELSE scope[i - 6]
    BY <1>1, ConcatProperties
  <1>3. /\ p[1] = "cooloff" /\ p[2] = "secrets" /\ p[3] = "durable" /\ p[4] = "nondurable"
        /\ p[5] = "setup" /\ p[6] = "build"
    OBVIOUS
  <1> HIDE DEF p
  <1>4. Len(scope) \in 1..2 /\ DOMAIN q = 1..(6 + Len(scope)) /\ \A i \in 1..Len(scope) : scope[i] \in AppStacks
    BY <1>2, ScopeFacts
  <1>5. ASSUME NEW i \in 1..5 PROVE q[i] \notin Afterwards /\ (i # 5 => q[i] # "setup")
    <2>1. i \in {1, 2, 3, 4, 5} /\ q[i] = p[i]
      BY <1>2, <1>4
    <2> QED BY <1>3, <2>1 DEF Afterwards, AppStacks
  <1>6. ASSUME NEW i \in DOMAIN q, 5 <= i PROVE q[i] \in Afterwards \cup {"setup"}
    <2>1. CASE i \in {5, 6}
      BY <1>2, <1>3, <1>4, <2>1 DEF Afterwards
    <2>2. CASE i \notin {5, 6}
      <3>1. i - 6 \in 1..Len(scope) /\ ~(i <= 6)
        BY <1>4, <1>6, <2>2
      <3>2. q[i] = scope[i - 6]
        BY <1>2, <1>4, <3>1
      <3> QED BY <1>4, <3>1, <3>2 DEF Afterwards
    <2> QED BY <2>1, <2>2
  <1>7. q[5] = "setup" /\ 5 \in DOMAIN q
    BY <1>2, <1>3, <1>4
  <1> QED BY <1>2, <1>5, <1>6, <1>7

LEMMA TeardownPhasesFacts ==
  ASSUME NEW scope \in Scopes, NEW dura \in {"no", "incl", "all"}, dura # "no" => Len(scope) = 2,
         NEW q, q = TeardownPhases(scope, dura)
  PROVE  /\ q \in Seq(Phases)
         /\ \/ \A i \in DOMAIN q : q[i] \notin {"durable", "sql"}
            \/ /\ DOMAIN q \in {1..7, 1..8} /\ q[1] = "nonkube" /\ q[2] = "kube"
               /\ q[4] = "sql" /\ q[7] = "durable"
               /\ \A i \in DOMAIN q : (q[i] = "sql" => i = 4) /\ (q[i] = "durable" => i = 7)
  <1> DEFINE a == IF Len(scope) = 2 THEN <<"nondurable">> ELSE << >>
             b == IF dura # "no" THEN <<"sql", "gone", "peering", "durable">> ELSE << >>
             c == IF dura = "all" THEN <<"cooloff">> ELSE << >>
  <1>1. scope \in Seq(Phases) /\ a \in Seq(Phases) /\ b \in Seq(Phases) /\ c \in Seq(Phases)
    <2>1. /\ <<"nondurable">> \in Seq(Phases) /\ << >> \in Seq(Phases) /\ <<"cooloff">> \in Seq(Phases)
          /\ <<"sql", "gone", "peering", "durable">> \in Seq(Phases)
      BY DEF Phases, Stacks
    <2>2. scope \in Seq(Phases)
      BY ScopeFacts DEF Phases, Stacks, AppStacks
    <2> QED BY <2>1, <2>2
  <1>2. q = ((scope \o a) \o b) \o c
    BY DEF TeardownPhases
  <1>3. \A x, y \in Seq(Phases) :
          /\ x \o y \in Seq(Phases) /\ Len(x \o y) = Len(x) + Len(y)
          /\ \A i \in 1..(Len(x) + Len(y)) : (x \o y)[i] = IF i <= Len(x) THEN x[i] ELSE y[i - Len(x)]
    BY ConcatProperties
  <1>4. /\ Len(scope) \in 1..2
        /\ \A i \in 1..Len(scope) : scope[i] \in AppStacks
        /\ Len(scope) = 2 => scope[1] = "nonkube" /\ scope[2] = "kube"
    BY ScopeFacts
  <1>5. /\ Len(a) = (IF Len(scope) = 2 THEN 1 ELSE 0) /\ (Len(scope) = 2 => a[1] = "nondurable")
        /\ Len(b) = (IF dura # "no" THEN 4 ELSE 0)
        /\ dura # "no" => b[1] = "sql" /\ b[2] = "gone" /\ b[3] = "peering" /\ b[4] = "durable"
        /\ Len(c) = (IF dura = "all" THEN 1 ELSE 0) /\ (dura = "all" => c[1] = "cooloff")
    OBVIOUS
  <1> HIDE DEF a, b, c
  <1> DEFINE s == scope \o a
  <1>6. /\ s \in Seq(Phases) /\ Len(s) = Len(scope) + Len(a)
        /\ \A i \in 1..Len(s) : s[i] \in AppStacks \cup {"nondurable"}
        /\ Len(scope) = 2 => Len(s) = 3 /\ s[1] = "nonkube" /\ s[2] = "kube" /\ s[3] = "nondurable"
    <2>1. /\ s \in Seq(Phases) /\ Len(s) = Len(scope) + Len(a)
          /\ \A i \in 1..(Len(scope) + Len(a)) : s[i] = IF i <= Len(scope) THEN scope[i] ELSE a[i - Len(scope)]
      BY <1>1, <1>3
    <2>2. CASE Len(scope) = 2
      BY <1>4, <1>5, <2>1, <2>2
    <2>3. CASE Len(scope) = 1
      BY SMTT(30), <1>4, <1>5, <2>1, <2>3
    <2> QED BY <1>4, <2>1, <2>2, <2>3 DEF AppStacks
  <1> HIDE DEF s
  <1> DEFINE t == s \o b
  <1>7. /\ t \in Seq(Phases)
        /\ dura = "no" => Len(t) = Len(s) /\ \A i \in 1..Len(t) : t[i] \in AppStacks \cup {"nondurable"}
        /\ dura # "no" => /\ Len(t) = 7 /\ t[1] = "nonkube" /\ t[2] = "kube" /\ t[3] = "nondurable"
                          /\ t[4] = "sql" /\ t[5] = "gone" /\ t[6] = "peering" /\ t[7] = "durable"
    <2>1. /\ t \in Seq(Phases) /\ Len(t) = Len(s) + Len(b)
          /\ \A i \in 1..(Len(s) + Len(b)) : t[i] = IF i <= Len(s) THEN s[i] ELSE b[i - Len(s)]
      BY <1>1, <1>3, <1>6
    <2>2. CASE dura = "no"
      BY <1>5, <1>6, <2>1, <2>2
    <2>3. CASE dura # "no"
      BY <1>5, <1>6, <2>1, <2>3
    <2> QED BY <2>1, <2>2, <2>3
  <1> HIDE DEF t
  <1>8. /\ q \in Seq(Phases) /\ Len(q) = Len(t) + Len(c) /\ DOMAIN q = 1..(Len(t) + Len(c))
        /\ \A i \in 1..(Len(t) + Len(c)) : q[i] = IF i <= Len(t) THEN t[i] ELSE c[i - Len(t)]
    <2>1. q = t \o c
      BY <1>2 DEF s, t
    <2> QED BY <1>1, <1>3, <1>7, <2>1
  <1>9. CASE dura = "no"
    <2>1. Len(t) \in Nat
      BY <1>7
    <2> QED BY <1>5, <1>7, <1>8, <1>9, <2>1 DEF AppStacks
  <1>10. CASE dura # "no"
    <2>1. DOMAIN q \in {1..7, 1..8} /\ (8 \in DOMAIN q => q[8] = "cooloff")
      <3>1. CASE dura = "all"
        <4>0. Len(t) = 7
          BY <1>7, <1>10
        <4>1. Len(t) = 7 /\ Len(c) = 1 /\ c[1] = "cooloff" /\ Len(t) + Len(c) = 8
          BY <1>5, <3>1, <4>0
        <4>2. DOMAIN q = 1..8
          BY <1>8, <4>1
        <4>3. 8 \in 1..8 /\ ~(8 <= 7) /\ 8 - 7 = 1
          OBVIOUS
        <4>4. q[8] = c[1]
          BY <1>8, <4>1, <4>3
        <4> QED BY <4>1, <4>2, <4>4
      <3>2. CASE dura # "all"
        <4>1. Len(t) = 7 /\ Len(c) = 0 /\ Len(t) + Len(c) = 7
          BY <1>5, <1>7, <1>10, <3>2
        <4>2. DOMAIN q = 1..7 /\ 8 \notin 1..7
          BY <1>8, <4>1
        <4> QED BY <4>2
      <3> QED BY <3>1, <3>2
    <2>2. /\ q[1] = "nonkube" /\ q[2] = "kube" /\ q[3] = "nondurable" /\ q[4] = "sql"
          /\ q[5] = "gone" /\ q[6] = "peering" /\ q[7] = "durable"
      BY <1>5, <1>7, <1>8, <1>10
    <2>3. ASSUME NEW i \in DOMAIN q
          PROVE  (q[i] = "sql" => i = 4) /\ (q[i] = "durable" => i = 7)
      <3>1. i \in {1, 2, 3, 4, 5, 6, 7, 8}
        BY <2>1
      <3> QED BY <2>1, <2>2, <3>1
    <2>4. q \in Seq(Phases) /\ DOMAIN q \in {1..7, 1..8}
      BY <1>8, <2>1
    <2> QED BY <2>2, <2>3, <2>4, Zenon
  <1> QED BY <1>9, <1>10

-----------------------------------------------------------------------------
(* Executions. *)

Execs == [mode : Modes, asked : BOOLEAN, todo : SUBSET Rows, bad : BOOLEAN,
          at : {"start", "dropEmb", "dropRaw", "schema", "raw", "embed", "sync",
                "count", "succeeded", "failed"}]

LEMMA RowsFinite ==
  /\ IsFiniteSet(Rows) /\ Cardinality(Rows) \in Nat
  /\ \A s \in SUBSET Rows : Cardinality(s) \in 0..Cardinality(Rows)
  <1>1. IsFiniteSet(Rows)
    BY RowsAssumption, FS_Union DEF Rows
  <1>2. ASSUME NEW s \in SUBSET Rows PROVE Cardinality(s) \in 0..Cardinality(Rows)
    <2>1. IsFiniteSet(s) /\ Cardinality(s) <= Cardinality(Rows)
      BY <1>1, FS_Subset
    <2> QED BY <1>1, <2>1, FS_CardinalityType
  <1> QED BY <1>1, <1>2, FS_CardinalityType

LEMMA ExecChanged ==
  ASSUME execs \in Seq(Execs), NEW i \in DOMAIN execs, NEW e \in Execs,
         execs' = [execs EXCEPT ![i] = e]
  PROVE  /\ execs' \in Seq(Execs) /\ Len(execs') = Len(execs) /\ DOMAIN execs' = DOMAIN execs
         /\ execs'[i] = e /\ \A k \in DOMAIN execs : k # i => execs'[k] = execs[k]
  <1>1. execs' \in Seq(Execs) /\ Len(execs') = Len(execs)
    BY ExceptSeq
  <1>2. DOMAIN execs' = DOMAIN execs
    BY <1>1
  <1> QED BY <1>1, <1>2

LEMMA Went ==
  ASSUME NEW i \in DOMAIN execs, execs \in Seq(Execs), NEW where \in
             {"start", "dropEmb", "dropRaw", "schema", "raw", "embed", "sync", "count"},
         Go(i, where)
  PROVE  /\ execs' \in Seq(Execs) /\ Len(execs') = Len(execs) /\ DOMAIN execs' = DOMAIN execs
         /\ execs'[i] \in Execs /\ execs'[i].at = where
         /\ execs'[i].mode = execs[i].mode /\ execs'[i].asked = execs[i].asked
         /\ execs'[i].todo = execs[i].todo /\ execs'[i].bad = execs[i].bad
         /\ \A k \in DOMAIN execs : k # i => execs'[k] = execs[k]
  <1> DEFINE e == [execs[i] EXCEPT !.at = where]
  <1>1. execs[i] \in Execs
    OBVIOUS
  <1>2. e \in Execs /\ e.at = where /\ e.mode = execs[i].mode /\ e.asked = execs[i].asked
        /\ e.todo = execs[i].todo /\ e.bad = execs[i].bad
    BY <1>1 DEF Execs
  <1>3. execs' = [execs EXCEPT ![i] = e]
    BY DEF Go
  <1> HIDE DEF e
  <1> QED BY <1>2, <1>3, ExecChanged

LEMMA Over ==
  ASSUME NEW i \in DOMAIN execs, execs \in Seq(Execs), NEW how \in {"succeeded", "failed"}, End(i, how)
  PROVE  /\ execs' \in Seq(Execs) /\ Len(execs') = Len(execs) /\ DOMAIN execs' = DOMAIN execs
         /\ execs'[i] \in Execs /\ execs'[i].at = how
         /\ execs'[i].mode = execs[i].mode /\ ~execs'[i].bad
         /\ \A k \in DOMAIN execs : k # i => execs'[k] = execs[k]
  <1> DEFINE e == [Execution(execs[i].mode, FALSE) EXCEPT !.at = how]
  <1>1. execs[i] \in Execs
    OBVIOUS
  <1>2. e \in Execs /\ e.at = how /\ e.mode = execs[i].mode /\ ~e.bad
    BY <1>1 DEF Execs, Execution
  <1>3. execs' = [execs EXCEPT ![i] = e]
    BY DEF End
  <1> HIDE DEF e
  <1> QED BY <1>2, <1>3, ExecChanged

(* What a step of an execution changes. *)
LEMMA ExecFacts ==
  ASSUME GcpTypeOK, ModeInv, NEW i \in DOMAIN execs, Execute(i)
  PROVE  /\ execs' \in Seq(Execs) /\ Len(execs') = Len(execs) /\ DOMAIN execs' = DOMAIN execs
         /\ execs'[i] \in Execs /\ execs'[i].mode = execs[i].mode
         /\ \A k \in DOMAIN execs : k # i => execs'[k] = execs[k]
         /\ ModeOf(execs'[i])
         /\ ~Ended(execs[i])
         /\ execs[i].at = "start" => execs'[i].at = "failed" \/ Proven
         /\ UNCHANGED <<sql, password, secret>>
         /\ tables' \subseteq {"raw", "emb"} /\ raw' \subseteq Rows /\ vec' \subseteq emb' /\ emb' \subseteq Rows
         /\ lines' \subseteq 0..Cardinality(Rows) /\ upset' \in BOOLEAN /\ deleted' \subseteq Csv /\ calls' \in 0..MaxCalls
         /\ execs[i].at \notin {"dropEmb", "dropRaw"} => vec \subseteq vec' /\ raw \subseteq raw'
  <1>0. /\ execs \in Seq(Execs) /\ execs[i] \in Execs /\ ModeOf(execs[i])
        /\ tables \subseteq {"raw", "emb"} /\ raw \subseteq Rows /\ vec \subseteq emb /\ emb \subseteq Rows
        /\ lines \subseteq 0..Cardinality(Rows) /\ upset \in BOOLEAN /\ deleted \subseteq Csv /\ calls \in 0..MaxCalls
    <2>1. execs \in Seq(Execs)
      BY DEF GcpTypeOK, DbTypeOK, Execs
    <2> QED BY <2>1 DEF GcpTypeOK, DbTypeOK, ModeInv
  <1>c. Cardinality(emb) \in 0..Cardinality(Rows)
    BY <1>0, RowsFinite
  <1>csv. Csv \subseteq Rows
    BY DEF Rows
  <1>1. CASE Die(i)
    <2>1. End(i, "failed") /\ ~Ended(execs[i]) /\ UNCHANGED <<sql, password, secret, tables, raw, emb, vec, upset, deleted, calls, lines>>
      BY <1>1 DEF Die, dataVars
    <2> QED BY <1>0, <2>1, Over DEF ModeOf, Ended
  <1>2. CASE Connect(i)
    <2> DEFINE where == CASE execs[i].mode = "verify" -> "count"
                          [] execs[i].mode = "force" -> "dropEmb"
                          [] execs[i].mode = "load" -> "schema"
    <2>1. /\ Go(i, where) /\ At(i, "start") /\ Proven
          /\ UNCHANGED <<sql, password, secret, tables, raw, emb, vec, upset, deleted, calls, lines>>
      BY <1>2 DEF Connect, dataVars, Proven
    <2>2. /\ where \in {"count", "dropEmb", "schema"}
          /\ where = "count" <=> execs[i].mode = "verify"
          /\ where = "dropEmb" <=> execs[i].mode = "force"
      BY <1>0 DEF Execs, Modes
    <2> HIDE DEF where
    <2>3. /\ execs' \in Seq(Execs) /\ Len(execs') = Len(execs) /\ DOMAIN execs' = DOMAIN execs
          /\ execs'[i] \in Execs /\ execs'[i].at = where
          /\ execs'[i].mode = execs[i].mode /\ execs'[i].asked = execs[i].asked
          /\ execs'[i].bad = execs[i].bad
          /\ \A k \in DOMAIN execs : k # i => execs'[k] = execs[k]
      BY <1>0, <2>1, <2>2, Went
    <2>4. ModeOf(execs'[i]) /\ ~Ended(execs[i])
      BY <1>0, <2>1, <2>2, <2>3 DEF ModeOf, Ended, At
    <2> QED BY <1>0, <2>1, <2>3, <2>4
  <1>3. CASE Count(i) \/ SkipLoad(i) \/ FinishSync(i)
    <2>1. /\ End(i, "succeeded") /\ execs[i].at \in {"count", "embed", "sync"}
          /\ lines' = lines \cup ({Cardinality(emb)} \cap {Expected})
          /\ UNCHANGED <<sql, password, secret, tables, raw, emb, vec>> /\ upset' \in BOOLEAN /\ deleted' \subseteq Csv /\ calls' \in 0..MaxCalls
      BY <1>0, <1>3 DEF Count, SkipLoad, FinishSync, Emit, At, dataVars
    <2> QED BY <1>0, <1>c, <2>1, Over DEF ModeOf, Ended
  <1>4. CASE DropEmb(i) \/ DropRaw(i) \/ ApplySchema(i) \/ LoadRaw(i)
    <2>1. PICK where \in {"dropRaw", "schema", "raw", "embed"} :
            /\ Go(i, where)
            /\ where = "dropRaw" => execs[i].at = "dropEmb"
            /\ execs[i].at \in {"dropEmb", "dropRaw", "schema", "raw"}
      BY <1>4 DEF DropEmb, DropRaw, ApplySchema, LoadRaw, At
    <2>2. /\ UNCHANGED <<sql, password, secret, lines, upset, deleted, calls>>
          /\ tables' \subseteq {"raw", "emb"} /\ raw' \subseteq Rows /\ vec' \subseteq emb' /\ emb' \subseteq Rows
          /\ execs[i].at \notin {"dropEmb", "dropRaw"} => vec \subseteq vec' /\ raw \subseteq raw'
      <3>1. CASE DropEmb(i)
        BY <1>0, <3>1 DEF DropEmb, At
      <3>2. CASE DropRaw(i)
        BY <1>0, <3>2 DEF DropRaw, At
      <3>3. CASE ApplySchema(i)
        BY <1>0, <3>3 DEF ApplySchema, At
      <3>4. CASE LoadRaw(i)
        BY <1>0, <1>csv, <3>4 DEF LoadRaw, At
      <3> QED BY <1>4, <3>1, <3>2, <3>3, <3>4
    <2>3. /\ execs' \in Seq(Execs) /\ Len(execs') = Len(execs) /\ DOMAIN execs' = DOMAIN execs
          /\ execs'[i] \in Execs /\ execs'[i].at = where
          /\ execs'[i].mode = execs[i].mode /\ execs'[i].asked = execs[i].asked
          /\ execs'[i].bad = execs[i].bad
          /\ \A k \in DOMAIN execs : k # i => execs'[k] = execs[k]
      BY <1>0, <2>1, Went
    <2>4. ModeOf(execs'[i]) /\ ~Ended(execs[i])
      BY <1>0, <2>1, <2>3 DEF ModeOf, Ended
    <2> QED BY <1>0, <2>1, <2>2, <2>3, <2>4
  <1>5. CASE CopyScalars(i)
    <2> DEFINE e == [execs[i] EXCEPT !.at = "sync", !.todo = emb \cup raw]
    <2>1. /\ e \in Execs /\ e.mode = execs[i].mode /\ e.asked = execs[i].asked
          /\ e.at = "sync" /\ e.bad = execs[i].bad
      BY <1>0 DEF Execs
    <2>2. execs' = [execs EXCEPT ![i] = e] /\ execs[i].at = "embed"
      <3>1. execs' = [execs EXCEPT ![i].at = "sync", ![i].todo = emb \cup raw]
        BY <1>5 DEF CopyScalars
      <3> QED BY <1>0, <1>5, <3>1 DEF CopyScalars, At
    <2> HIDE DEF e
    <2>3. /\ execs' \in Seq(Execs) /\ Len(execs') = Len(execs) /\ DOMAIN execs' = DOMAIN execs
          /\ execs'[i] = e /\ \A k \in DOMAIN execs : k # i => execs'[k] = execs[k]
      BY <1>0, <2>1, <2>2, ExecChanged
    <2>4. /\ UNCHANGED <<sql, password, secret, tables, raw, vec, lines, upset, deleted, calls>> /\ emb' = emb \cup raw
      BY <1>5 DEF CopyScalars
    <2>5. ModeOf(execs'[i]) /\ ~Ended(execs[i])
      BY <1>0, <2>1, <2>2, <2>3 DEF ModeOf, Ended
    <2> QED BY <1>0, <2>1, <2>2, <2>3, <2>4, <2>5
  <1>6. CASE SyncRow(i)
    <2>1. PICK e \in Execs : /\ execs' = [execs EXCEPT ![i] = e]
                             /\ e.mode = execs[i].mode /\ e.asked = execs[i].asked /\ e.at = "sync"
      <3> DEFINE r == Min(execs[i].todo)
                 d == [execs[i] EXCEPT !.todo = @ \ {r}]
                 b == [execs[i] EXCEPT !.todo = @ \ {r}, !.bad = TRUE]
      <3>1. execs[i].at = "sync" /\ (execs' = [execs EXCEPT ![i] = d] \/ execs' = [execs EXCEPT ![i] = b])
        <4>1. \/ execs' = [execs EXCEPT ![i].todo = @ \ {r}]
              \/ execs' = [execs EXCEPT ![i].todo = @ \ {r}, ![i].bad = TRUE]
          BY <1>6 DEF SyncRow
        <4> HIDE DEF r
        <4> QED BY <1>0, <1>6, <4>1 DEF SyncRow, At
      <3> HIDE DEF r
      <3>2. /\ d \in Execs /\ d.mode = execs[i].mode /\ d.asked = execs[i].asked /\ d.at = execs[i].at
            /\ b \in Execs /\ b.mode = execs[i].mode /\ b.asked = execs[i].asked /\ b.at = execs[i].at
        BY <1>0 DEF Execs
      <3> QED BY <3>1, <3>2
    <2>2. /\ execs' \in Seq(Execs) /\ Len(execs') = Len(execs) /\ DOMAIN execs' = DOMAIN execs
          /\ execs'[i] = e /\ \A k \in DOMAIN execs : k # i => execs'[k] = execs[k]
      BY <1>0, <2>1, ExecChanged
    <2>3. /\ UNCHANGED <<sql, password, secret, tables, raw, emb, lines, upset, deleted, calls>> /\ execs[i].at = "sync"
          /\ vec \subseteq vec' /\ vec' \subseteq emb
      <3> DEFINE r == Min(execs[i].todo)
      <3>1. /\ UNCHANGED <<sql, password, secret, tables, raw, emb, lines, upset, deleted, calls>> /\ execs[i].at = "sync"
            /\ vec' = vec \cup Written(r) \/ vec' = vec
        BY <1>6 DEF SyncRow, At
      <3> HIDE DEF r
      <3> QED BY <1>0, <3>1 DEF Written
    <2>4. ModeOf(execs'[i]) /\ ~Ended(execs[i])
      BY <1>0, <2>1, <2>2, <2>3 DEF ModeOf, Ended
    <2> QED BY <1>0, <2>1, <2>2, <2>3, <2>4
  <1>7. CASE CopyAlone(i)
    <2>1. /\ Go(i, "sync") /\ execs[i].at = "embed" /\ emb' = emb \cup raw /\ upset' = TRUE
          /\ UNCHANGED <<sql, password, secret, tables, raw, vec, lines, deleted, calls>>
      BY <1>7 DEF CopyAlone, At
    <2>2. /\ execs' \in Seq(Execs) /\ Len(execs') = Len(execs) /\ DOMAIN execs' = DOMAIN execs
          /\ execs'[i] \in Execs /\ execs'[i].at = "sync"
          /\ execs'[i].mode = execs[i].mode /\ execs'[i].asked = execs[i].asked
          /\ \A k \in DOMAIN execs : k # i => execs'[k] = execs[k]
      BY <1>0, <2>1, Went
    <2>3. ModeOf(execs'[i]) /\ ~Ended(execs[i])
      BY <1>0, <2>1, <2>2 DEF ModeOf, Ended
    <2> QED BY <1>0, <2>1, <2>2, <2>3
  <1> QED BY <1>1, <1>2, <1>3, <1>4, <1>5, <1>6, <1>7 DEF Execute, Work

-----------------------------------------------------------------------------
(* Types. *)

LEMMA GcpInitInv == GcpInit => GcpInv
  <1> SUFFICES ASSUME GcpInit PROVE GcpInv
    OBVIOUS
  <1> USE DEF GcpInit, DbInit, SetupInit
  <1>1. execs = << >> /\ queue = << >> /\ DOMAIN execs = {} /\ DOMAIN queue = {} /\ Len(execs) = 0
    OBVIOUS
  <1>2. DbTypeOK
    <2>1. execs \in Seq(Execs)
      BY <1>1
    <2>2. calls \in 0..MaxCalls
      BY CallsAssumption
    <2> QED BY <2>1, <2>2 DEF DbTypeOK, Execs
  <1>3. SetupTypeOK
    BY <1>1 DEF SetupTypeOK
  <1>5. queue \in Seq(Phases) /\ tools \in 0..MaxTools
    BY <1>1, ScopesAssumption
  <1>6. GcpTypeOK
    BY <1>2, <1>3, <1>5 DEF GcpTypeOK
  <1>4. QueueInv /\ StackInv /\ CredInv /\ ModeInv /\ LoadInv
    BY <1>1 DEF QueueInv, StackInv, TeardownInv, NothingUnderneath, PeeringTracked, CredInv, ModeInv, LoadInv
  <1> QED BY <1>4, <1>6 DEF GcpInv

(* The queue of phases, one shorter. *)
LEMMA PassFacts ==
  ASSUME GcpTypeOK, Phase # "none", queue' = Rest
  PROVE  /\ queue # << >> /\ Phase = queue[1] /\ queue' \in Seq(Phases)
         /\ 1 \in DOMAIN queue
         /\ \A i \in DOMAIN queue' : i \in Nat /\ i >= 1 /\ i + 1 \in DOMAIN queue /\ queue'[i] = queue[i + 1]
         /\ \A i \in DOMAIN queue : i \in Nat /\ i >= 1 /\ (i # 1 => i - 1 \in DOMAIN queue')
  <1>1. queue \in Seq(Phases) /\ queue # << >> /\ Phase = Head(queue)
    BY DEF GcpTypeOK, Phase
  <1>2. \A i \in DOMAIN Tail(queue) : i >= 1
    BY <1>1
  <1> QED BY <1>1, <1>2, TailFacts DEF Rest

(* What a step of the set-up changes: at most it launches an execution. *)
LEMMA SetupFacts ==
  ASSUME GcpTypeOK, ModeInv, Setup
  PROVE  /\ SetupTypeOK' /\ execs' \in Seq(Execs)
         /\ UNCHANGED <<sql, password, secret, tables, raw, emb, vec, lines, upset, deleted, calls>>
         /\ stage \in {"full", "verify"}
         /\ Len(execs) <= Len(execs') /\ \A k \in DOMAIN execs : k \in DOMAIN execs' /\ execs'[k] = execs[k]
         /\ execs' = execs \/ (Launch /\ job \in Modes /\ execs' = Append(execs, Execution(job, force)))
  <1>1. execs \in Seq(Execs) /\ Len(execs) \in Nat
    BY DEF GcpTypeOK, DbTypeOK, Execs
  <1>2. CASE Prepare \/ Poll \/ Read
    <2>1. UNCHANGED dbVars
      BY <1>2 DEF Prepare, Poll, Read
    <2>2. SetupTypeOK'
      BY <1>1, <1>2, <2>1 DEF Prepare, Poll, Read, GoTo, Raise, Failed, Finish, GcpTypeOK, SetupTypeOK,
                             ModeSet, Wanted, Modes, dbVars
    <2>3. stage \in {"full", "verify"}
      BY <1>2 DEF Prepare, Poll, Read
    <2> QED BY <1>1, <2>1, <2>2, <2>3 DEF dbVars, dataVars
  <1>3. CASE Launch
    <2>1. /\ UNCHANGED <<sql, password, secret, tables, raw, emb, vec, lines, upset, deleted, calls, job>>
          /\ stage \in {"full", "verify"} /\ step = "execute"
      BY <1>3 DEF Launch, dataVars
    <2>2. job \in Modes /\ force \in BOOLEAN /\ SetupTypeOK
      BY <2>1 DEF GcpTypeOK, ModeInv
    <2>3. CASE execs' = execs /\ Raise
      BY <1>1, <2>1, <2>2, <2>3 DEF Raise, Finish, SetupTypeOK
    <2>4. CASE execs' = Append(execs, Execution(job, force)) /\ (Raise \/ (GoTo("poll") /\ cur' = Len(execs')))
      <3>1. Execution(job, force) \in Execs
        BY <2>2 DEF Execution, Execs
      <3>2. execs' \in Seq(Execs) /\ Len(execs') = Len(execs) + 1
            /\ \A k \in DOMAIN execs : k \in DOMAIN execs' /\ execs'[k] = execs[k]
        BY <1>1, <2>4, <3>1
      <3>3. SetupTypeOK'
        BY <1>1, <2>1, <2>2, <2>4, <3>2 DEF Raise, Finish, GoTo, SetupTypeOK
      <3> QED BY <1>1, <1>3, <2>1, <2>2, <2>4, <3>2, <3>3
    <2> QED BY <1>3, <2>3, <2>4 DEF Launch
  <1> QED BY <1>2, <1>3 DEF Setup

LEMMA GcpTypeInv ==
  ASSUME GcpInv, [GcpNext]_gcpVars
  PROVE  GcpTypeOK'
  <1>0. /\ GcpTypeOK /\ ModeInv /\ DbTypeOK /\ SetupTypeOK /\ execs \in Seq(Execs) /\ queue \in Seq(Phases)
        /\ tool \in {"idle", "deploy", "teardown"} /\ tools \in 0..MaxTools
        /\ tool = "idle" => queue = << >> /\ stage = "none" /\ ~force
        /\ stage # "none" => tool = "deploy"
        /\ up \subseteq Stacks /\ left \subseteq Stacks
        /\ force \in BOOLEAN /\ bucket \in BOOLEAN /\ peering \in BOOLEAN /\ tracked \in BOOLEAN /\ env \in Passwords
    BY DEF GcpInv, GcpTypeOK, DbTypeOK, Execs
  <1>d. ASSUME UNCHANGED dbVars PROVE DbTypeOK'
    BY <1>0, <1>d DEF DbTypeOK, dbVars
  <1>s. ASSUME UNCHANGED setupVars, execs' = execs PROVE SetupTypeOK'
    BY <1>0, <1>s DEF SetupTypeOK, setupVars
  <1>c. ASSUME UNCHANGED cloudVars
        PROVE  up' \subseteq Stacks /\ left' \subseteq Stacks /\ bucket' \in BOOLEAN /\ peering' \in BOOLEAN
               /\ tracked' \in BOOLEAN /\ env' \in Passwords
    BY <1>0, <1>c DEF cloudVars
  (* What is left of a tool, after a phase or at its end. *)
  <1>p. ASSUME Pass \/ Stop, execs' = execs, Phase # "none" \/ Stop
        PROVE  /\ SetupTypeOK' /\ tool' \in {"idle", "deploy", "teardown"} /\ queue' \in Seq(Phases)
               /\ tools' \in 0..MaxTools /\ force' \in BOOLEAN
               /\ (tool = "idle" => queue = << >> /\ stage = "none" /\ ~force)'
               /\ (stage # "none" => tool = "deploy")'
    <2>1. CASE Stop
      <3>1. queue' \in Seq(Phases)
        BY <2>1 DEF Stop
      <3>2. SetupTypeOK'
        BY <1>0, <1>p, <2>1 DEF Stop, SetupTypeOK
      <3> QED BY <1>0, <2>1, <3>1, <3>2 DEF Stop
    <2>2. CASE Pass /\ Phase # "none"
      <3>1. queue' \in Seq(Phases) /\ queue # << >>
        BY <1>0, <2>2, PassFacts DEF Pass
      <3>2. SetupTypeOK'
        BY <1>p, <1>s, <2>2 DEF Pass
      <3> QED BY <1>0, <2>2, <3>1, <3>2 DEF Pass, setupVars
    <2> QED BY <1>p, <2>1, <2>2
  <1>1. CASE StartDeploy
    <2>1. PICK scope \in Scopes, f \in BOOLEAN : tool' = "deploy" /\ queue' = DeployPhases(scope) /\ force' = f
      BY <1>1 DEF StartDeploy
    <2>2. queue' \in Seq(Phases)
      BY <2>1, DeployPhasesFacts
    <2>3. tools' \in 0..MaxTools
      BY <1>0, <1>1, ScopesAssumption DEF StartDeploy
    <2>4. /\ UNCHANGED <<dbVars, setupVars, up, peering, tracked, env, left>> /\ bucket' = TRUE
      BY <1>1 DEF StartDeploy, EnsureBucket
    <2> QED BY <1>0, <1>d, <1>s, <2>1, <2>2, <2>3, <2>4 DEF GcpTypeOK, dbVars
  <1>2. CASE StartTeardown
    <2>1. PICK scope \in Scopes, dura \in {"no", "incl", "all"} :
            (dura # "no" => Len(scope) = 2) /\ queue' = TeardownPhases(scope, dura)
      BY <1>2 DEF StartTeardown
    <2>2. queue' \in Seq(Phases)
      BY <2>1, TeardownPhasesFacts
    <2>3. tools' \in 0..MaxTools
      BY <1>0, <1>2, ScopesAssumption DEF StartTeardown
    <2>4. /\ UNCHANGED <<dbVars, setupVars, force, cloudVars>> /\ tool' = "teardown" /\ stage = "none"
      BY <1>0, <1>2 DEF StartTeardown
    <2> QED BY <1>0, <1>c, <1>d, <1>s, <2>2, <2>3, <2>4 DEF GcpTypeOK, dbVars, setupVars
  <1>3. CASE RaiseOut \/ Through \/ PlanFails \/ EndSetup \/ BuildPhase \/ WaitGone
    <2>1. (Pass \/ Stop) /\ (Phase # "none" \/ Stop) /\ UNCHANGED <<dbVars, cloudVars>>
      BY <1>3 DEF RaiseOut, Through, PlanFails, EndSetup, BuildPhase, WaitGone, Stacks
    <2> QED BY <1>c, <1>d, <1>p, <2>1 DEF GcpTypeOK, dbVars
  <1>4. CASE NewPassword
    <2>1. env' \in Passwords /\ UNCHANGED <<dbVars, setupVars, force, tool, queue, tools, up, bucket, peering, tracked, left>>
      BY <1>4 DEF NewPassword
    <2> QED BY <1>0, <1>d, <1>s, <2>1 DEF GcpTypeOK, dbVars, setupVars
  <1>5. CASE ApplyShared \/ ApplyApp
    <2>1. /\ (Pass \/ Stop) /\ Phase \in Stacks /\ Phase # "none"
          /\ UNCHANGED <<dbVars, bucket, peering, tracked, env>>
          /\ up' = up \cup {Phase} /\ left' = left \ {Phase}
      BY <1>5 DEF ApplyShared, ApplyApp, Bootstrap, Stacks, AppStacks
    <2>2. up' \subseteq Stacks /\ left' \subseteq Stacks
      BY <1>0, <1>5, <2>1 DEF ApplyShared, ApplyApp, Stacks, AppStacks
    <2> QED BY <1>0, <1>5, <1>d, <1>p, <2>1, <2>2 DEF GcpTypeOK, dbVars, ApplyShared, ApplyApp, Bootstrap
  <1>6. CASE ApplyDurable
    <2>1. /\ Pass \/ Stop
          /\ Phase = "durable"
          /\ sql' \in {sql, "up"} /\ password' \in {password, env} /\ peering' \in BOOLEAN /\ tracked' \in BOOLEAN
          /\ up' = up \cup {"durable"} /\ left' = left \ {"durable"}
          /\ UNCHANGED <<secret, tables, raw, emb, vec, upset, deleted, calls, execs, lines, bucket, env>>
      BY <1>0, <1>6 DEF ApplyDurable, dataVars
    <2>2. DbTypeOK'
      BY <1>0, <2>1 DEF DbTypeOK
    <2>3. up' \subseteq Stacks /\ left' \subseteq Stacks
      BY <1>0, <2>1 DEF Stacks
    <2> QED BY <1>0, <1>p, <2>1, <2>2, <2>3 DEF GcpTypeOK
  <1>7. CASE EnsureSecrets
    <2>1. /\ Pass \/ Stop
          /\ Phase = "secrets" /\ secret' = env
          /\ UNCHANGED <<sql, password, tables, raw, emb, vec, upset, deleted, calls, execs, lines, cloudVars>>
      BY <1>7 DEF EnsureSecrets, dataVars
    <2>2. DbTypeOK'
      BY <1>0, <2>1 DEF DbTypeOK
    <2> QED BY <1>c, <1>p, <2>1, <2>2 DEF GcpTypeOK
  <1>8. CASE BeginSetup
    <2>1. /\ tool = "deploy" /\ stage' = "full"
          /\ UNCHANGED <<dbVars, job, step, cur, force, tool, queue, tools, cloudVars>>
      BY <1>8 DEF BeginSetup
    <2>2. SetupTypeOK'
      BY <1>0, <2>1 DEF SetupTypeOK, dbVars
    <2> QED BY <1>0, <1>c, <1>d, <2>1, <2>2 DEF GcpTypeOK
  <1>9. CASE Setup /\ UNCHANGED <<tool, queue, tools, force, cloudVars>>
    <2>1. /\ SetupTypeOK' /\ execs' \in Seq(Execs)
          /\ UNCHANGED <<sql, password, secret, tables, raw, emb, vec, lines, upset, deleted, calls>>
          /\ stage # "none"
      BY <1>0, <1>9, SetupFacts
    <2>2. DbTypeOK'
      BY <1>0, <2>1 DEF DbTypeOK, Execs
    <2> QED BY <1>0, <1>9, <1>c, <2>1, <2>2 DEF GcpTypeOK
  <1>10. CASE SkipStack
    <2>1. /\ tool = "teardown" /\ Phase \in AppStacks \cup {"nondurable", "sql", "cooloff"}
          /\ queue' = IF Phase = "sql" THEN SubSeq(queue, 5, Len(queue)) ELSE Rest
          /\ left' = left \cup ({StackOf} \cap up)
          /\ UNCHANGED <<dbVars, setupVars, force, tool, tools, up, bucket, peering, tracked, env>>
      BY <1>10 DEF SkipStack
    <2>2. queue' \in Seq(Phases)
      <3>1. CASE Phase = "sql"
        BY <1>0, <2>1, <3>1
      <3>2. CASE Phase # "sql"
        BY <1>0, <2>1, <3>2, PassFacts DEF AppStacks
      <3> QED BY <3>1, <3>2
    <2>3. left' \subseteq Stacks
      BY <1>0, <2>1
    <2> QED BY <1>0, <1>d, <1>s, <2>1, <2>2, <2>3 DEF GcpTypeOK, dbVars, setupVars
  <1>11. CASE DestroyStack
    <2>1. /\ Pass /\ Phase \in Stacks /\ Phase # "none"
          /\ up' \subseteq up /\ left' \subseteq left \cup up /\ secret' \in {secret, NoPassword}
          /\ UNCHANGED <<sql, password, tables, raw, emb, vec, upset, deleted, calls, execs, lines, bucket, peering, tracked, env>>
      BY <1>11 DEF DestroyStack, dataVars, Stacks
    <2>2. DbTypeOK'
      BY <1>0, <2>1 DEF DbTypeOK
    <2> QED BY <1>0, <1>p, <2>1, <2>2 DEF GcpTypeOK
  <1>12. CASE DestroySql
    <2>1. /\ Pass \/ Stop
          /\ Phase = "sql" /\ sql' \in {"none", "deleting"}
          /\ UNCHANGED <<password, secret, tables, raw, emb, vec, upset, deleted, calls, execs, lines, cloudVars>>
      BY <1>12 DEF DestroySql, dataVars
    <2>2. DbTypeOK'
      BY <1>0, <2>1 DEF DbTypeOK
    <2> QED BY <1>c, <1>p, <2>1, <2>2 DEF GcpTypeOK
  <1>13. CASE DeletePeering \/ DestroyDurable
    <2>1. /\ Pass /\ Phase # "none" /\ UNCHANGED <<dbVars, bucket, env>>
          /\ up' \subseteq up /\ left' \subseteq left /\ peering' \in BOOLEAN /\ tracked' \in BOOLEAN
      BY <1>0, <1>13 DEF DeletePeering, DestroyDurable, Unpeered
    <2> QED BY <1>0, <1>d, <1>p, <2>1 DEF GcpTypeOK, dbVars
  <1>t. ASSUME UNCHANGED toolVars, DbTypeOK', Len(execs') = Len(execs) PROVE GcpTypeOK'
    BY <1>0, <1>t DEF GcpTypeOK, toolVars, SetupTypeOK
  <1>14. CASE InstanceGone /\ UNCHANGED toolVars
    <2>1. DbTypeOK' /\ execs' = execs
      BY <1>0, <1>14, RowsFinite DEF InstanceGone, DbTypeOK
    <2> QED BY <1>14, <1>t, <2>1
  <1>15. ASSUME NEW i \in DOMAIN execs, Execute(i), UNCHANGED toolVars PROVE GcpTypeOK'
    <2>1. /\ execs' \in Seq(Execs) /\ Len(execs') = Len(execs)
          /\ UNCHANGED <<sql, password, secret>>
          /\ tables' \subseteq {"raw", "emb"} /\ raw' \subseteq Rows /\ vec' \subseteq emb' /\ emb' \subseteq Rows
          /\ lines' \subseteq 0..Cardinality(Rows) /\ upset' \in BOOLEAN /\ deleted' \subseteq Csv /\ calls' \in 0..MaxCalls
      BY <1>0, <1>15, ExecFacts
    <2>2. DbTypeOK'
      BY <1>0, <2>1 DEF DbTypeOK, Execs
    <2> QED BY <1>15, <1>t, <2>1, <2>2
  <1>16. ASSUME NEW r \in Rows, SaveRow(r) \/ DeleteRow(r), UNCHANGED toolVars PROVE GcpTypeOK'
    <2>1. DbTypeOK' /\ execs' = execs
      <3>1. /\ raw' \in SUBSET Rows /\ emb' \in SUBSET Rows /\ vec' \subseteq emb' /\ deleted' \subseteq Csv
            /\ upset' \in BOOLEAN /\ UNCHANGED <<sql, password, secret, tables, execs, lines>>
        <4>1. CASE SaveRow(r)
          BY <1>0, <4>1 DEF SaveRow, DbTypeOK
        <4>2. CASE DeleteRow(r)
          BY <1>0, <4>2 DEF DeleteRow, DbTypeOK
        <4> QED BY <1>16, <4>1, <4>2
      <3>2. calls' \in 0..MaxCalls
        <4>1. calls < MaxCalls /\ calls' = calls + 1 /\ calls \in 0..MaxCalls
          BY <1>0, <1>16 DEF SaveRow, DeleteRow, DbTypeOK
        <4> QED BY <4>1, CallsAssumption
      <3> QED BY <1>0, <3>1, <3>2 DEF DbTypeOK
    <2> QED BY <1>16, <1>t, <2>1
  <1>17. CASE UNCHANGED gcpVars
    BY <1>0, <1>17, <1>t, <1>d DEF gcpVars, toolVars, dbVars, dataVars
  <1> QED BY <1>1, <1>2, <1>3, <1>4, <1>5, <1>6, <1>7, <1>8, <1>9, <1>10, <1>11, <1>12, <1>13, <1>14, <1>15, <1>16, <1>17
       DEF GcpNext

-----------------------------------------------------------------------------
(* The queue and the set-up. *)

(* What a step of the set-up does to the set-up itself. *)
LEMMA SetupMoves ==
  ASSUME Setup
  PROVE  /\ stage \in {"full", "verify"} /\ stage' \in {"full", "verify", "ok", "recovered", "failed"}
         /\ stage' \in {"ok", "recovered"} =>
              step = "read" /\ Expected \in lines /\ (stage' = "ok" => stage = "full")
         /\ \/ step' = "prepare" /\ cur' = 0 /\ stage' # stage
            \/ stage' = stage /\ step = "prepare" /\ step' = "execute" /\ cur' = cur /\ ConfigReady /\ job' = Wanted
            \/ stage' = stage /\ step = "execute" /\ step' = "poll" /\ Launch /\ cur' = Len(execs')
               /\ execs' = Append(execs, Execution(job, force))
            \/ stage' = stage /\ step = "poll" /\ step' = "read" /\ cur' = cur /\ execs[cur].at = "succeeded"
  <1>1. CASE Prepare
    BY <1>1 DEF Prepare, GoTo, Raise, Finish, ModeSet
  <1>2. CASE Launch
    BY <1>2 DEF Launch, GoTo, Raise, Finish
  <1>3. CASE Poll
    BY <1>3 DEF Poll, GoTo, Raise, Failed, Finish, At
  <1>4. CASE Read
    BY <1>4 DEF Read, Raise, Finish, Readable
  <1> QED BY <1>1, <1>2, <1>3, <1>4 DEF Setup

LEMMA GcpQueueInv ==
  ASSUME GcpInv, [GcpNext]_gcpVars
  PROVE  QueueInv'
  <1>0. GcpTypeOK /\ QueueInv /\ ModeInv /\ queue \in Seq(Phases)
    BY DEF GcpInv, GcpTypeOK
  <1>u. ASSUME UNCHANGED <<tool, queue, force, setupVars>>, "durable" \in up => "durable" \in up'
        PROVE  QueueInv'
    BY <1>0, <1>u DEF QueueInv, setupVars, SetupAhead, Phase
  <1>s. ASSUME Stop PROVE QueueInv'
    BY <1>s DEF QueueInv, Stop, Phase
  <1>p. ASSUME Pass, Phase # "none", Phase = "setup" => stage \in {"ok", "recovered"},
               stage = "none" \/ ("durable" \in up => "durable" \in up')
        PROVE  QueueInv'
    <2>1. /\ queue # << >> /\ Phase = queue[1] /\ queue' \in Seq(Phases) /\ 1 \in DOMAIN queue
          /\ \A i \in DOMAIN queue' : i \in Nat /\ i >= 1 /\ i + 1 \in DOMAIN queue /\ queue'[i] = queue[i + 1]
          /\ \A i \in DOMAIN queue : i \in Nat /\ i >= 1 /\ (i # 1 => i - 1 \in DOMAIN queue')
      BY <1>0, <1>p, PassFacts DEF Pass
    <2>2. UNCHANGED <<tool, force, job, stage, step, cur>> /\ stage \notin {"full", "verify", "failed"}
      BY <1>0, <1>p DEF Pass, setupVars, QueueInv
    <2>3. tool' # "idle"
      BY <1>0, <2>1, <2>2 DEF QueueInv
    <2>4. ASSUME stage # "none", NEW i \in DOMAIN queue'
          PROVE  queue'[i] \in Afterwards \cup {"setup"}
      BY <1>0, <2>1, <2>4 DEF QueueInv
    <2>5. ASSUME tool = "deploy", stage \notin {"ok", "recovered"} PROVE SetupAhead'
      <3>1. PICK i \in DOMAIN queue : queue[i] = "setup" /\ \A j \in 1..i : queue[j] \notin Afterwards
        BY <1>0, <2>5 DEF QueueInv, SetupAhead
      <3>2. i # 1 /\ i - 1 \in DOMAIN queue'
        BY <1>p, <2>1, <2>5, <3>1
      <3>3. queue'[i - 1] = "setup"
        BY <2>1, <3>1, <3>2
      <3>4. ASSUME NEW j \in 1..(i - 1) PROVE queue'[j] \notin Afterwards
        <4>1. j \in DOMAIN queue' /\ j + 1 \in 1..i
          BY <2>1, <3>2
        <4> QED BY <2>1, <3>1, <4>1
      <3> QED BY <3>2, <3>3, <3>4 DEF SetupAhead
    <2>6. ASSUME tool = "deploy", NEW i \in DOMAIN queue', NEW j \in DOMAIN queue', queue'[i] = "setup", i <= j
          PROVE  queue'[j] \in Afterwards \cup {"setup"}
      <3>1. i + 1 \in DOMAIN queue /\ j + 1 \in DOMAIN queue /\ i + 1 <= j + 1
        BY <2>1, <2>6
      <3> QED BY <1>0, <2>1, <2>6, <3>1 DEF QueueInv
    <2>7. stage \in {"ok", "recovered"} => "durable" \in up'
      BY <1>0, <1>p DEF QueueInv
    <2> QED BY <1>0, <2>2, <2>3, <2>4, <2>5, <2>6, <2>7 DEF QueueInv
  <1>1. CASE StartDeploy
    <2>1. PICK scope \in Scopes, f \in BOOLEAN : tool' = "deploy" /\ queue' = DeployPhases(scope) /\ force' = f
      BY <1>1 DEF StartDeploy
    <2>2. /\ queue' \in Seq(Phases) /\ 5 \in DOMAIN queue'
          /\ queue'[5] = "setup" /\ \A i \in 1..5 : queue'[i] \notin Afterwards /\ (i # 5 => queue'[i] # "setup")
          /\ \A i \in DOMAIN queue' : 5 <= i => queue'[i] \in Afterwards \cup {"setup"}
      BY <2>1, DeployPhasesFacts
    <2>3. tool = "idle" /\ UNCHANGED <<setupVars, up>> /\ stage = "none"
      BY <1>0, <1>1 DEF StartDeploy, QueueInv
    <2>4. SetupAhead'
      BY <2>2 DEF SetupAhead
    <2>5. ASSUME NEW i \in DOMAIN queue', NEW j \in DOMAIN queue', queue'[i] = "setup", i <= j
          PROVE  queue'[j] \in Afterwards \cup {"setup"}
      <3>1. i \in Nat /\ i >= 1 /\ j \in Nat
        BY <2>2
      <3>2. 5 <= i
        BY <2>2, <2>5, <3>1
      <3> QED BY <2>2, <2>5, <3>1, <3>2
    <2> QED BY <1>0, <2>1, <2>3, <2>4, <2>5 DEF QueueInv, setupVars
  <1>2. CASE StartTeardown
    BY <1>0, <1>2 DEF StartTeardown, QueueInv, setupVars
  <1>3. CASE RaiseOut \/ Through
    BY <1>3, <1>s DEF RaiseOut, Through
  <1>4. CASE NewPassword
    BY <1>4, <1>u DEF NewPassword
  <1>5. CASE PlanFails \/ BuildPhase \/ WaitGone \/ DeletePeering
    <2>1. Pass /\ Phase \notin {"none", "setup"} /\ up' = up
      BY <1>5 DEF PlanFails, BuildPhase, WaitGone, DeletePeering, cloudVars, Stacks
    <2> QED BY <1>p, <2>1
  <1>6. CASE ApplyShared \/ ApplyApp \/ ApplyDurable \/ EnsureSecrets
    <2>1. Pass \/ Stop
      BY <1>6 DEF ApplyShared, ApplyApp, Bootstrap, ApplyDurable, EnsureSecrets
    <2>2. Phase \notin {"none", "setup"} /\ up \subseteq up'
      BY <1>6 DEF ApplyShared, ApplyApp, ApplyDurable, EnsureSecrets, cloudVars, AppStacks
    <2> QED BY <1>p, <1>s, <2>1, <2>2
  <1>7. CASE BeginSetup
    <2>1. /\ tool = "deploy" /\ Phase = "setup" /\ stage = "none" /\ stage' = "full"
          /\ UNCHANGED <<job, step, cur, force, tool, queue, up>>
      BY <1>7 DEF BeginSetup, cloudVars
    <2>2. 1 \in DOMAIN queue /\ queue[1] = "setup" /\ \A j \in DOMAIN queue : 1 <= j
      BY <1>0, <2>1 DEF Phase
    <2>3. \A j \in DOMAIN queue : queue[j] \in Afterwards \cup {"setup"}
      BY <1>0, <2>1, <2>2 DEF QueueInv
    <2> QED BY <1>0, <2>1, <2>3 DEF QueueInv, SetupAhead, Phase
  <1>8. CASE EndSetup
    <2>1. Phase = "setup" /\ ((stage \in {"ok", "recovered"} /\ Pass) \/ Stop) /\ up' = up
      BY <1>8 DEF EndSetup, cloudVars
    <2> QED BY <1>p, <1>s, <2>1
  <1>9. CASE Setup /\ UNCHANGED <<tool, queue, tools, force, cloudVars>>
    <2>1. UNCHANGED <<tool, queue, force, up>>
      BY <1>9 DEF cloudVars
    <2>2. /\ stage \in {"full", "verify"} /\ stage' \in {"full", "verify", "ok", "recovered", "failed"}
          /\ stage' \in {"ok", "recovered"} => step = "read"
          /\ step' # "prepare" => stage' = stage /\ (step # "prepare" \/ "durable" \in up)
          /\ stage' # stage => step' = "prepare"
      BY <1>9, SetupMoves DEF ConfigReady
    <2>3. tool = "deploy" /\ Phase = "setup" /\ SetupAhead /\ (step # "prepare" => "durable" \in up)
      BY <1>0, <2>2 DEF QueueInv
    <2> QED BY <1>0, <2>1, <2>2, <2>3 DEF QueueInv, SetupAhead, Phase
  <1>10. CASE SkipStack \/ DestroyStack \/ DestroySql \/ DestroyDurable
    <2>1. tool = "teardown" /\ stage = "none"
      BY <1>0, <1>10 DEF QueueInv, SkipStack, DestroyStack, DestroySql, DestroyDurable
    <2>2. CASE Stop
      BY <1>s, <2>2
    <2>3. CASE ~Stop
      <3>1. UNCHANGED <<tool, force, job, stage, step, cur>>
        BY <1>10, <2>3 DEF SkipStack, DestroyStack, DestroySql, DestroyDurable, Pass, setupVars
      <3> QED BY <1>0, <2>1, <3>1 DEF QueueInv
    <2> QED BY <2>2, <2>3
  <1>11. CASE UNCHANGED toolVars
    BY <1>11, <1>u DEF toolVars, setupVars
  <1>12. CASE UNCHANGED gcpVars
    BY <1>12, <1>u DEF gcpVars, setupVars
  <1> QED BY <1>1, <1>2, <1>3, <1>4, <1>5, <1>6, <1>7, <1>8, <1>9, <1>10, <1>11, <1>12 DEF GcpNext

-----------------------------------------------------------------------------
(* The stacks. *)

LEMMA GcpStackInv ==
  ASSUME GcpInv, [GcpNext]_gcpVars
  PROVE  StackInv'
  <1>0. /\ GcpTypeOK /\ QueueInv /\ TeardownInv /\ NothingUnderneath /\ PeeringTracked /\ queue \in Seq(Phases)
        /\ \A s \in AppStacks : s # "durable" /\ s # "sql"
    BY DEF GcpInv, GcpTypeOK, StackInv, AppStacks
  <1>h. ASSUME Phase # "none" PROVE queue # << >> /\ Phase = queue[1] /\ 1 \in DOMAIN queue
    BY <1>0, <1>h DEF Phase
  (* No phase of a teardown: it was none, or ends here, or its queue stays. *)
  <1>t. ASSUME tool' # "teardown" \/ (UNCHANGED <<tool, queue>> /\ up' = up /\ left' = left)
        PROVE  TeardownInv'
    BY <1>0, <1>t DEF TeardownInv
  <1>n. ASSUME UNCHANGED <<up, left>> PROVE NothingUnderneath'
    BY <1>0, <1>n DEF NothingUnderneath
  <1>e. ASSUME UNCHANGED <<peering, tracked>> PROVE PeeringTracked'
    BY <1>0, <1>e DEF PeeringTracked
  <1>p. ASSUME Pass, Phase # "none", tool = "teardown" =>
                 \A s \in AppStacks \cap up' : s \in up /\ (s \in left \/ Phase = s => s \in left')
        PROVE  TeardownInv'
    <2> SUFFICES ASSUME tool' = "teardown"
                 PROVE  (/\ \A i, j \in DOMAIN queue : queue[i] = "durable" /\ queue[j] = "durable" => i = j
                         /\ \A i \in DOMAIN queue : queue[i] = "sql" => i + 3 \in DOMAIN queue /\ queue[i + 3] = "durable"
                         /\ \A j \in DOMAIN queue : queue[j] = "durable" =>
                              \A s \in AppStacks \cap up : s \in left \/ \E i \in 1..(j - 1) : queue[i] = s)'
      BY DEF TeardownInv
    <2>0. tool = "teardown"
      BY <1>p DEF Pass
    <2>1. /\ Phase = queue[1] /\ 1 \in DOMAIN queue
          /\ \A i \in DOMAIN queue' : i \in Nat /\ i >= 1 /\ i + 1 \in DOMAIN queue /\ queue'[i] = queue[i + 1]
          /\ \A i \in DOMAIN queue : i \in Nat /\ i >= 1 /\ (i # 1 => i - 1 \in DOMAIN queue')
      BY <1>0, <1>p, PassFacts DEF Pass
    <2>2. ASSUME NEW i \in DOMAIN queue', NEW j \in DOMAIN queue', queue'[i] = "durable", queue'[j] = "durable"
          PROVE  i = j
      <3>1. i + 1 = j + 1
        BY <1>0, <2>0, <2>1, <2>2 DEF TeardownInv
      <3> QED BY <2>1, <3>1
    <2>3. ASSUME NEW i \in DOMAIN queue', queue'[i] = "sql"
          PROVE  i + 3 \in DOMAIN queue' /\ queue'[i + 3] = "durable"
      <3>1. i \in Nat /\ (i + 1) + 3 \in DOMAIN queue /\ queue[(i + 1) + 3] = "durable"
        BY <1>0, <2>0, <2>1, <2>3 DEF TeardownInv
      <3>2. (i + 1) + 3 = i + 4 /\ (i + 4) - 1 = i + 3 /\ i + 4 # 1 /\ (i + 3) + 1 = i + 4
        BY <3>1
      <3>3. i + 3 \in DOMAIN queue'
        BY <2>1, <3>1, <3>2
      <3> QED BY <2>1, <3>1, <3>2, <3>3
    <2>4. ASSUME NEW j \in DOMAIN queue', queue'[j] = "durable", NEW s \in AppStacks \cap up'
          PROVE  s \in left' \/ \E i \in 1..(j - 1) : queue'[i] = s
      <3>1. /\ j + 1 \in DOMAIN queue /\ queue[j + 1] = "durable" /\ j \in Nat /\ (j + 1) - 1 = j
            /\ s \in up /\ (s \in left \/ Phase = s => s \in left')
        BY <1>p, <2>0, <2>1, <2>4
      <3>2. s \in left \/ \E i \in 1..j : queue[i] = s
        BY <1>0, <2>0, <3>1 DEF TeardownInv
      <3>3. ASSUME NEW i \in 1..j, queue[i] = s, i # 1 PROVE \E k \in 1..(j - 1) : queue'[k] = s
        <4>1. i \in DOMAIN queue
          BY <1>0, <3>1, <3>3
        <4>2. i - 1 \in DOMAIN queue' /\ i - 1 \in 1..(j - 1) /\ (i - 1) + 1 = i
          BY <2>1, <3>1, <3>3, <4>1
        <4> QED BY <2>1, <3>3, <4>2
      <3> QED BY <2>1, <3>1, <3>2, <3>3
    <2> QED BY <2>2, <2>3, <2>4
  <1>1. CASE StartDeploy
    <2>1. tool' = "deploy" /\ UNCHANGED <<up, left, peering, tracked>>
      BY <1>1 DEF StartDeploy
    <2> QED BY <1>e, <1>n, <1>t, <2>1 DEF StackInv
  <1>2. CASE StartTeardown
    <2>1. PICK scope \in Scopes, dura \in {"no", "incl", "all"} :
            (dura # "no" => Len(scope) = 2) /\ queue' = TeardownPhases(scope, dura)
      BY <1>2 DEF StartTeardown
    <2>2. \/ \A i \in DOMAIN queue' : queue'[i] \notin {"durable", "sql"}
          \/ /\ DOMAIN queue' \in {1..7, 1..8} /\ queue'[1] = "nonkube" /\ queue'[2] = "kube"
             /\ queue'[4] = "sql" /\ queue'[7] = "durable"
             /\ \A i \in DOMAIN queue' : (queue'[i] = "sql" => i = 4) /\ (queue'[i] = "durable" => i = 7)
      BY <2>1, TeardownPhasesFacts
    <2>3. TeardownInv'
      <3>1. CASE \A i \in DOMAIN queue' : queue'[i] \notin {"durable", "sql"}
        BY <3>1 DEF TeardownInv
      <3>2. CASE /\ DOMAIN queue' \in {1..7, 1..8} /\ queue'[1] = "nonkube" /\ queue'[2] = "kube"
                 /\ queue'[4] = "sql" /\ queue'[7] = "durable"
                 /\ \A i \in DOMAIN queue' : (queue'[i] = "sql" => i = 4) /\ (queue'[i] = "durable" => i = 7)
        <4>1. 7 \in DOMAIN queue' /\ 4 + 3 = 7 /\ 1 \in 1..(7 - 1) /\ 2 \in 1..(7 - 1)
          BY <3>2
        <4>2. ASSUME NEW s \in AppStacks PROVE \E i \in 1..(7 - 1) : queue'[i] = s
          BY <3>2, <4>1 DEF AppStacks
        <4> QED BY <3>2, <4>1, <4>2 DEF TeardownInv
      <3> QED BY <2>2, <3>1, <3>2
    <2>4. UNCHANGED <<up, left, peering, tracked>>
      BY <1>2 DEF StartTeardown, cloudVars
    <2> QED BY <1>e, <1>n, <2>3, <2>4 DEF StackInv
  <1>3. CASE RaiseOut \/ Through
    <2>1. tool' = "idle" /\ UNCHANGED <<up, left, peering, tracked>>
      BY <1>3 DEF RaiseOut, Through, Stop, cloudVars
    <2> QED BY <1>e, <1>n, <1>t, <2>1 DEF StackInv
  <1>4. CASE NewPassword
    <2>1. UNCHANGED <<tool, queue, up, left, peering, tracked>>
      BY <1>4 DEF NewPassword
    <2> QED BY <1>e, <1>n, <1>t, <2>1 DEF StackInv
  <1>5. CASE PlanFails \/ EnsureSecrets \/ BeginSetup \/ EndSetup \/ BuildPhase
             \/ (Setup /\ UNCHANGED <<tool, queue, tools, force, cloudVars>>)
    <2>1. UNCHANGED <<up, left, peering, tracked>> /\ tool' # "teardown"
      <3>1. ASSUME Setup PROVE tool = "deploy"
        BY <1>0, <3>1, SetupMoves DEF QueueInv
      <3>2. ASSUME EndSetup PROVE tool = "deploy"
        BY <1>0, <1>h, <3>2 DEF QueueInv, EndSetup
      <3> QED BY <1>5, <3>1, <3>2
            DEF PlanFails, EnsureSecrets, BeginSetup, EndSetup, BuildPhase, cloudVars, Pass, Stop
    <2> QED BY <1>e, <1>n, <1>t, <2>1 DEF StackInv
  <1>6. CASE ApplyShared
    <2>1. /\ tool' # "teardown" /\ up' = up \cup {Phase} /\ left' = left \ {Phase}
          /\ UNCHANGED <<peering, tracked>> /\ Phase \notin AppStacks
      BY <1>6 DEF ApplyShared, Pass, Stop, AppStacks
    <2>2. NothingUnderneath'
      BY <1>0, <2>1 DEF NothingUnderneath
    <2> QED BY <1>e, <1>t, <2>1, <2>2 DEF StackInv
  <1>7. CASE ApplyApp
    <2>1. /\ tool = "deploy" /\ tool' # "teardown" /\ up' = up \cup {Phase} /\ left' = left \ {Phase}
          /\ UNCHANGED <<peering, tracked>> /\ Phase \in AppStacks
      BY <1>7 DEF ApplyApp, Bootstrap, Pass, Stop
    <2>2. Phase = queue[1] /\ queue[1] \in Afterwards
      BY <1>h, <2>1 DEF Afterwards, AppStacks
    <2>3. ~SetupAhead
      <3>1. \A i \in DOMAIN queue : 1 \in 1..i
        BY <1>0
      <3> QED BY <2>2, <3>1 DEF SetupAhead
    <2>4. "durable" \in up
      BY <1>0, <2>1, <2>3 DEF QueueInv
    <2>5. NothingUnderneath'
      BY <2>1, <2>4 DEF NothingUnderneath
    <2> QED BY <1>e, <1>t, <2>1, <2>5 DEF StackInv
  <1>8. CASE ApplyDurable
    <2>1. tool' # "teardown" /\ "durable" \in up' /\ ((peering' /\ tracked') \/ UNCHANGED <<peering, tracked>>)
      BY <1>8 DEF ApplyDurable, Pass, Stop
    <2> QED BY <1>0, <1>t, <2>1 DEF StackInv, NothingUnderneath, PeeringTracked
  <1>9. CASE SkipStack
    <2>1. /\ tool = "teardown" /\ Phase \in AppStacks \cup {"nondurable", "sql", "cooloff"}
          /\ queue' = IF Phase = "sql" THEN SubSeq(queue, 5, Len(queue)) ELSE Rest
          /\ left' = left \cup ({StackOf} \cap up)
          /\ UNCHANGED <<setupVars, force, tool, tools, up, peering, tracked>>
      BY <1>9 DEF SkipStack
    <2>2. NothingUnderneath'
      BY <1>0, <2>1 DEF NothingUnderneath
    <2>3. CASE Phase # "sql"
      <3>1. Pass /\ Phase # "none"
        BY <2>1, <2>3 DEF Pass, AppStacks
      <3>2. ASSUME NEW s \in AppStacks \cap up' PROVE s \in up /\ (s \in left \/ Phase = s => s \in left')
        BY <2>1, <2>3 DEF StackOf
      <3> QED BY <1>e, <1>p, <2>1, <2>2, <3>1, <3>2 DEF StackInv
    <2>4. CASE Phase = "sql"
      <3>1. queue[1] = "sql" /\ 1 \in DOMAIN queue
        BY <1>h, <2>4
      <3>2. 1 + 3 \in DOMAIN queue /\ queue[1 + 3] = "durable"
        BY <1>0, <2>1, <3>1 DEF TeardownInv
      <3>3. 4 \in DOMAIN queue /\ queue[4] = "durable" /\ Len(queue) >= 4
        BY <1>0, <3>2
      <3>4. \A i \in DOMAIN queue' : i \in Nat /\ i >= 1 /\ i + 4 \in DOMAIN queue /\ queue'[i] = queue[i + 4]
        BY <1>0, <2>1, <2>4, <3>3, DropFourFacts
      <3>5. ASSUME NEW i \in DOMAIN queue' PROVE queue'[i] # "durable"
        <4>1. i + 4 # 4 /\ i + 4 \in DOMAIN queue /\ queue'[i] = queue[i + 4]
          BY <3>4
        <4> QED BY <1>0, <2>1, <3>3, <4>1 DEF TeardownInv
      <3>6. ASSUME NEW i \in DOMAIN queue' PROVE queue'[i] # "sql"
        <4>1. (i + 4) + 3 # 4 /\ i + 4 \in DOMAIN queue /\ queue'[i] = queue[i + 4]
          BY <3>4
        <4> QED BY <1>0, <2>1, <3>3, <4>1 DEF TeardownInv
      <3>7. TeardownInv'
        BY <3>5, <3>6 DEF TeardownInv
      <3> QED BY <1>e, <2>1, <2>2, <3>7 DEF StackInv
    <2> QED BY <2>3, <2>4
  <1>10. CASE DestroyStack
    <2>1. /\ tool = "teardown" /\ Phase \in Stacks \ {"durable"} /\ Phase # "none" /\ Pass
          /\ UNCHANGED <<peering, tracked>>
          /\ \/ up' = up \ {Phase} /\ left' = left \ {Phase}
             \/ left' = left \cup ({Phase} \cap up) /\ up' = up
      BY <1>10 DEF DestroyStack, Stacks
    <2>2. ASSUME NEW s \in AppStacks \cap up' PROVE s \in up /\ (s \in left \/ Phase = s => s \in left')
      BY <2>1
    <2>3. NothingUnderneath'
      BY <1>0, <2>1, <2>2 DEF NothingUnderneath
    <2> QED BY <1>e, <1>p, <2>1, <2>2, <2>3 DEF StackInv
  <1>11. CASE DestroySql \/ WaitGone \/ DeletePeering
    <2>1. /\ Phase \notin AppStacks \cup {"none"} /\ (Pass \/ Stop) /\ UNCHANGED <<up, left>>
          /\ ~peering' \/ UNCHANGED <<peering, tracked>>
      BY <1>11 DEF DestroySql, WaitGone, DeletePeering, Unpeered, cloudVars, AppStacks
    <2>2. TeardownInv'
      BY <1>p, <1>t, <2>1 DEF Stop
    <2> QED BY <1>0, <1>n, <2>1, <2>2 DEF StackInv, PeeringTracked
  <1>12. CASE DestroyDurable
    <2>1. /\ tool = "teardown" /\ Phase = "durable" /\ Pass /\ ~peering'
          /\ up' = up \ {"durable"} /\ left' = left \ {"durable"}
      BY <1>12 DEF DestroyDurable
    <2>2. queue[1] = "durable" /\ 1 \in DOMAIN queue /\ 1..(1 - 1) = {}
      BY <1>h, <2>1
    <2>3. \A s \in AppStacks \cap up : s \in left
      BY <1>0, <2>1, <2>2 DEF TeardownInv
    <2>4. NothingUnderneath'
      BY <1>0, <2>1, <2>3 DEF NothingUnderneath
    <2>5. TeardownInv'
      BY <1>0, <1>p, <2>1
    <2> QED BY <2>1, <2>4, <2>5 DEF StackInv, PeeringTracked
  <1>13. CASE UNCHANGED toolVars
    BY <1>13, <1>e, <1>n, <1>t DEF toolVars, StackInv
  <1>14. CASE UNCHANGED gcpVars
    BY <1>14, <1>e, <1>n, <1>t DEF gcpVars, StackInv
  <1> QED BY <1>1, <1>2, <1>3, <1>4, <1>5, <1>6, <1>7, <1>8, <1>9, <1>10, <1>11, <1>12, <1>13, <1>14 DEF GcpNext

-----------------------------------------------------------------------------
(* The password and the modes. *)

(* A tool that is through, or comes to the end of a phase, outside the set-up. *)
LEMMA CredInvKept ==
  ASSUME GcpInv, UNCHANGED execs, Pass \/ Stop,
         stage = "none" \/ UNCHANGED <<sql, password, secret>>
  PROVE  CredInv'
  <1>1. CASE Stop
    BY <1>1 DEF Stop, CredInv
  <1>2. CASE Pass
    BY <1>2 DEF Pass, setupVars, CredInv, GcpInv, Proven
  <1> QED BY <1>1, <1>2

LEMMA GcpCredInv ==
  ASSUME GcpInv, [GcpNext]_gcpVars
  PROVE  CredInv'
  <1>0. /\ GcpTypeOK /\ QueueInv /\ ModeInv /\ CredInv /\ execs \in Seq(Execs) /\ queue \in Seq(Phases)
        /\ cur \in 0..Len(execs) /\ Len(execs) \in Nat
    <2>1. execs \in Seq(Execs)
      BY DEF GcpInv, GcpTypeOK, DbTypeOK, Execs
    <2> QED BY <2>1 DEF GcpInv, GcpTypeOK, SetupTypeOK
  <1>u. ASSUME UNCHANGED <<sql, password, secret, execs, stage, step, cur>> PROVE CredInv'
    BY <1>0, <1>u DEF CredInv, Proven
  <1>1. CASE StartDeploy \/ StartTeardown \/ NewPassword \/ SkipStack
    BY <1>1, <1>u DEF StartDeploy, StartTeardown, NewPassword, SkipStack, dbVars, setupVars
  <1>2. CASE RaiseOut \/ Through \/ PlanFails \/ ApplyShared \/ ApplyApp \/ EndSetup \/ BuildPhase
             \/ WaitGone \/ DeletePeering \/ DestroyDurable
    <2>1. (Pass \/ Stop) /\ UNCHANGED dbVars
      BY <1>2 DEF RaiseOut, Through, PlanFails, ApplyShared, ApplyApp, Bootstrap, EndSetup, BuildPhase,
                  WaitGone, DeletePeering, DestroyDurable
    <2> QED BY <2>1, CredInvKept DEF dbVars
  <1>3. CASE ApplyDurable \/ EnsureSecrets
    <2>1. tool = "deploy" /\ Phase \in {"durable", "secrets"}
      BY <1>3 DEF ApplyDurable, EnsureSecrets
    <2>2. 1 \in DOMAIN queue /\ queue[1] \notin Afterwards \cup {"setup"}
      BY <1>0, <2>1 DEF Phase, Afterwards, AppStacks
    <2>3. stage = "none"
      BY <1>0, <2>2 DEF QueueInv
    <2>4. (Pass \/ Stop) /\ UNCHANGED execs
      BY <1>3 DEF ApplyDurable, EnsureSecrets
    <2> QED BY <2>3, <2>4, CredInvKept
  <1>4. CASE DestroyStack \/ DestroySql
    <2>1. (Pass \/ Stop) /\ UNCHANGED execs /\ stage = "none"
      BY <1>0, <1>4 DEF DestroyStack, DestroySql, QueueInv
    <2> QED BY <2>1, CredInvKept
  <1>5. CASE BeginSetup
    <2>1. stage = "none" /\ UNCHANGED <<cur, step>> /\ stage' = "full"
      BY <1>5 DEF BeginSetup
    <2> QED BY <1>0, <2>1 DEF CredInv, QueueInv
  <1>6. CASE Setup /\ UNCHANGED <<tool, queue, tools, force, cloudVars>>
    <2>1. /\ stage \in {"full", "verify"} /\ stage' \in {"full", "verify", "ok", "recovered", "failed"}
          /\ stage' \in {"ok", "recovered"} => step = "read"
          /\ \/ step' = "prepare" /\ cur' = 0
             \/ stage' = stage /\ step' = "execute" /\ cur' = cur
             \/ stage' = stage /\ step = "execute" /\ step' = "poll" /\ cur' = Len(execs')
                /\ execs' = Append(execs, Execution(job, force))
             \/ stage' = stage /\ step = "poll" /\ step' = "read" /\ cur' = cur /\ execs[cur].at = "succeeded"
      BY <1>6, SetupMoves
    <2>2. /\ UNCHANGED <<sql, password, secret>> /\ execs' \in Seq(Execs)
          /\ Len(execs) <= Len(execs') /\ \A k \in DOMAIN execs : k \in DOMAIN execs' /\ execs'[k] = execs[k]
      BY <1>0, <1>6, SetupFacts
    <2>3. step = "read" => Proven
      BY <1>0, <2>1 DEF CredInv
    <2>4. cur # 0 => cur \in DOMAIN execs
      BY <1>0
    <2>5. CASE step' = "prepare" /\ cur' = 0
      BY <2>1, <2>2, <2>3, <2>5 DEF CredInv, Proven
    <2>6. CASE stage' = stage /\ step' = "execute" /\ cur' = cur
      BY <1>0, <2>1, <2>2, <2>3, <2>4, <2>6 DEF CredInv, Proven
    <2>7. CASE stage' = stage /\ step = "execute" /\ step' = "poll" /\ cur' = Len(execs')
               /\ execs' = Append(execs, Execution(job, force))
      <3>1. Len(execs') = Len(execs) + 1 /\ execs'[Len(execs) + 1] = Execution(job, force)
        BY <1>0, <2>7
      <3>2. cur' # 0 /\ execs'[cur'].at = "start"
        BY <1>0, <2>7, <3>1 DEF Execution
      <3> QED BY <2>1, <2>7, <3>2 DEF CredInv
    <2>8. CASE stage' = stage /\ step = "poll" /\ step' = "read" /\ cur' = cur /\ execs[cur].at = "succeeded"
      BY <1>0, <2>1, <2>2, <2>4, <2>8 DEF CredInv, Proven
    <2> QED BY <2>1, <2>5, <2>6, <2>7, <2>8
  <1>7. CASE InstanceGone /\ UNCHANGED toolVars
    <2>1. ~Proven /\ UNCHANGED <<execs, stage, step, cur>>
      BY <1>7 DEF InstanceGone, toolVars, Proven
    <2> QED BY <1>0, <2>1 DEF CredInv
  <1>8. ASSUME NEW i \in DOMAIN execs, Execute(i), UNCHANGED toolVars PROVE CredInv'
    <2>1. /\ execs'[i] \in Execs /\ \A k \in DOMAIN execs : k # i => execs'[k] = execs[k]
          /\ ~Ended(execs[i])
          /\ execs[i].at = "start" => execs'[i].at = "failed" \/ Proven
          /\ UNCHANGED <<sql, password, secret>>
      BY <1>0, <1>8, ExecFacts
    <2>2. UNCHANGED <<stage, step, cur>>
      BY <1>8 DEF toolVars
    <2>3. CASE cur = i
      BY <1>0, <2>1, <2>2, <2>3 DEF CredInv, Proven, Ended
    <2>4. CASE cur # i
      <3>1. cur # 0 => cur \in DOMAIN execs /\ execs'[cur] = execs[cur]
        BY <1>0, <2>1, <2>4
      <3> QED BY <1>0, <2>1, <2>2, <3>1 DEF CredInv, Proven
    <2> QED BY <2>3, <2>4
  <1>9. ASSUME NEW r \in Rows, SaveRow(r) \/ DeleteRow(r), UNCHANGED toolVars PROVE CredInv'
    BY <1>9, <1>u DEF SaveRow, DeleteRow, toolVars
  <1>10. CASE UNCHANGED gcpVars
    BY <1>10, <1>u DEF gcpVars
  <1> QED BY <1>1, <1>2, <1>3, <1>4, <1>5, <1>6, <1>7, <1>8, <1>9, <1>10 DEF GcpNext

LEMMA GcpModeInv ==
  ASSUME GcpInv, [GcpNext]_gcpVars
  PROVE  ModeInv'
  <1>0. /\ GcpTypeOK /\ QueueInv /\ ModeInv /\ execs \in Seq(Execs) /\ Len(execs) \in Nat
    <2>1. execs \in Seq(Execs)
      BY DEF GcpInv, GcpTypeOK, DbTypeOK, Execs
    <2> QED BY <2>1 DEF GcpInv
  <1>e. ASSUME UNCHANGED execs PROVE (\A i \in DOMAIN execs : ModeOf(execs[i]))'
    BY <1>0, <1>e DEF ModeInv
  <1>u. ASSUME UNCHANGED <<execs, job, force, stage, step>> PROVE ModeInv'
    BY <1>0, <1>e, <1>u DEF ModeInv
  <1>p. ASSUME UNCHANGED execs, Pass \/ Stop PROVE ModeInv'
    <2>1. CASE Stop
      BY <1>e, <1>p, <2>1 DEF Stop, ModeInv
    <2>2. CASE Pass
      BY <1>p, <1>u, <2>2 DEF Pass, setupVars
    <2> QED BY <1>p, <2>1, <2>2
  <1>1. CASE StartDeploy
    <2>1. stage = "none" /\ UNCHANGED <<execs, stage, step>>
      BY <1>0, <1>1 DEF StartDeploy, QueueInv, setupVars, dbVars
    <2> QED BY <1>e, <2>1 DEF ModeInv
  <1>2. CASE StartTeardown \/ NewPassword \/ SkipStack
    BY <1>2, <1>u DEF StartTeardown, NewPassword, SkipStack, dbVars, setupVars
  <1>3. CASE RaiseOut \/ Through \/ PlanFails \/ ApplyShared \/ ApplyApp \/ ApplyDurable \/ EnsureSecrets
             \/ EndSetup \/ BuildPhase \/ DestroyStack \/ DestroySql \/ WaitGone \/ DeletePeering \/ DestroyDurable
    <2>1. (Pass \/ Stop) /\ UNCHANGED execs
      BY <1>3 DEF RaiseOut, Through, PlanFails, ApplyShared, ApplyApp, Bootstrap, ApplyDurable, EnsureSecrets,
                  EndSetup, BuildPhase, DestroyStack, DestroySql, WaitGone, DeletePeering, DestroyDurable, dbVars
    <2> QED BY <1>p, <2>1
  <1>4. CASE BeginSetup
    <2>1. stage = "none" /\ UNCHANGED <<step, execs>>
      BY <1>4 DEF BeginSetup, dbVars
    <2> QED BY <1>0, <1>e, <2>1 DEF QueueInv, ModeInv
  <1>5. CASE Setup /\ UNCHANGED <<tool, queue, tools, force, cloudVars>>
    <2>1. /\ stage \in {"full", "verify"}
          /\ \/ step' # "execute"
             \/ stage' = stage /\ step = "prepare" /\ step' = "execute" /\ job' = Wanted
      BY <1>5, SetupMoves
    <2>2. ASSUME (stage \in {"full", "verify"} /\ step = "execute")'
          PROVE  (job \in Modes /\ (job = "force" => force) /\ (stage = "full" => job # "verify"))'
      BY <1>5, <2>1, <2>2 DEF Wanted, Modes
    <2>3. CASE execs' = execs
      BY <1>e, <2>2, <2>3 DEF ModeInv
    <2>4. CASE Launch /\ job \in Modes /\ execs' = Append(execs, Execution(job, force))
      <3>1. step = "execute" /\ (job = "force" => force)
        BY <1>0, <2>1, <2>4 DEF Launch, ModeInv
      <3>2. ModeOf(Execution(job, force))
        BY <3>1 DEF ModeOf, Execution
      <3>3. \A k \in DOMAIN execs' : execs'[k] = Execution(job, force) \/ (k \in DOMAIN execs /\ execs'[k] = execs[k])
        BY <1>0, <2>4
      <3>4. (\A i \in DOMAIN execs : ModeOf(execs[i]))'
        BY <1>0, <3>2, <3>3 DEF ModeInv
      <3> QED BY <2>2, <3>4 DEF ModeInv
    <2> QED BY <1>0, <1>5, <2>3, <2>4, SetupFacts
  <1>6. CASE InstanceGone /\ UNCHANGED toolVars
    BY <1>6, <1>u DEF InstanceGone, toolVars
  <1>7. ASSUME NEW i \in DOMAIN execs, Execute(i), UNCHANGED toolVars PROVE ModeInv'
    <2>1. /\ DOMAIN execs' = DOMAIN execs /\ ModeOf(execs'[i])
          /\ \A k \in DOMAIN execs : k # i => execs'[k] = execs[k]
      BY <1>0, <1>7, ExecFacts
    <2>2. (\A k \in DOMAIN execs : ModeOf(execs[k]))'
      BY <1>0, <2>1 DEF ModeInv
    <2>3. UNCHANGED <<job, force, stage, step>>
      BY <1>7 DEF toolVars
    <2> QED BY <1>0, <2>2, <2>3 DEF ModeInv
  <1>8. ASSUME NEW r \in Rows, SaveRow(r) \/ DeleteRow(r), UNCHANGED toolVars PROVE ModeInv'
    BY <1>8, <1>u DEF SaveRow, DeleteRow, toolVars
  <1>9. CASE UNCHANGED gcpVars
    BY <1>9, <1>u DEF gcpVars
  <1> QED BY <1>1, <1>2, <1>3, <1>4, <1>5, <1>6, <1>7, <1>8, <1>9 DEF GcpNext

-----------------------------------------------------------------------------
(* The load. *)

(* An excuse stays one while nothing is lost and the execution that moves keeps its own. *)
LEMMA ExcusedStays ==
  ASSUME Excused, NEW i \in DOMAIN execs, DOMAIN execs' = DOMAIN execs,
         \A k \in DOMAIN execs : k # i => execs'[k] = execs[k],
         upset => upset', deleted \subseteq deleted', raw \subseteq raw', emb \subseteq emb', vec \subseteq vec',
         Doomed(execs[i]) \/ Reloads(execs[i]) => Excused'
  PROVE  Excused'
  <1>1. CASE upset
    BY <1>1 DEF Excused
  <1>2. ASSUME NEW k \in DOMAIN execs, k # i, Doomed(execs[k]) \/ Reloads(execs[k]) PROVE Excused'
    <2>1. k \in DOMAIN execs' /\ execs'[k] = execs[k]
      BY <1>2
    <2>2. Doomed(execs[k]) \/ Reloads(execs[k])'
      BY <1>2, <2>1 DEF Reloads, KeptRows
    <2>3. Doomed(execs[k])' \/ Reloads(execs[k])'
      BY <2>1, <2>2 DEF Doomed
    <2> QED BY <2>1, <2>3 DEF Excused
  <1> QED BY <1>1, <1>2 DEF Excused

(* What a step of an execution has to keep to. *)
LEMMA LoadStep ==
  ASSUME LoadInv, NEW i \in DOMAIN execs, cur # 0 => cur \in DOMAIN execs,
         \A k \in DOMAIN execs : k # i => execs'[k] = execs[k],
         execs'[i].mode = execs[i].mode, UNCHANGED <<stage, cur>>,
         \/ Excused'
         \/ (KeptRows \subseteq raw \cap vec)' /\ vec' \subseteq emb'
         \/ /\ ~Excused /\ UNCHANGED deleted /\ (emb' = {} \/ (KeptRows \subseteq raw \cap vec)') /\ (raw' = {} \/ KeptRows' \subseteq raw')
            /\ emb # {} => emb' # {}
            /\ KeptRows \subseteq raw => KeptRows' \subseteq raw'
            /\ cur = i /\ stage = "full" =>
                 /\ execs'[i].at = "embed" => KeptRows' \subseteq raw'
                 /\ execs'[i].at \in {"sync", "succeeded"} => emb' # {} \/ KeptRows' = {}
  PROVE  LoadInv'
  <1>1. cur # 0 /\ stage = "full" => execs'[cur].mode # "verify"
    BY DEF LoadInv
  <1>2. CASE Excused'
    BY <1>1, <1>2 DEF LoadInv
  <1>3. CASE (KeptRows \subseteq raw \cap vec)' /\ vec' \subseteq emb'
    <2>1. (emb' # {} \/ KeptRows' = {}) /\ KeptRows' \subseteq raw'
      BY <1>3
    <2> QED BY <1>1, <1>3, <2>1 DEF LoadInv
  <1>4. CASE /\ ~Excused /\ UNCHANGED deleted /\ (emb' = {} \/ (KeptRows \subseteq raw \cap vec)') /\ (raw' = {} \/ KeptRows' \subseteq raw')
             /\ emb # {} => emb' # {}
             /\ KeptRows \subseteq raw => KeptRows' \subseteq raw'
             /\ cur = i /\ stage = "full" =>
                  /\ execs'[i].at = "embed" => KeptRows' \subseteq raw'
                  /\ execs'[i].at \in {"sync", "succeeded"} => emb' # {} \/ KeptRows' = {}
    <2>1. stage = "ok" => emb' # {} \/ KeptRows' = {}
      BY <1>4 DEF LoadInv, KeptRows
    <2>2. ASSUME cur # 0, stage = "full"
          PROVE  /\ execs'[cur].at = "embed" => KeptRows' \subseteq raw'
                 /\ execs'[cur].at \in {"sync", "succeeded"} => emb' # {} \/ KeptRows' = {}
      <3>1. CASE cur = i
        BY <1>4, <2>2, <3>1
      <3>2. CASE cur # i
        BY <1>4, <2>2, <3>2 DEF LoadInv, KeptRows
      <3> QED BY <3>1, <3>2
    <2> QED BY <1>1, <1>4, <2>1, <2>2 DEF LoadInv
  <1> QED BY <1>2, <1>3, <1>4

LEMMA LoadExec ==
  ASSUME GcpInv, NEW i \in DOMAIN execs, Execute(i), UNCHANGED <<stage, cur>>
  PROVE  LoadInv'
  <1>0. /\ execs \in Seq(Execs) /\ execs[i] \in Execs /\ ModeOf(execs[i]) /\ LoadInv /\ vec \subseteq emb
        /\ cur # 0 => cur \in DOMAIN execs
        /\ GcpTypeOK /\ ModeInv
    <2>1. execs \in Seq(Execs) /\ cur \in 0..Len(execs)
      BY DEF GcpInv, GcpTypeOK, DbTypeOK, SetupTypeOK, Execs
    <2> QED BY <2>1 DEF GcpInv, GcpTypeOK, DbTypeOK, ModeInv
  <1>1. /\ execs' \in Seq(Execs) /\ DOMAIN execs' = DOMAIN execs /\ execs'[i] \in Execs
        /\ execs'[i].mode = execs[i].mode /\ \A k \in DOMAIN execs : k # i => execs'[k] = execs[k]
        /\ ModeOf(execs'[i])
    BY <1>0, ExecFacts
  <1>x. ASSUME Doomed(execs[i])' \/ Reloads(execs[i])' PROVE Excused'
    BY <1>1, <1>x DEF Excused
  (* The execution neither has nor gets an excuse, and the data stay. *)
  <1>k. ASSUME ~Doomed(execs[i]), ~Reloads(execs[i]), UNCHANGED <<raw, emb, vec, upset, deleted, calls>>,
               cur = i /\ stage = "full" =>
                 /\ execs'[i].at = "embed" => execs[i].at = "embed"
                 /\ execs'[i].at \in {"sync", "succeeded"} => execs[i].at = "sync" \/ emb # {}
        PROVE  LoadInv'
    <2>0. KeptRows' = KeptRows
      BY <1>k DEF KeptRows
    <2>1. Excused => Excused'
      BY <1>1, <1>k, ExcusedStays
    <2>2. CASE Excused
      BY <1>0, <1>1, <1>k, <2>1, <2>2, LoadStep
    <2>3. CASE ~Excused
      <3>1. (emb' = {} \/ (KeptRows \subseteq raw \cap vec)') /\ (raw' = {} \/ KeptRows' \subseteq raw')
        BY <1>0, <1>k, <2>0, <2>3 DEF LoadInv
      <3>2. ASSUME cur = i, stage = "full"
            PROVE  /\ execs'[i].at = "embed" => KeptRows' \subseteq raw'
                   /\ execs'[i].at \in {"sync", "succeeded"} => emb' # {} \/ KeptRows' = {}
        <4>1. cur # 0
          BY <1>0, <3>2
        <4> QED BY <1>0, <1>k, <2>0, <2>3, <3>2, <4>1 DEF LoadInv
      <3> QED BY <1>0, <1>1, <1>k, <2>0, <2>3, <3>1, <3>2, LoadStep
    <2> QED BY <2>2, <2>3
  <1>e. ASSUME Excused' PROVE LoadInv'
    BY <1>0, <1>1, <1>e, LoadStep
  <1>2. CASE Die(i)
    <2>1. End(i, "failed") /\ UNCHANGED <<raw, emb, vec, upset, deleted, calls>>
      BY <1>2 DEF Die, dataVars
    <2>2. execs'[i].at = "failed"
      BY <1>0, <2>1, Over
    <2>3. CASE execs[i].mode # "verify"
      BY <1>1, <1>e, <1>x, <2>2, <2>3 DEF Doomed
    <2>4. CASE execs[i].mode = "verify"
      BY <1>k, <2>1, <2>2, <2>4 DEF Doomed, Reloads
    <2> QED BY <2>3, <2>4
  <1>3. CASE Connect(i)
    <2> DEFINE where == CASE execs[i].mode = "verify" -> "count"
                          [] execs[i].mode = "force" -> "dropEmb"
                          [] execs[i].mode = "load" -> "schema"
    <2>1. Go(i, where) /\ execs[i].at = "start" /\ UNCHANGED <<raw, emb, vec, upset, deleted, calls>>
      BY <1>3 DEF Connect, dataVars, At
    <2>2. where \in {"count", "dropEmb", "schema"}
      BY <1>0 DEF Execs, Modes
    <2> HIDE DEF where
    <2>3. execs'[i].at \in {"count", "dropEmb", "schema"}
      BY <1>0, <2>1, <2>2, Went
    <2>4. ~Doomed(execs[i]) /\ ~Reloads(execs[i])
      BY <1>0, <2>1 DEF Doomed, Reloads, ModeOf
    <2> QED BY <1>k, <2>1, <2>3, <2>4
  <1>4. CASE Count(i)
    <2>1. End(i, "succeeded") /\ execs[i].mode = "verify" /\ UNCHANGED <<raw, emb, vec, upset, deleted, calls>>
      BY <1>0, <1>4 DEF Count, Emit, At, dataVars, ModeOf
    <2>2. cur = i /\ stage = "full" => FALSE
      <3>1. cur = i => cur # 0
        BY <1>0
      <3> QED BY <1>0, <2>1, <3>1 DEF LoadInv
    <2> QED BY <1>k, <2>1, <2>2 DEF Doomed, Reloads
  <1>5. CASE DropEmb(i) \/ DropRaw(i)
    <2>1. /\ execs[i].mode = "force"
          /\ Go(i, "dropRaw") \/ Go(i, "schema")
      BY <1>0, <1>5 DEF DropEmb, DropRaw, At, ModeOf
    <2>2. execs'[i].at \in {"dropRaw", "schema"}
      BY <1>0, <2>1, Went
    <2>3. Reloads(execs[i])'
      BY <1>1, <2>1, <2>2 DEF Reloads
    <2> QED BY <1>e, <1>x, <2>3
  <1>6. CASE ApplySchema(i)
    <2>1. Go(i, "raw") /\ execs[i].at = "schema" /\ UNCHANGED <<raw, emb, vec, upset, deleted, calls>>
      BY <1>6 DEF ApplySchema, At
    <2>2. execs'[i].at = "raw"
      BY <1>0, <2>1, Went
    <2>3. CASE execs[i].mode = "force"
      <3>1. Reloads(execs[i])'
        BY <1>1, <2>2, <2>3 DEF Reloads
      <3> QED BY <1>e, <1>x, <3>1
    <2>4. CASE execs[i].mode # "force"
      <3>1. ~Doomed(execs[i]) /\ ~Reloads(execs[i])
        BY <1>0, <2>1, <2>4 DEF Doomed, Reloads, ModeOf
      <3> QED BY <1>k, <2>1, <2>2, <3>1
    <2> QED BY <2>3, <2>4
  <1>7. CASE LoadRaw(i)
    <2>1. /\ Go(i, "embed") /\ execs[i].at = "raw" /\ UNCHANGED <<emb, vec, upset, deleted, calls>>
          /\ raw' = IF execs[i].mode = "load" /\ raw # {} THEN raw ELSE raw \cup Csv
      BY <1>7 DEF LoadRaw, At
    <2>2. execs'[i].at = "embed"
      BY <1>0, <2>1, Went
    <2>3. CASE execs[i].mode = "force"
      <3>1. KeptRows' \subseteq raw' /\ execs'[i].mode = "force"
        BY <1>1, <2>1, <2>3 DEF KeptRows
      <3>2. Reloads(execs[i])'
        BY <2>2, <3>1 DEF Reloads
      <3> QED BY <1>e, <1>x, <3>2
    <2>4. CASE execs[i].mode # "force"
      <3>1. execs[i].mode = "load"
        BY <1>0, <2>1, <2>4 DEF ModeOf, Execs, Modes
      <3>2. ~Doomed(execs[i]) /\ ~Reloads(execs[i])
        BY <1>0, <2>1, <2>4 DEF Doomed, Reloads, ModeOf
      <3>3. raw \subseteq raw'
        BY <2>1
      <3>4. Excused => Excused'
        BY <1>1, <2>1, <3>2, <3>3, ExcusedStays
      <3>5. CASE ~Excused
        <4>1. KeptRows' \subseteq raw' /\ (emb' = {} \/ (KeptRows \subseteq raw \cap vec)')
          BY <1>0, <2>1, <3>1, <3>5 DEF LoadInv, KeptRows
        <4> QED BY <1>0, <1>1, <2>1, <2>2, <3>5, <4>1, LoadStep
      <3> QED BY <1>e, <3>4, <3>5
    <2> QED BY <2>3, <2>4
  <1>8. CASE SkipLoad(i)
    <2>1. /\ End(i, "succeeded") /\ execs[i].at = "embed" /\ execs[i].mode = "load" /\ vec # {}
          /\ UNCHANGED <<raw, emb, vec, upset, deleted, calls>>
      BY <1>8 DEF SkipLoad, HasData, Emit, At, dataVars
    <2>2. execs'[i].at = "succeeded" /\ emb # {}
      BY <1>0, <2>1, Over
    <2>3. ~Doomed(execs[i]) /\ ~Reloads(execs[i])
      BY <1>0, <2>1 DEF Doomed, Reloads, ModeOf
    <2> QED BY <1>k, <2>1, <2>2, <2>3
  <1>9. CASE CopyScalars(i)
    <2> DEFINE e == [execs[i] EXCEPT !.at = "sync", !.todo = emb \cup raw]
    <2>1. /\ execs[i].at = "embed" /\ emb' = emb \cup raw /\ UNCHANGED <<raw, vec, upset, deleted, calls>>
          /\ execs' = [execs EXCEPT ![i] = e]
      BY <1>9 DEF CopyScalars, At
    <2>2. e.at = "sync" /\ e.todo = emb \cup raw /\ e.bad = execs[i].bad
      BY <1>0 DEF Execs
    <2>3. execs'[i] = e
      BY <1>0, <2>1
    <2> HIDE DEF e
    <2>4. ~execs[i].bad /\ execs[i].mode # "verify"
      BY <1>0, <2>1 DEF ModeOf
    <2>5. CASE KeptRows \subseteq raw
      <3>1. KeptRows' \subseteq (raw \cap emb)' /\ KeptRows' \subseteq vec' \cup execs'[i].todo
        BY <2>1, <2>2, <2>3, <2>5 DEF KeptRows
      <3>2. Reloads(execs[i])'
        BY <1>1, <2>2, <2>3, <2>4, <3>1 DEF Reloads
      <3> QED BY <1>e, <1>x, <3>2
    <2>6. CASE ~(KeptRows \subseteq raw)
      <3>1. ~Doomed(execs[i]) /\ ~Reloads(execs[i])
        BY <2>1, <2>4, <2>6 DEF Doomed, Reloads
      <3>2. Excused => Excused'
        BY <1>1, <2>1, <3>1, ExcusedStays
      <3>3. CASE ~Excused
        <4>1. raw = {} /\ emb = {}
          BY <1>0, <2>6, <3>3 DEF LoadInv
        <4>2. ~(cur = i /\ stage = "full")
          <5>1. cur = i => cur # 0
            BY <1>0
          <5> QED BY <1>0, <2>1, <2>6, <3>3, <5>1 DEF LoadInv
        <4>3. emb' = {} /\ raw' = {}
          BY <2>1, <4>1
        <4> QED BY <1>0, <1>1, <2>1, <2>6, <3>3, <4>1, <4>2, <4>3, LoadStep
      <3> QED BY <1>e, <3>2, <3>3
    <2> QED BY <2>5, <2>6
  <1>10. CASE SyncRow(i)
    <2> DEFINE r == Min(execs[i].todo)
               d == [execs[i] EXCEPT !.todo = @ \ {r}]
               b == [execs[i] EXCEPT !.todo = @ \ {r}, !.bad = TRUE]
    <2>1. /\ execs[i].at = "sync" /\ UNCHANGED <<raw, emb, upset, deleted, calls>>
          /\ \/ vec' = vec \cup Written(r) /\ execs' = [execs EXCEPT ![i].todo = @ \ {r}]
             \/ vec' = vec /\ execs' = [execs EXCEPT ![i].todo = @ \ {r}, ![i].bad = TRUE]
      BY <1>10 DEF SyncRow, At
    <2> HIDE DEF r
    <2>2. \/ vec' = vec \cup Written(r) /\ execs'[i] = d
          \/ vec' = vec /\ execs'[i] = b
      BY <1>0, <2>1
    <2>3. /\ d.todo = execs[i].todo \ {r} /\ d.bad = execs[i].bad /\ d.at = "sync"
          /\ b.bad = TRUE /\ b.at = "sync"
      BY <1>0, <2>1 DEF Execs
    <2> HIDE DEF d, b
    <2>4. execs[i].mode # "verify"
      BY <1>0, <2>1 DEF ModeOf
    <2>5. CASE execs'[i] = b
      <3>1. Doomed(execs[i])'
        BY <1>1, <2>3, <2>4, <2>5 DEF Doomed
      <3> QED BY <1>e, <1>x, <3>1
    <2>6. CASE vec' = vec \cup Written(r) /\ execs'[i] = d
      <3>1. Doomed(execs[i]) => Doomed(execs[i])'
        BY <1>1, <2>1, <2>3, <2>6 DEF Doomed
      <3>2. ASSUME Reloads(execs[i]) PROVE Reloads(execs[i])'
        <4>1. ~execs[i].bad /\ KeptRows \subseteq raw \cap emb /\ KeptRows \subseteq vec \cup execs[i].todo
          BY <2>1, <3>2 DEF Reloads
        <4>2. KeptRows \subseteq vec' \cup execs'[i].todo /\ KeptRows' = KeptRows
          BY <2>1, <2>3, <2>6, <4>1 DEF Written, KeptRows
        <4> QED BY <1>1, <2>1, <2>3, <2>4, <2>6, <4>1, <4>2 DEF Reloads
      <3>3. vec \subseteq vec'
        BY <2>6
      <3>4. Excused => Excused'
        BY <1>1, <1>x, <2>1, <3>1, <3>2, <3>3, ExcusedStays
      <3>5. CASE ~Excused
        <4>1. (emb' = {} \/ (KeptRows \subseteq raw \cap vec)') /\ (raw' = {} \/ KeptRows' \subseteq raw')
          BY <1>0, <2>1, <3>3, <3>5 DEF LoadInv, KeptRows
        <4>2. ASSUME cur = i, stage = "full" PROVE emb' # {} \/ KeptRows' = {}
          <5>1. cur # 0
            BY <1>0, <4>2
          <5> QED BY <1>0, <2>1, <3>5, <4>2, <5>1 DEF LoadInv, KeptRows
        <4>3. execs'[i].at = "sync" /\ KeptRows' = KeptRows
          BY <2>1, <2>3, <2>6 DEF KeptRows
        <4> QED BY <1>0, <1>1, <2>1, <3>5, <4>1, <4>2, <4>3, LoadStep
      <3> QED BY <1>e, <3>4, <3>5
    <2> QED BY <2>2, <2>5, <2>6
  <1>11. CASE FinishSync(i)
    <2>1. /\ End(i, "succeeded") /\ execs[i].at = "sync" /\ execs[i].todo = {} /\ ~execs[i].bad
          /\ upset' = (upset /\ ~Whole) /\ deleted' = (IF Whole THEN {} ELSE deleted)
          /\ UNCHANGED <<raw, emb, vec, calls>>
      BY <1>11 DEF FinishSync, Complete, Emit, At
    <2>2. execs'[i].at = "succeeded"
      BY <1>0, <2>1, Over
    <2>3. CASE Whole
      <3>1. (KeptRows \subseteq raw \cap vec)' /\ vec' \subseteq emb'
        BY <1>0, <2>1, <2>3 DEF Whole, KeptRows
      <3> QED BY <1>0, <1>1, <3>1, LoadStep
    <2>4. CASE ~Whole /\ KeptRows \subseteq raw \cap vec
      <3>1. (KeptRows \subseteq raw \cap vec)' /\ vec' \subseteq emb'
        BY <1>0, <2>1, <2>4 DEF KeptRows
      <3> QED BY <1>0, <1>1, <3>1, LoadStep
    <2>5. CASE ~(KeptRows \subseteq raw \cap vec)
      <3>1. ~Doomed(execs[i]) /\ ~Reloads(execs[i])
        BY <2>1, <2>5 DEF Doomed, Reloads
      <3>2. ~Whole
        BY <2>5 DEF Whole, KeptRows
      <3>3. upset' = upset /\ deleted' = deleted
        BY <1>0, <2>1, <3>2 DEF GcpTypeOK, DbTypeOK
      <3> QED BY <1>k, <2>1, <2>2, <3>1, <3>3
    <2> QED BY <2>3, <2>4, <2>5
  <1>12. CASE CopyAlone(i)
    <2>1. upset' = TRUE
      BY <1>12 DEF CopyAlone
    <2> QED BY <1>e, <2>1 DEF Excused
  <1> QED BY <1>2, <1>3, <1>4, <1>5, <1>6, <1>7, <1>8, <1>9, <1>10, <1>11, <1>12 DEF Execute, Work

LEMMA GcpLoadInv ==
  ASSUME GcpInv, [GcpNext]_gcpVars
  PROVE  LoadInv'
  <1>0. /\ GcpTypeOK /\ QueueInv /\ CredInv /\ ModeInv /\ LoadInv /\ execs \in Seq(Execs) /\ Len(execs) \in Nat
        /\ cur \in 0..Len(execs)
    <2>1. execs \in Seq(Execs) /\ cur \in 0..Len(execs)
      BY DEF GcpInv, GcpTypeOK, DbTypeOK, SetupTypeOK, Execs
    <2> QED BY <2>1 DEF GcpInv
  <1>u. ASSUME UNCHANGED <<raw, emb, vec, upset, deleted, calls, execs, stage, cur>> PROVE LoadInv'
    BY <1>0, <1>u DEF LoadInv, Excused, Doomed, Reloads, KeptRows
  <1>p. ASSUME UNCHANGED <<raw, emb, vec, upset, deleted, calls, execs>>, Pass \/ Stop PROVE LoadInv'
    <2>1. CASE Stop
      BY <1>0, <1>p, <2>1 DEF Stop, LoadInv, Excused, Doomed, Reloads, KeptRows
    <2>2. CASE Pass
      BY <1>p, <1>u, <2>2 DEF Pass, setupVars
    <2> QED BY <1>p, <2>1, <2>2
  <1>1. CASE StartDeploy \/ StartTeardown \/ NewPassword \/ SkipStack
    BY <1>1, <1>u DEF StartDeploy, StartTeardown, NewPassword, SkipStack, dbVars, setupVars
  <1>2. CASE RaiseOut \/ Through \/ PlanFails \/ ApplyShared \/ ApplyApp \/ ApplyDurable \/ EnsureSecrets
             \/ EndSetup \/ BuildPhase \/ DestroyStack \/ DestroySql \/ WaitGone \/ DeletePeering \/ DestroyDurable
    <2>1. (Pass \/ Stop) /\ UNCHANGED <<raw, emb, vec, upset, deleted, calls, execs>>
      BY <1>2 DEF RaiseOut, Through, PlanFails, ApplyShared, ApplyApp, Bootstrap, ApplyDurable, EnsureSecrets,
                  EndSetup, BuildPhase, DestroyStack, DestroySql, WaitGone, DeletePeering, DestroyDurable,
                  dbVars, dataVars
    <2> QED BY <1>p, <2>1
  <1>3. CASE BeginSetup
    <2>1. cur' = 0 /\ stage' = "full" /\ UNCHANGED <<raw, emb, vec, upset, deleted, calls, execs>>
      BY <1>0, <1>3 DEF BeginSetup, dbVars, QueueInv
    <2> QED BY <1>0, <2>1 DEF LoadInv, Excused, Doomed, Reloads, KeptRows
  <1>4. CASE Setup /\ UNCHANGED <<tool, queue, tools, force, cloudVars>>
    <2>1. /\ stage \in {"full", "verify"} /\ stage' \in {"full", "verify", "ok", "recovered", "failed"}
          /\ stage' = "ok" => step = "read" /\ stage = "full"
          /\ \/ cur' = 0 /\ stage' # stage
             \/ stage' = stage /\ cur' = cur
             \/ stage' = stage /\ step = "execute" /\ cur' = Len(execs')
                /\ execs' = Append(execs, Execution(job, force))
      BY <1>4, SetupMoves
    <2>2. /\ UNCHANGED <<raw, emb, vec, upset, deleted, calls>> /\ execs' \in Seq(Execs)
          /\ Len(execs) <= Len(execs') /\ \A k \in DOMAIN execs : k \in DOMAIN execs' /\ execs'[k] = execs[k]
      BY <1>0, <1>4, SetupFacts
    <2>k. KeptRows' = KeptRows
      BY <2>2 DEF KeptRows
    <2>3. Excused => Excused'
      BY <2>2, <2>k DEF Excused, Doomed, Reloads
    <2>4. /\ ~Excused' => emb' = {} \/ (KeptRows \subseteq raw \cap vec)'
          /\ ~Excused' => raw' = {} \/ KeptRows' \subseteq raw'
      BY <1>0, <2>2, <2>k, <2>3 DEF LoadInv
    <2>5. (stage = "ok" => Excused \/ emb # {} \/ KeptRows = {})'
      <3>1. step = "read" /\ stage = "full" => cur # 0 /\ execs[cur].at = "succeeded"
        BY <1>0 DEF CredInv
      <3> QED BY <1>0, <2>1, <2>2, <2>k, <2>3, <3>1 DEF LoadInv
    <2>6. ASSUME cur' # 0, stage' = "full"
          PROVE  /\ execs'[cur'].mode # "verify"
                 /\ execs'[cur'].at = "embed" => Excused' \/ KeptRows' \subseteq raw'
                 /\ execs'[cur'].at \in {"sync", "succeeded"} => Excused' \/ emb' # {} \/ KeptRows' = {}
      <3>1. CASE stage' = stage /\ cur' = cur
        <4>1. execs'[cur'] = execs[cur]
          BY <1>0, <2>2, <2>6, <3>1
        <4> QED BY <1>0, <2>2, <2>k, <2>3, <2>6, <3>1, <4>1 DEF LoadInv
      <3>2. CASE stage' = stage /\ step = "execute" /\ cur' = Len(execs') /\ execs' = Append(execs, Execution(job, force))
        <4>1. execs'[cur'] = Execution(job, force)
          BY <1>0, <3>2
        <4>2. job # "verify"
          BY <1>0, <2>6, <3>2 DEF ModeInv
        <4> QED BY <4>1, <4>2 DEF Execution
      <3> QED BY <2>1, <2>6, <3>1, <3>2
    <2> QED BY <2>4, <2>5, <2>6 DEF LoadInv
  <1>5. CASE InstanceGone /\ UNCHANGED toolVars
    <2>1. ~Proven /\ UNCHANGED <<execs, stage, cur>> /\ emb' = {} /\ raw' = {}
      BY <1>5 DEF InstanceGone, toolVars, Proven
    <2>2. stage # "ok"
      BY <1>0, <2>1 DEF CredInv
    <2>3. cur # 0 /\ stage = "full" => execs[cur].at \in {"start", "failed"} /\ execs[cur].mode # "verify"
      BY <1>0, <2>1 DEF CredInv, LoadInv
    <2> QED BY <2>1, <2>2, <2>3 DEF LoadInv
  <1>6. ASSUME NEW i \in DOMAIN execs, Execute(i), UNCHANGED toolVars PROVE LoadInv'
    BY <1>6, LoadExec DEF toolVars
  <1>7. ASSUME NEW r \in Rows, SaveRow(r), UNCHANGED toolVars PROVE LoadInv'
    <2>1. /\ raw \subseteq raw' /\ emb \subseteq emb' /\ vec \subseteq vec' /\ KeptRows' = KeptRows
          /\ upset' = (upset \/ emb = {}) /\ UNCHANGED <<execs, stage, cur>>
      BY <1>7 DEF SaveRow, KeptRows, toolVars
    <2>2. Excused => Excused'
      BY <2>1 DEF Excused, Doomed, Reloads
    <2>3. emb = {} => Excused'
      BY <2>1 DEF Excused
    <2>4. CASE Excused'
      BY <1>0, <2>1, <2>4 DEF LoadInv
    <2>5. CASE ~Excused'
      <3>1. emb # {} /\ KeptRows \subseteq raw \cap vec
        BY <1>0, <2>2, <2>3, <2>5 DEF LoadInv
      <3>2. (KeptRows \subseteq raw \cap vec)' /\ KeptRows' \subseteq raw' /\ emb' # {}
        BY <2>1, <3>1
      <3> QED BY <1>0, <2>1, <3>2 DEF LoadInv
    <2> QED BY <2>4, <2>5
  <1>8. ASSUME NEW r \in Rows, DeleteRow(r), UNCHANGED toolVars PROVE LoadInv'
    <2>1. /\ raw' = raw \ {r} /\ emb' = emb \ {r} /\ vec' = vec \ {r} /\ UNCHANGED <<upset, execs, stage, cur>>
          /\ deleted' = deleted \cup ({r} \cap Csv) /\ KeptRows' = KeptRows \ {r}
      BY <1>8 DEF DeleteRow, KeptRows, toolVars
    <2>2. Excused => Excused'
      <3>1. ASSUME NEW k \in DOMAIN execs, Doomed(execs[k]) \/ Reloads(execs[k])
            PROVE  Doomed(execs[k])' \/ Reloads(execs[k])'
        BY <2>1, <3>1 DEF Doomed, Reloads
      <3> QED BY <2>1, <3>1 DEF Excused
    <2>3. CASE Excused'
      BY <1>0, <2>1, <2>3 DEF LoadInv
    <2>4. CASE ~Excused'
      <3>1. /\ emb = {} \/ KeptRows \subseteq raw \cap vec
            /\ raw = {} \/ KeptRows \subseteq raw
        BY <1>0, <2>2, <2>4 DEF LoadInv
      <3>2. /\ emb' = {} \/ (KeptRows \subseteq raw \cap vec)'
            /\ raw' = {} \/ KeptRows' \subseteq raw'
            /\ KeptRows \subseteq raw => KeptRows' \subseteq raw'
        BY <2>1, <3>1
      <3>3. emb # {} \/ KeptRows = {} => emb' # {} \/ KeptRows' = {}
        <4>1. vec \subseteq emb
          BY <1>0 DEF GcpTypeOK, DbTypeOK
        <4> QED BY <2>1, <3>1, <4>1
      <3> QED BY <1>0, <2>1, <2>2, <2>4, <3>2, <3>3 DEF LoadInv
    <2> QED BY <2>3, <2>4
  <1>9. CASE UNCHANGED gcpVars
    BY <1>9, <1>u DEF gcpVars
  <1> QED BY <1>1, <1>2, <1>3, <1>4, <1>5, <1>6, <1>7, <1>8, <1>9 DEF GcpNext

-----------------------------------------------------------------------------
(* Theorems. *)

(* The inductive invariant: the order of the phases, what stands on what, and what *)
(* every execution of the job has done and will do.                                    *)
THEOREM GcpInvariant == GcpSpec => []GcpInv
  <1>1. GcpInit => GcpInv
    BY GcpInitInv
  <1>2. GcpInv /\ [GcpNext]_gcpVars => GcpInv'
    BY GcpTypeInv, GcpQueueInv, GcpStackInv, GcpCredInv, GcpModeInv, GcpLoadInv DEF GcpInv
  <1> QED BY <1>1, <1>2, PTL DEF GcpSpec

(* Whatever fails in a teardown, nothing stands on what is gone but what a destroy *)
(* left behind, and the peering is not forgotten: the order of the queue carries it.   *)
THEOREM TeardownOrdered == GcpSpec => []TeardownIsOrdered
  <1>1. GcpInv => TeardownIsOrdered
    BY DEF GcpInv, StackInv, TeardownIsOrdered
  <1> QED BY <1>1, GcpInvariant, PTL

(* The application is deployed only with a password that the database takes: no phase *)
(* comes between the execution that connected and the deploy of what connects next.     *)
THEOREM CredentialsAreProven == GcpSpec => []CredentialsProven
  <1>1. GcpInv => CredentialsProven
    <2> SUFFICES ASSUME GcpInv, AfterSetup PROVE Proven
      BY DEF CredentialsProven, Proven
    <2>1. queue \in Seq(Phases) /\ QueueInv /\ CredInv /\ tool = "deploy"
      BY DEF GcpInv, GcpTypeOK, AfterSetup
    <2>2. 1 \in DOMAIN queue /\ queue[1] \in Afterwards /\ \A i \in DOMAIN queue : 1 \in 1..i
      BY <2>1 DEF AfterSetup, Phase, Afterwards, AppStacks
    <2>3. stage \in {"ok", "recovered"}
      BY <2>1, <2>2 DEF QueueInv, SetupAhead
    <2> QED BY <2>1, <2>3 DEF CredInv
  <1> QED BY <1>1, GcpInvariant, PTL

(* A database found good without a second count has the vector of every row of the  *)
(* file that no user deleted, or else a load failed or is under way, had no             *)
(* credentials, or came after a user's row.                                              *)
THEOREM LacksOnlyAfterFailure == GcpSpec => []LacksOnlyAfterFailedLoad
  <1>1. GcpInv => LacksOnlyAfterFailedLoad
    <2> SUFFICES ASSUME GcpInv, stage = "ok", ~(Csv \subseteq vec \cup deleted), ~upset
                 PROVE  \E i \in DOMAIN execs : execs[i].mode # "verify" /\ execs[i].at # "succeeded"
      BY DEF LacksOnlyAfterFailedLoad
    <2>1. LoadInv /\ \A i \in DOMAIN execs : ModeOf(execs[i])
      BY DEF GcpInv, ModeInv
    <2>2. Excused
      <3>1. vec \subseteq emb /\ ~(KeptRows \subseteq vec)
        BY DEF GcpInv, GcpTypeOK, DbTypeOK, KeptRows
      <3> QED BY <2>1, <3>1 DEF LoadInv
    <2>3. PICK i \in DOMAIN execs : Doomed(execs[i]) \/ Reloads(execs[i])
      BY <2>2 DEF Excused
    <2>4. execs[i].mode # "verify" /\ execs[i].at # "succeeded"
      BY <2>1, <2>3 DEF Doomed, Reloads, ModeOf
    <2> QED BY <2>4
  <1> QED BY <1>1, GcpInvariant, PTL

(* A row or a vector is lost only with the instance, to a user who deletes it, or to  *)
(* an execution that a deploy with --force-refresh-data launched: a mode never outlives  *)
(* the deploy that set it.                                                                 *)
THEOREM KeptByEveryStep == GcpSpec => KeptUnlessForced
  <1> DEFINE Kind == \/ vec \subseteq vec' /\ raw \subseteq raw'
                     \/ sql' = "none"
                     \/ \E r \in Rows : DeleteRow(r)
                     \/ \E i \in DOMAIN execs : execs[i].asked /\ ~Ended(execs[i])
  <1>1. GcpInv /\ [GcpNext]_gcpVars => [Kind]_gcpVars
    <2> SUFFICES ASSUME GcpInv, GcpNext PROVE Kind
      OBVIOUS
    <2>0. GcpTypeOK /\ ModeInv
      BY DEF GcpInv
    <2>1. ASSUME NEW i \in DOMAIN execs, Execute(i) PROVE Kind
      <3>1. /\ ~Ended(execs[i]) /\ ModeOf(execs[i])
            /\ execs[i].at \notin {"dropEmb", "dropRaw"} => vec \subseteq vec' /\ raw \subseteq raw'
        BY <2>0, <2>1, ExecFacts DEF ModeInv
      <3>2. execs[i].at \in {"dropEmb", "dropRaw"} => execs[i].asked
        BY <3>1 DEF ModeOf
      <3> QED BY <3>1, <3>2
    <2>2. CASE InstanceGone
      BY <2>2 DEF InstanceGone
    <2>3. ASSUME NEW r \in Rows, SaveRow(r) \/ DeleteRow(r) PROVE Kind
      BY <2>3 DEF SaveRow, DeleteRow
    <2>4. CASE Setup
      BY <2>0, <2>4, SetupFacts
    <2>5. CASE UNCHANGED <<raw, vec>>
      BY <2>5
    <2>6. \/ UNCHANGED <<raw, vec>> \/ Setup \/ InstanceGone \/ (\E i \in DOMAIN execs : Execute(i))
          \/ \E r \in Rows : SaveRow(r) \/ DeleteRow(r)
      BY DEF GcpNext, StartDeploy, StartTeardown, RaiseOut, Through, NewPassword, PlanFails, ApplyShared, ApplyApp,
             ApplyDurable, EnsureSecrets, BeginSetup, EndSetup, BuildPhase, SkipStack, DestroyStack, DestroySql,
             WaitGone, DeletePeering, DestroyDurable, dbVars, dataVars
    <2> QED BY <2>1, <2>2, <2>3, <2>4, <2>5, <2>6
  <1> QED BY <1>1, GcpInvariant, PTL DEF GcpSpec, KeptUnlessForced

-----------------------------------------------------------------------------
(* Images: the inductive invariant.  What a deploy has read, pushed or found     *)
(* holds while the history is trusted; its shape and its flow hold always.         *)

Steps == {"idle", "decide", "hash", "app", "spark", "push", "store", "copy", "resolve", "done", "unresolved"}
Building == {"hash", "app", "spark", "push", "store"}
Settled == {"resolve", "done"}

Deploys == [mode : {"normal", "force", "skip"}, noSpark : BOOLEAN, given : {None, Pinned}, alone : BOOLEAN,
            pc : Steps, tag : Tags(MaxRuns) \cup {None}, from : Trees, hash : Trees,
            app : Trees \cup {None}, spark : Trees \cup {None}, k : Nat,
            how : {"none", "asked", "skipped", "built"}]

ImageShape ==
  /\ TypeOK /\ run \in Deploys /\ recorded \subseteq {"app", "spark"}
  /\ removed \subseteq {"app", "spark"}
  /\ reg = [p \in PartSet(at) |-> reg[p]]

(* Where a deploy can be, of which target, and with which tag. *)
Flow ==
  /\ run.noSpark => at = "local"
  /\ run.given # None => at # "local"
  /\ run.alone => at # "local" /\ run.given = None
  /\ at = "local" => run.mode # "skip" /\ run.pc \notin {"hash", "push", "copy", "resolve", "unresolved"}
  /\ run.pc = "copy" => at = "aws"
  /\ run.pc \in Building => run.how = "built"
  /\ run.pc = "copy" => run.how \in {"asked", "skipped"}
  /\ run.pc \in Settled => run.how # "none"
  /\ at = "local" /\ run.pc \notin {"idle", "decide"} => run.tag = Latest /\ run.how \in {"skipped", "built"}
  /\ at # "local" /\ run.pc \in Building \cup Settled /\ run.how = "built" => run.tag \in Tags(MaxRuns) \ {Latest}
  /\ run.pc \in {"decide", "hash", "app", "spark"} => run.k = 1
  /\ run.pc = "push" => run.k \in 1..Len(Pushes(at))
  /\ run.pc = "store" => run.k \in 1..Len(ToStore)
  /\ run.pc \in {"spark", "push"} => run.app \in Trees
  /\ run.pc = "push" => run.spark \in Trees

(* The image under a tag is that of the source the deploy was started on. *)
Made(p, v) == v \in DOMAIN reg[p] /\ reg[p][v] = Content(p, run.from)

(* What a deploy has read of the source, or of the hashes. *)
ReadInv ==
  /\ run.pc \in {"hash", "app", "spark"} => tree = run.from
  /\ run.pc \in Building \ {"hash"} => run.hash = run.from
  /\ run.pc \in {"spark", "push", "store"} => run.app = Content("app", run.from)
  /\ run.pc \in {"push", "store"} /\ ~run.noSpark => run.spark = Content("spark", run.from)
  /\ run.how = "skipped" /\ run.pc \in {"copy"} \cup Settled =>
       \A p \in Compared : stored[p] = Hash(p, run.from)

(* What it has pushed, or built in place, or found. *)
PushInv ==
  /\ run.pc = "push" =>
       /\ run.k > 1 => Made("app", run.tag) /\ run.tag \in torn
       /\ run.k > 2 => Made("app", Latest)
       /\ run.k > 3 => Made("spark", PushedTag("spark"))
       /\ run.k > 5 => Made("proxy", run.tag)
  /\ at # "local" /\ run.how = "built" /\ run.pc \in {"store"} \cup Settled =>
       /\ \A p \in PartSet(at) : Made(p, PushedTag(p))
       /\ run.alone => run.tag \in torn
  /\ at # "local" /\ run.pc = "store" => Made("app", Latest)
  /\ at = "local" /\ run.how = "built" /\ run.pc \in {"spark", "store", "done"} => Made("app", Latest)
  /\ at = "local" /\ run.how = "built" /\ run.pc \in {"store", "done"} /\ ~run.noSpark => Made("spark", Latest)
  /\ at # "local" /\ run.pc = "done" /\ run.how # "built" /\ run.given = None => run.tag \in Versions(reg)

(* A version that no build left halfway is there for every part, and of one tree. *)
VersionsWhole ==
  \A v \in DOMAIN reg["app"] \ ({Latest} \cup torn) : \A p \in PartSet(at) :
     v \in DOMAIN reg[p] /\ reg[p][v] = Content(p, reg["app"][v])

(* The tag latest of the app has a version, and a hash that is stored has that tag. *)
LatestNamed ==
  /\ Latest \in DOMAIN reg["app"] => Versions(reg) # {}
  /\ stored["app"] # None => Latest \in DOMAIN reg["app"]

(* A recorded hash is that of the image with the tag latest. *)
RecordedIsLatest ==
  \A p \in recorded : at = "local" \/ p = "app" =>
     Latest \in DOMAIN reg[p] /\ \E t \in Trees : reg[p][Latest] = Content(p, t) /\ stored[p] = Hash(p, t)

(* On the local machine a hash is stored only of an image that is there, unless a *)
(* teardown has removed it.                                                         *)
StoredIsThere ==
  \A p \in {"app", "spark"} \ removed : at = "local" /\ stored[p] # None => Latest \in DOMAIN reg[p]

RegistryInv == RecordedIsLatest /\ StoredIsThere /\ (at # "local" => VersionsWhole /\ LatestNamed /\ RecordedIsPushed)

ImageInv == ImageShape /\ Flow /\ (trusted => ReadInv /\ PushInv /\ SkipResolves /\ RegistryInv)

-----------------------------------------------------------------------------
(* Trees, tags and pushes. *)

LEMMA ContentFacts ==
  ASSUME NEW t \in Trees, NEW p
  PROVE  /\ Content(p, t) \in Trees /\ Hash(p, t) \in Trees
         /\ Hash(p, Content(p, t)) = Hash(p, t) /\ Hash(p, t) # None
         /\ Content("app", t) = t /\ (p # "app" => Content(p, t) = Content("spark", t))
  <1>1. Content(p, t) \in Trees /\ Hash(p, t) \in Trees
    BY DEF Content, Hash, Trees, Changes
  <1>2. Hash(p, Content(p, t)) = Hash(p, t)
    BY DEF Content, Hash, Trees, Changes
  <1>3. Content("app", t) = t /\ (p # "app" => Content(p, t) = Content("spark", t))
    BY DEF Content
  <1> QED BY <1>1, <1>2, <1>3, TreesAssumption

(* Trees with the same hash are of the same files, config aside; so are the parts of *)
(* trees with the same hash of the app.                                                 *)
LEMMA SameHash ==
  ASSUME NEW t \in Trees, NEW u \in Trees, NEW p \in {"app", "spark"},
         Hash(p, t) = Hash(p, u) \/ Hash("app", t) = Hash("app", u)
  PROVE  SameFiles(p, Content(p, t), u)
  <1>1. CASE Hash("app", t) = Hash("app", u)
    <2>1. t.head = u.head /\ (t.change = u.change \/ {u.change, t.change} = {"config", "none"})
      BY <1>1 DEF Hash, Content, Trees, Changes
    <2>2. t.change = u.change => t = u
      BY <2>1 DEF Trees
    <2>3. CASE p = "app"
      BY <2>1, <2>2, <2>3 DEF SameFiles, Content
    <2>4. CASE p = "spark"
      <3>1. Content("spark", t) = Content("spark", u)
        BY <2>1, <2>2 DEF Content, Trees, Changes
      <3> QED BY <2>4, <3>1 DEF SameFiles
    <2> QED BY <2>3, <2>4
  <1>2. CASE p = "spark" /\ Hash("spark", t) = Hash("spark", u)
    <2>1. \A x \in Trees : Hash("spark", x) = Content("spark", x)
      BY DEF Hash, Content, Trees, Changes
    <2> QED BY <1>2, <2>1 DEF SameFiles
  <1> QED BY <1>1, <1>2

LEMMA FirstFacts == First \in Trees /\ First.change = "none"
  BY TreesAssumption DEF First, Trees, Changes

LEMMA TagFacts ==
  ASSUME NEW t \in Trees, NEW n \in 0..MaxRuns
  PROVE  Tag(t, n) \in Tags(MaxRuns) /\ Tag(t, n) # Latest /\ Pinned \in Tags(MaxRuns) /\ Pinned # Latest
  <1>1. Tag(t, n) \in {<<h, m>> : h \in Heads, m \in 0..MaxRuns}
    BY BoundsAssumption DEF Tag, Trees
  <1>2. \A h \in Heads, m \in 0..MaxRuns : <<h, m>> # Latest
    BY TagsAssumption, BoundsAssumption
  <1>3. Tag(t, n) # Latest
    BY <1>1, <1>2
  <1> QED BY <1>1, <1>3, TagsAssumption DEF Tags

LEMMA PartsFacts ==
  ASSUME NEW target \in Targets
  PROVE  /\ PartSet(target) = IF target = "gcp" THEN {"app", "spark", "proxy"} ELSE {"app", "spark"}
         /\ Len(Pushes(target)) = IF target = "gcp" THEN 6 ELSE 4
  <1>1. CASE target = "gcp"
    <2>1. PartsOf(target) = <<"app", "spark", "proxy">>
      BY <1>1 DEF PartsOf
    <2>2. PartSet(target) = {<<"app", "spark", "proxy">>[i] : i \in {1, 2, 3}}
      BY <2>1 DEF PartSet
    <2>3. Len(Pushes(target)) = 6
      BY <2>1 DEF Pushes
    <2> QED BY <1>1, <2>2, <2>3
  <1>2. CASE target # "gcp"
    <2>1. PartsOf(target) = <<"app", "spark">>
      BY <1>2 DEF PartsOf
    <2>2. PartSet(target) = {<<"app", "spark">>[i] : i \in {1, 2}}
      BY <2>1 DEF PartSet
    <2>3. Len(Pushes(target)) = 4
      BY <2>1 DEF Pushes
    <2> QED BY <1>2, <2>2, <2>3
  <1> QED BY <1>1, <1>2

LEMMA PushesFacts ==
  ASSUME NEW target \in Targets, NEW k \in 1..Len(Pushes(target))
  PROVE  /\ k \in 1..6 /\ (k > 4 => target = "gcp")
         /\ Pushes(target)[k].part = (IF k <= 2 THEN "app" ELSE IF k <= 4 THEN "spark" ELSE "proxy")
         /\ Pushes(target)[k].latest <=> k \in {2, 4, 6}
  <1>0. Len(Pushes(target)) = IF target = "gcp" THEN 6 ELSE 4
    BY PartsFacts
  <1>1. k \in {1, 2, 3, 4, 5, 6} /\ (k > 4 => target = "gcp")
    BY <1>0
  <1>2. k \in 1..(2 * Len(PartsOf(target)))
    BY DEF Pushes
  <1>3. Pushes(target)[k] = [part |-> PartsOf(target)[(k + 1) \div 2], latest |-> k % 2 = 0]
    BY <1>2 DEF Pushes
  <1>4. /\ PartsOf(target)[1] = "app" /\ PartsOf(target)[2] = "spark"
        /\ target = "gcp" => PartsOf(target)[3] = "proxy"
    BY DEF PartsOf
  <1>5. /\ k \in {1, 2} => (k + 1) \div 2 = 1
        /\ k \in {3, 4} => (k + 1) \div 2 = 2
        /\ k \in {5, 6} => (k + 1) \div 2 = 3
        /\ k % 2 = 0 <=> k \in {2, 4, 6}
    BY <1>1
  <1>6. Pushes(target)[k].part = PartsOf(target)[(k + 1) \div 2] /\ Pushes(target)[k].latest = (k % 2 = 0)
    BY <1>3
  <1>7. Pushes(target)[k].latest <=> k \in {2, 4, 6}
    BY <1>5, <1>6
  <1>8. Pushes(target)[k].part = (IF k <= 2 THEN "app" ELSE IF k <= 4 THEN "spark" ELSE "proxy")
    BY <1>1, <1>4, <1>5, <1>6
  <1> QED BY <1>1, <1>7, <1>8

LEMMA TaggedFacts ==
  ASSUME reg = [p \in PartSet(at) |-> reg[p]], NEW p \in PartSet(at), NEW v, NEW image, reg' = Tagged(reg, p, v, image)
  PROVE  /\ reg' = [q \in PartSet(at) |-> reg'[q]]
         /\ DOMAIN reg'[p] = DOMAIN reg[p] \cup {v} /\ reg'[p][v] = image
         /\ \A w \in DOMAIN reg[p] : w # v => reg'[p][w] = reg[p][w]
         /\ \A q \in PartSet(at) : q # p => reg'[q] = reg[q]
  BY DEF Tagged, Put

-----------------------------------------------------------------------------
(* Steps. *)

LEMMA RegistryKept ==
  ASSUME RegistryInv, UNCHANGED <<at, reg, stored, recorded, torn, removed>>, trusted' => trusted
  PROVE  RegistryInv'
  BY DEF RegistryInv, RecordedIsLatest, StoredIsThere, VersionsWhole, LatestNamed, Versions, RecordedIsPushed

(* A step of the deploy alone. *)
LEMMA OnlyRun ==
  ASSUME ImageInv, UNCHANGED <<at, tree, edits, local, reg, stored, runs, history>>, run' \in Deploys
  PROVE  ImageShape' /\ (trusted' => trusted /\ RegistryInv')
  <1>1. UNCHANGED <<at, tree, edits, local, reg, stored, runs, trusted, recorded, torn, removed>>
    BY DEF history
  <1>2. run'.pc \in Steps /\ run'.tag \in Tags(MaxRuns) \cup {None}
    BY DEF Deploys
  <1>3. TypeOK'
    BY <1>1, <1>2 DEF ImageInv, ImageShape, TypeOK, Steps
  <1> QED BY <1>1, <1>3, RegistryKept DEF ImageInv, ImageShape

LEMMA IdleFacts ==
  Idle \in Deploys /\ Idle.pc = "idle" /\ Idle.mode = "normal" /\ ~Idle.noSpark /\ Idle.given = None
  /\ ~Idle.alone
  BY FirstFacts DEF Idle, Deploys, Steps

LEMMA WhenIdle ==
  ASSUME run' = Idle, ImageShape', trusted' => RegistryInv'
  PROVE  ImageInv'
  <1>1. run'.pc = "idle" /\ run'.mode = "normal" /\ ~run'.noSpark /\ run'.given = None /\ ~run'.alone
    BY IdleFacts
  <1>2. Flow'
    BY <1>1 DEF Flow, Building, Settled
  <1>3. ReadInv' /\ PushInv' /\ SkipResolves'
    BY <1>1 DEF ReadInv, PushInv, SkipResolves, Building, Settled
  <1> QED BY <1>2, <1>3 DEF ImageInv

LEMMA FailInv == ASSUME ImageInv, Fail \/ Return PROVE ImageInv'
  <1>1. run' = Idle /\ UNCHANGED <<at, tree, edits, local, reg, stored, runs, history>>
    BY DEF Fail, Return
  <1> QED BY <1>1, IdleFacts, OnlyRun, WhenIdle

LEMMA ImageInitInv == ASSUME Init PROVE ImageInv
  <1>0. /\ at \in Targets /\ tree = First /\ edits = 0 /\ runs = 0 /\ run = Idle /\ trusted = TRUE /\ torn = {}
        /\ removed = {}
    BY DEF Init
  <1>1. PICK deployed \in BOOLEAN, had \in BOOLEAN :
       /\ reg = [p \in PartSet(at) |->
                   IF ~deployed THEN << >>
                   ELSE [v \in IF at = "local" THEN {Latest} ELSE {Latest, Tag(First, 0)} |-> Content(p, First)]]
       /\ stored = [p \in {"app", "spark"} |-> IF deployed THEN Hash(p, First) ELSE None]
       /\ recorded = IF deployed THEN {"app", "spark"} ELSE {}
       /\ had => at = "aws"
       /\ local = [p \in {"app", "spark"} |-> IF had THEN Content(p, First) ELSE None]
    BY DEF Init
  <1>2. /\ First \in Trees /\ Tag(First, 0) \in Tags(MaxRuns) /\ Tag(First, 0) # Latest
        /\ \A p : Content(p, First) \in Trees /\ Hash(p, First) \in Trees /\ Hash(p, Content(p, First)) = Hash(p, First)
        /\ Content("app", First) = First
        /\ {"app", "spark"} \subseteq PartSet(at)
    <2>1. 0 \in 0..MaxRuns
      BY BoundsAssumption
    <2> QED BY <1>0, <2>1, FirstFacts, TagFacts, ContentFacts, PartsFacts
  <1>3. \A p \in PartSet(at) :
          IF deployed
          THEN /\ DOMAIN reg[p] = (IF at = "local" THEN {Latest} ELSE {Latest, Tag(First, 0)})
               /\ \A v \in DOMAIN reg[p] : reg[p][v] = Content(p, First)
          ELSE DOMAIN reg[p] = {}
    BY <1>1
  <1>4. ImageShape
    <2>1. Latest \in Tags(MaxRuns)
      BY DEF Tags
    <2>2. \A p \in PartSet(at) : DOMAIN reg[p] \subseteq Tags(MaxRuns) /\ \A v \in DOMAIN reg[p] : reg[p][v] \in Trees
      BY <1>2, <1>3, <2>1
    <2>3. edits \in 0..MaxEdits /\ runs \in 0..MaxRuns
      BY <1>0, BoundsAssumption
    <2>4. stored \in [{"app", "spark"} -> Trees \cup {None}] /\ local \in [{"app", "spark"} -> Trees \cup {None}]
      BY <1>1, <1>2
    <2>5. run \in Deploys /\ run.pc \in Steps /\ run.tag \in Tags(MaxRuns) \cup {None}
      BY <1>0, IdleFacts DEF Deploys
    <2>6. reg = [p \in PartSet(at) |-> reg[p]] /\ recorded \subseteq {"app", "spark"} /\ removed \subseteq {"app", "spark"}
      BY <1>0, <1>1
    <2>7. TypeOK
      BY <1>0, <1>2, <2>2, <2>3, <2>4, <2>5 DEF TypeOK, Steps
    <2> QED BY <2>5, <2>6, <2>7 DEF ImageShape
  <1>5. RegistryInv
    <2>1. RecordedIsLatest
      BY <1>1, <1>2, <1>3 DEF RecordedIsLatest
    <2>2. VersionsWhole
      BY <1>0, <1>2, <1>3 DEF VersionsWhole
    <2>3. ASSUME at # "local" PROVE LatestNamed
      <3>1. deployed => Tag(First, 0) \in Versions(reg)
        BY <1>2, <1>3, <2>3 DEF Versions
      <3> QED BY <1>1, <1>2, <1>3, <3>1 DEF LatestNamed
    <2>4. ASSUME at # "local" PROVE RecordedIsPushed
      <3>1. ASSUME NEW p \in {"app", "spark"}, stored[p] # None
            PROVE  \E v \in DOMAIN reg[p] \ {Latest} : Hash(p, reg[p][v]) = stored[p]
        <4>1. deployed /\ stored[p] = Hash(p, First)
          BY <1>1, <3>1
        <4>2. Tag(First, 0) \in DOMAIN reg[p] \ {Latest} /\ reg[p][Tag(First, 0)] = Content(p, First)
          BY <1>2, <1>3, <2>4, <4>1
        <4> QED BY <1>2, <4>1, <4>2
      <3> QED BY <3>1 DEF RecordedIsPushed
    <2>5. StoredIsThere
      BY <1>1, <1>2, <1>3 DEF StoredIsThere
    <2> QED BY <2>1, <2>2, <2>3, <2>4, <2>5 DEF RegistryInv
  <1>6. Flow
    BY <1>0, IdleFacts DEF Flow, Building, Settled
  <1>7. ReadInv /\ PushInv /\ SkipResolves
    BY <1>0, IdleFacts DEF ReadInv, PushInv, SkipResolves, Building, Settled
  <1> QED BY <1>4, <1>5, <1>6, <1>7 DEF ImageInv

LEMMA EditInv == ASSUME ImageInv, Edit PROVE ImageInv'
  <1>1. /\ edits < MaxEdits /\ run.pc \in {"idle", "hash", "app", "spark", "copy"}
        /\ tree' \in Trees /\ edits' = edits + 1
        /\ trusted' = (trusted /\ run.pc \notin {"hash", "app", "spark"})
        /\ UNCHANGED <<at, local, reg, stored, run, runs, recorded, torn, removed>>
    BY DEF Edit
  <1>2. edits' \in 0..MaxEdits
    BY <1>1, BoundsAssumption DEF ImageInv, ImageShape, TypeOK
  <1>3. ImageShape'
    BY <1>1, <1>2 DEF ImageInv, ImageShape, TypeOK
  <1>4. Flow'
    BY <1>1 DEF ImageInv, Flow, ToStore
  <1>5. ASSUME trusted' PROVE (ReadInv /\ PushInv /\ SkipResolves /\ RegistryInv)'
    <2>1. trusted /\ run.pc \in {"idle", "copy"} /\ ReadInv /\ PushInv /\ SkipResolves /\ RegistryInv
      BY <1>1, <1>5 DEF ImageInv
    <2>2. RegistryInv'
      BY <1>1, <2>1, RegistryKept
    <2>3. ReadInv'
      BY <1>1, <2>1 DEF ReadInv, Compared, Building, Settled
    <2>4. PushInv' /\ SkipResolves'
      BY <1>1, <2>1 DEF PushInv, PushedTag, SkipResolves, Settled
    <2> QED BY <2>2, <2>3, <2>4
  <1> QED BY <1>3, <1>4, <1>5 DEF ImageInv

LEMMA StartInv == ASSUME ImageInv, Start PROVE ImageInv'
  <1>1. PICK mode \in {"normal", "force", "skip"}, noSpark \in BOOLEAN, given \in {None, Pinned}, alone \in BOOLEAN :
          /\ at = "local" => mode # "skip" /\ given = None /\ ~alone
          /\ alone => given = None
          /\ noSpark => at = "local"
          /\ run' = [Idle EXCEPT !.mode = mode, !.noSpark = noSpark, !.given = given, !.alone = alone, !.pc = "decide"]
    BY DEF Start
  <1>2. /\ run' \in Deploys /\ run'.pc = "decide" /\ run'.mode = mode /\ run'.noSpark = noSpark
        /\ run'.given = given /\ run'.alone = alone /\ run'.k = 1
    BY <1>1, FirstFacts DEF Idle, Deploys, Steps
  <1>3. runs' \in 0..MaxRuns /\ UNCHANGED <<at, tree, edits, local, reg, stored, trusted, recorded, torn, removed>>
    BY BoundsAssumption DEF Start, ImageInv, ImageShape, TypeOK, history
  <1>4. ImageShape'
    <2>1. run'.tag \in Tags(MaxRuns) \cup {None} /\ run'.pc \in Steps
      BY <1>2 DEF Deploys
    <2> QED BY <1>2, <1>3, <2>1 DEF ImageInv, ImageShape, TypeOK, Steps
  <1>5. Flow'
    BY <1>1, <1>2, <1>3 DEF Flow, Building, Settled
  <1>6. trusted' => (ReadInv /\ PushInv /\ SkipResolves)'
    BY <1>2 DEF ReadInv, PushInv, SkipResolves, Building, Settled
  <1>7. trusted' => RegistryInv'
    BY <1>3, RegistryKept DEF ImageInv
  <1> QED BY <1>4, <1>5, <1>6, <1>7 DEF ImageInv

LEMMA DecideInv == ASSUME ImageInv, Decide PROVE ImageInv'
  <1>0. /\ run.pc = "decide" /\ run \in Deploys /\ at \in Targets /\ tree \in Trees /\ runs \in 0..MaxRuns
        /\ run.k = 1 /\ (run.noSpark => at = "local") /\ (run.given # None => at # "local")
        /\ (run.alone => at # "local" /\ run.given = None)
        /\ at = "local" => run.mode # "skip"
        /\ UNCHANGED <<at, tree, edits, local, reg, stored, runs, history>>
    BY DEF Decide, ImageInv, ImageShape, TypeOK, Flow
  <1>1. PICK skipped \in BOOLEAN :
          /\ ~skipped => run.mode # "skip"
          /\ skipped => run.mode = "skip" \/ (run.mode = "normal" /\ Matches)
          /\ run' = [run EXCEPT
               !.pc = CASE ~skipped -> IF at = "local" THEN "app" ELSE "hash"
                        [] skipped /\ at = "aws" -> "copy"
                        [] skipped /\ at = "gcp" -> "resolve"
                        [] skipped /\ at = "local" -> "done",
               !.from = tree, !.hash = tree,
               !.how = IF run.mode = "skip" THEN "asked" ELSE IF skipped THEN "skipped" ELSE "built",
               !.tag = IF at = "local" THEN Latest
                       ELSE IF run.given # None THEN run.given ELSE Tag(tree, runs)]
    <2>1. PICK read \in BOOLEAN :
       LET skipped == run.mode = "skip" \/ (run.mode = "normal" /\ Matches /\ read)
           after   == CASE ~skipped -> IF at = "local" THEN "app" ELSE "hash"
                        [] skipped /\ at = "aws" -> "copy"
                        [] skipped /\ at = "gcp" -> "resolve"
                        [] skipped /\ at = "local" -> "done"
       IN  run' = [run EXCEPT !.pc = after, !.from = tree, !.hash = tree,
                     !.how = IF run.mode = "skip" THEN "asked" ELSE IF skipped THEN "skipped" ELSE "built",
                     !.tag = IF at = "local" THEN Latest
                             ELSE IF run.given # None THEN run.given ELSE Tag(tree, runs)]
      BY DEF Decide
    <2> DEFINE b == run.mode = "skip" \/ (run.mode = "normal" /\ Matches /\ read)
    <2>2. b \in BOOLEAN /\ (~b => run.mode # "skip") /\ (b => run.mode = "skip" \/ (run.mode = "normal" /\ Matches))
      OBVIOUS
    <2> QED BY <2>1, <2>2
  <1>2. /\ Tag(tree, runs) \in Tags(MaxRuns) /\ Tag(tree, runs) # Latest
        /\ Latest \in Tags(MaxRuns) /\ Pinned \in Tags(MaxRuns) /\ Pinned # Latest
    BY <1>0, TagFacts DEF Tags
  <1>3. /\ run'.pc \in {"app", "hash", "copy", "resolve", "done"}
        /\ ~skipped <=> run'.pc \in {"app", "hash"}
        /\ run'.pc = "app" => at = "local"
        /\ run'.pc = "hash" => at # "local"
        /\ run'.pc = "copy" => at = "aws"
        /\ run'.pc = "resolve" => at = "gcp"
        /\ run'.pc = "done" => at = "local"
    BY <1>0, <1>1 DEF Deploys, Targets
  <1>4. /\ run'.from = tree /\ run'.hash = tree /\ run'.k = 1
        /\ run'.noSpark = run.noSpark /\ run'.given = run.given /\ run'.alone = run.alone /\ run'.mode = run.mode
        /\ run'.how = IF run.mode = "skip" THEN "asked" ELSE IF skipped THEN "skipped" ELSE "built"
        /\ run'.tag = IF at = "local" THEN Latest ELSE IF run.given # None THEN run.given ELSE Tag(tree, runs)
    BY <1>0, <1>1 DEF Deploys
  <1>5. run.given \in {None, Pinned}
    BY <1>0 DEF Deploys
  <1>6. run' \in Deploys
    <2>1. run'.tag \in Tags(MaxRuns) /\ run'.how \in {"asked", "skipped", "built"} /\ run'.pc \in Steps
      BY <1>2, <1>3, <1>4, <1>5 DEF Steps
    <2> QED BY ZenonT(60), <1>0, <1>1, <2>1 DEF Deploys
  <1>7. ImageShape' /\ (trusted' => trusted /\ RegistryInv')
    BY <1>0, <1>6, OnlyRun
  <1>8. Flow'
    <2>1. /\ run'.how \in {"asked", "skipped", "built"}
          /\ run'.pc \in {"app", "hash"} => run'.how = "built"
          /\ run'.pc \notin {"app", "hash"} => run'.how \in {"asked", "skipped"}
      BY <1>1, <1>3, <1>4
    <2>2. at # "local" => run'.tag \in Tags(MaxRuns) \ {Latest}
      BY <1>2, <1>4, <1>5
    <2>3. at = "local" => run'.tag = Latest /\ run'.how \in {"skipped", "built"}
      BY <1>0, <1>4
    <2> QED BY <1>0, <1>3, <1>4, <2>1, <2>2, <2>3 DEF Flow, Building, Settled
  <1>9. ReadInv'
    <2>1. run'.how = "skipped" => Matches
      BY <1>1, <1>4
    <2>2. run'.how = "skipped" => \A p \in Compared' : stored'[p] = Hash(p, run'.from)
      BY <1>0, <1>4, <2>1 DEF Matches, Compared
    <2> QED BY <1>0, <1>3, <1>4, <2>2 DEF ReadInv, Building, Settled
  <1>10. PushInv' /\ SkipResolves'
    <2>1. run'.pc \in {"resolve", "done"} => skipped
      BY <1>3
    <2>2. run'.pc \in {"resolve", "done"} => run'.how # "built"
      BY <1>4, <2>1
    <2>3. run'.pc = "done" => at' = "local"
      BY <1>0, <1>3
    <2>4. run'.pc \notin {"push", "store", "spark", "unresolved"}
      BY <1>3
    <2> QED BY <2>2, <2>3, <2>4 DEF PushInv, SkipResolves, Settled
  <1> QED BY <1>7, <1>8, <1>9, <1>10 DEF ImageInv

LEMMA HashTreeInv == ASSUME ImageInv, HashTree PROVE ImageInv'
  <1>1. /\ run.pc = "hash" /\ run' = [run EXCEPT !.pc = "app", !.hash = tree] /\ run \in Deploys /\ tree \in Trees
        /\ UNCHANGED <<at, tree, edits, local, reg, stored, runs, history>>
    BY DEF HashTree, ImageInv, ImageShape, TypeOK
  <1>2. /\ run' \in Deploys /\ run'.pc = "app" /\ run'.hash = tree /\ run'.from = run.from /\ run'.how = run.how
        /\ run'.noSpark = run.noSpark /\ run'.given = run.given /\ run'.alone = run.alone /\ run'.mode = run.mode /\ run'.tag = run.tag
        /\ run'.k = run.k
    BY <1>1 DEF Deploys, Steps
  <1>3. ImageShape' /\ (trusted' => trusted /\ RegistryInv')
    BY <1>1, <1>2, OnlyRun
  <1>4. Flow'
    BY <1>1, <1>2 DEF ImageInv, Flow, Building, Settled
  <1>5. ASSUME trusted PROVE ReadInv' /\ PushInv' /\ SkipResolves'
    BY <1>1, <1>2, <1>5 DEF ImageInv, Flow, ReadInv, PushInv, SkipResolves, Building, Settled
  <1> QED BY <1>3, <1>4, <1>5 DEF ImageInv

(* The other parts and tags of the registry stay when one is set. *)
LEMMA TaggedShape ==
  ASSUME ImageShape, UNCHANGED at, NEW p \in PartSet(at), NEW v \in Tags(MaxRuns), NEW image \in Trees,
         reg' = Tagged(reg, p, v, image)
  PROVE  /\ reg' = [q \in PartSet(at) |-> reg'[q]]
         /\ \A q \in PartSet(at) : DOMAIN reg'[q] \subseteq Tags(MaxRuns) /\ \A w \in DOMAIN reg'[q] : reg'[q][w] \in Trees
  <1>1. /\ reg = [q \in PartSet(at) |-> reg[q]]
        /\ \A q \in PartSet(at) : DOMAIN reg[q] \subseteq Tags(MaxRuns) /\ \A w \in DOMAIN reg[q] : reg[q][w] \in Trees
    BY DEF ImageShape, TypeOK
  <1>2. /\ reg' = [q \in PartSet(at) |-> reg'[q]]
        /\ DOMAIN reg'[p] = DOMAIN reg[p] \cup {v} /\ reg'[p][v] = image
        /\ \A w \in DOMAIN reg[p] : w # v => reg'[p][w] = reg[p][w]
        /\ \A q \in PartSet(at) : q # p => reg'[q] = reg[q]
    BY <1>1, TaggedFacts
  <1>3. ASSUME NEW q \in PartSet(at), NEW w \in DOMAIN reg'[q] PROVE w \in Tags(MaxRuns) /\ reg'[q][w] \in Trees
    BY <1>1, <1>2, <1>3
  <1> QED BY <1>2, <1>3

LEMMA BuildInv == ASSUME ImageInv, NEW p \in {"app", "spark"}, Build(p) PROVE ImageInv'
  <1> DEFINE image == Content(p, tree)
             last  == p = "spark" \/ run.noSpark
             next  == CASE ~last -> "spark" [] last /\ at = "local" -> "store" [] OTHER -> "push"
  <1>1. /\ run.pc = p /\ run' = [run EXCEPT !.pc = next, ![p] = image]
        /\ reg' = IF at = "local" THEN Tagged(reg, p, Latest, image) ELSE reg
        /\ recorded' = IF at = "local" THEN recorded \ {p} ELSE recorded
        /\ local' = IF last /\ at = "aws" THEN [app |-> run.app, spark |-> image] ELSE local
        /\ removed' = removed \ {p}
        /\ UNCHANGED <<at, tree, edits, stored, runs, trusted, torn>>
    BY DEF Build
  <1>0. /\ ImageShape /\ TypeOK /\ Flow /\ run \in Deploys /\ at \in Targets /\ tree \in Trees /\ image \in Trees
        /\ {"app", "spark"} \subseteq PartSet(at) /\ recorded \subseteq {"app", "spark"}
        /\ removed \subseteq {"app", "spark"}
    BY ContentFacts, PartsFacts DEF ImageInv, ImageShape, TypeOK
  <1>2. /\ next \in {"spark", "store", "push"}
        /\ next = "spark" <=> p = "app" /\ ~run.noSpark
        /\ next = "store" <=> (p = "spark" \/ run.noSpark) /\ at = "local"
        /\ next = "push" => at # "local" /\ p = "spark"
    BY <1>0 DEF Flow
  <1>3. /\ run'.pc = next /\ run'.from = run.from /\ run'.hash = run.hash /\ run'.how = run.how
        /\ run'.noSpark = run.noSpark /\ run'.given = run.given /\ run'.alone = run.alone /\ run'.mode = run.mode /\ run'.tag = run.tag
        /\ run'.k = run.k /\ run'.app = (IF p = "app" THEN image ELSE run.app)
        /\ run'.spark = (IF p = "spark" THEN image ELSE run.spark)
    <2> HIDE DEF next, image
    <2> QED BY <1>0, <1>1 DEF Deploys
  <1>4. run' \in Deploys
    <2> HIDE DEF next, image
    <2>1. next \in Steps
      BY <1>2 DEF Steps
    <2> QED BY <1>0, <1>1, <2>1 DEF Deploys
  <1>5. /\ run.how = "built" /\ run.k = 1
        /\ at = "local" => run.tag = Latest
        /\ at # "local" => run.tag \in Tags(MaxRuns) \ {Latest}
    BY <1>0, <1>1 DEF Flow, Building
  <1>l. at = "local" =>
        /\ reg' = [q \in PartSet(at) |-> reg'[q]]
        /\ Latest \in DOMAIN reg'[p] /\ reg'[p][Latest] = image
        /\ \A q \in PartSet(at) : q # p => reg'[q] = reg[q]
    BY <1>0, <1>1, TaggedFacts DEF ImageShape
  <1> HIDE DEF next, image
  <1>6. ImageShape'
    <2>1. local' \in [{"app", "spark"} -> Trees \cup {None}]
      <3>1. run.app \in Trees \cup {None}
        BY <1>0 DEF Deploys
      <3> QED BY <1>0, <1>1, <3>1 DEF TypeOK
    <2>2. /\ reg' = [q \in PartSet(at) |-> reg'[q]]
          /\ \A q \in PartSet(at) : DOMAIN reg'[q] \subseteq Tags(MaxRuns) /\ \A w \in DOMAIN reg'[q] : reg'[q][w] \in Trees
      <3>1. CASE at = "local"
        <4>1. Latest \in Tags(MaxRuns)
          BY DEF Tags
        <4> QED BY <1>0, <1>1, <3>1, <4>1, TaggedShape
      <3>2. CASE at # "local"
        BY <1>0, <1>1, <3>2 DEF ImageShape, TypeOK
      <3> QED BY <3>1, <3>2
    <2>3. run'.pc \in Steps /\ run'.tag \in Tags(MaxRuns) \cup {None}
      BY <1>4 DEF Deploys
    <2>4. recorded' \subseteq {"app", "spark"} /\ removed' \subseteq {"app", "spark"}
      BY <1>0, <1>1
    <2> QED BY <1>0, <1>1, <1>4, <2>1, <2>2, <2>3, <2>4 DEF ImageShape, TypeOK, Steps
  <1>7. Flow'
    <2>0. Len(Pushes(at)) \in {4, 6}
      BY <1>0, PartsFacts
    <2>1. run'.k \in 1..Len(Pushes(at))
      <3>1. \A n \in {4, 6} : 1 \in 1..n
        OBVIOUS
      <3>2. run'.k = 1
        BY <1>3, <1>5
      <3> QED BY <2>0, <3>1, <3>2
    <2>2. next = "store" => run'.k \in 1..Len(ToStore')
      BY <1>3, <1>5 DEF ToStore
    <2> QED BY <1>0, <1>1, <1>2, <1>3, <1>5, <2>1, <2>2 DEF Flow, Building, Settled
  <1>8. ASSUME trusted' PROVE (ReadInv /\ PushInv /\ SkipResolves /\ RegistryInv)'
    <2>0. trusted /\ ReadInv /\ PushInv /\ RegistryInv
      BY <1>1, <1>8 DEF ImageInv
    <2>1. tree = run.from /\ run.hash = run.from /\ image = Content(p, run.from)
          /\ (p = "spark" => run.app = Content("app", run.from))
      BY <1>1, <2>0 DEF ReadInv, Building, image
    <2>2. ReadInv'
      <3>1. run'.pc \in {"spark", "push", "store"} => run'.app = Content("app", run'.from)
        BY <1>3, <2>1
      <3>2. run'.pc \in {"push", "store"} /\ ~run'.noSpark => run'.spark = Content("spark", run'.from)
        BY <1>2, <1>3, <2>1
      <3> QED BY <1>1, <1>2, <1>3, <1>5, <2>1, <3>1, <3>2 DEF ReadInv, Building, Settled
    <2>3. PushInv'
      <3>1. CASE at # "local"
        BY <1>1, <1>2, <1>3, <1>5, <3>1 DEF PushInv, Settled
      <3>2. CASE at = "local"
        <4>1. Made(p, Latest)'
          BY <1>3, <1>l, <2>1, <3>2 DEF Made
        <4>2. p = "spark" => Made("app", Latest)'
          <5>1. p = "spark" => Made("app", Latest)
            BY <1>1, <1>5, <2>0, <3>2 DEF PushInv
          <5> QED BY <1>0, <1>3, <1>l, <3>2, <5>1 DEF Made
        <4>3. p = "app" => Made("app", Latest)'
          BY <4>1
        <4> QED BY <1>1, <1>2, <1>3, <3>2, <4>1, <4>2, <4>3 DEF PushInv, Settled
      <3> QED BY <3>1, <3>2
    <2>4. RegistryInv'
      <3>1. CASE at # "local"
        BY <1>1, <2>0, <3>1 DEF RegistryInv, RecordedIsLatest, StoredIsThere, VersionsWhole, LatestNamed, Versions, RecordedIsPushed
      <3>2. CASE at = "local"
        <4>1. RecordedIsLatest'
          BY <1>0, <1>1, <1>l, <2>0, <3>2 DEF RegistryInv, RecordedIsLatest
        <4>2. StoredIsThere'
          BY <1>0, <1>1, <1>l, <2>0, <3>2 DEF RegistryInv, StoredIsThere
        <4> QED BY <1>1, <3>2, <4>1, <4>2 DEF RegistryInv
      <3> QED BY <3>1, <3>2
    <2>5. SkipResolves'
      BY <1>2, <1>3 DEF SkipResolves
    <2> QED BY <2>2, <2>3, <2>4, <2>5
  <1> QED BY <1>6, <1>7, <1>8 DEF ImageInv

LEMMA ResolveInv == ASSUME ImageInv, Resolve PROVE ImageInv'
  <1>0. /\ run.pc = "resolve" /\ run \in Deploys /\ TypeOK /\ Flow /\ at \in Targets /\ "app" \in PartSet(at)
        /\ UNCHANGED <<at, tree, edits, local, reg, stored, runs, history>>
    BY PartsFacts DEF Resolve, ImageInv, ImageShape, TypeOK
  <1>1. at # "local"
    BY <1>0 DEF Flow
  <1>2. CASE \E v \in Candidates : run' = [run EXCEPT !.pc = "done", !.tag = v]
    <2>1. PICK v \in Candidates : run' = [run EXCEPT !.pc = "done", !.tag = v]
      BY <1>2
    <2>2. /\ run.how = "built" => v = run.tag
          /\ run.how # "built" /\ run.given = None => v \in Versions(reg)
          /\ v = run.tag \/ v \in DOMAIN reg["app"] \ {Latest}
      BY DEF Candidates, Versions
    <2>3. v \in Tags(MaxRuns) \cup {None}
      BY <1>0, <2>2 DEF Deploys, TypeOK
    <2>4. /\ run' \in Deploys /\ run'.pc = "done" /\ run'.tag = v /\ run'.hash = run.hash /\ run'.from = run.from
          /\ run'.how = run.how /\ run'.noSpark = run.noSpark /\ run'.given = run.given /\ run'.alone = run.alone /\ run'.mode = run.mode
      BY <1>0, <2>1, <2>3 DEF Deploys, Steps
    <2>5. ImageShape' /\ (trusted' => trusted /\ RegistryInv')
      BY <1>0, <2>4, OnlyRun
    <2>6. Flow'
      BY <1>0, <1>1, <2>2, <2>4 DEF Flow, Building, Settled
    <2>7. ASSUME trusted PROVE ReadInv' /\ PushInv' /\ SkipResolves'
      <3>1. ReadInv'
        BY <1>0, <2>4, <2>7 DEF ImageInv, ReadInv, Building, Settled, Compared
      <3>2. run.how = "built" => (\A p \in PartSet(at) : Made(p, PushedTag(p))) /\ (run.alone => run.tag \in torn)
        BY <1>0, <1>1, <2>7 DEF ImageInv, PushInv, Settled
      <3>3. run'.how = "built" =>
              (\A p \in PartSet(at) : Made(p, PushedTag(p)))' /\ (run.alone => run.tag \in torn)'
        BY <1>0, <2>2, <2>4, <3>2 DEF Made, PushedTag, history
      <3>4. run'.how # "built" /\ run'.given = None => (run.tag \in Versions(reg))'
        BY <1>0, <2>2, <2>4 DEF Versions
      <3>5. PushInv'
        BY <1>0, <1>1, <2>4, <3>3, <3>4 DEF PushInv, Settled
      <3> QED BY <2>4, <3>1, <3>5 DEF SkipResolves
    <2> QED BY <2>5, <2>6, <2>7 DEF ImageInv
  <1>3. CASE Candidates = {} /\ run' = [run EXCEPT !.pc = "unresolved"]
    <2>1. /\ run' \in Deploys /\ run'.pc = "unresolved" /\ run'.tag = run.tag /\ run'.hash = run.hash /\ run'.from = run.from
          /\ run'.how = run.how /\ run'.noSpark = run.noSpark /\ run'.given = run.given /\ run'.alone = run.alone /\ run'.mode = run.mode
      BY <1>0, <1>3 DEF Deploys, Steps
    <2>2. ImageShape' /\ (trusted' => trusted /\ RegistryInv')
      BY <1>0, <2>1, OnlyRun
    <2>3. Flow'
      BY <1>0, <1>1, <2>1 DEF Flow, Building, Settled
    <2>4. run.how # "built" /\ Versions(reg) = {}
      BY <1>3 DEF Candidates
    <2>5. ASSUME trusted PROVE ReadInv' /\ PushInv' /\ SkipResolves'
      <3>1. LatestNamed
        BY <1>1, <2>5 DEF ImageInv, RegistryInv
      <3>2. stored["app"] = None
        BY <2>4, <3>1 DEF LatestNamed
      <3>3. run.from \in Trees
        BY <1>0 DEF Deploys
      <3>4. run.how # "skipped"
        <4>1. run.how = "skipped" => stored["app"] = Hash("app", run.from)
          BY <1>0, <2>5 DEF ImageInv, ReadInv, Settled, Compared
        <4> QED BY <3>2, <3>3, <4>1, ContentFacts
      <3>5. run.how = "asked"
        BY <1>0, <2>4, <3>4 DEF Flow, Deploys, Settled
      <3> QED BY <1>0, <2>1, <2>4, <3>4, <3>5 DEF ReadInv, PushInv, SkipResolves, Building, Settled
    <2> QED BY <2>2, <2>3, <2>5 DEF ImageInv
  <1> QED BY <1>0, <1>2, <1>3 DEF Resolve

LEMMA PushStep == ASSUME ImageInv, Push PROVE ImageInv'
  <1> DEFINE part   == Pushes(at)[run.k].part
             latest == Pushes(at)[run.k].latest
             tag    == IF latest THEN Latest ELSE PushedTag(part)
             image  == Image(part)
             ended  == run.k = Len(Pushes(at))
             Now(q, v) == v \in DOMAIN reg'[q] /\ reg'[q][v] = Content(q, run.from)
  <1>1. /\ run.pc = "push"
        /\ reg' \in {Tagged(reg, part, tag, image)} \cup {g \in {reg} : latest /\ part = "spark"}
        /\ trusted' = (trusted /\ ~(~latest /\ tag \in DOMAIN reg[part] /\ reg[part][tag] # image))
        /\ recorded' = {}
        /\ torn' = IF ended /\ ~run.alone THEN torn \ {run.tag} ELSE torn \cup {run.tag}
        /\ run' = IF ended THEN [run EXCEPT !.pc = "store", !.k = 1] ELSE [run EXCEPT !.k = @ + 1]
        /\ UNCHANGED <<at, tree, edits, local, stored, runs, removed>>
    BY DEF Push, MayMiss
  <1>2. /\ ImageShape /\ TypeOK /\ Flow /\ run \in Deploys /\ at \in Targets
        /\ at # "local" /\ ~run.noSpark /\ run.how = "built"
        /\ run.tag \in Tags(MaxRuns) \ {Latest} /\ run.app \in Trees /\ run.spark \in Trees
        /\ run.k \in 1..Len(Pushes(at))
    BY <1>1 DEF ImageInv, ImageShape, TypeOK, Flow, Building
  <1>3. /\ run.k \in {1, 2, 3, 4, 5, 6} /\ (run.k > 4 => at = "gcp")
        /\ part = (IF run.k <= 2 THEN "app" ELSE IF run.k <= 4 THEN "spark" ELSE "proxy")
        /\ latest <=> run.k \in {2, 4, 6}
    BY <1>2, PushesFacts
  <1>4. /\ PartSet(at) = IF at = "gcp" THEN {"app", "spark", "proxy"} ELSE {"app", "spark"}
        /\ ended <=> run.k = IF at = "gcp" THEN 6 ELSE 4
    BY <1>2, PartsFacts
  <1>5. part \in PartSet(at) /\ image \in Trees /\ tag \in Tags(MaxRuns)
    <2>1. part \in PartSet(at)
      BY <1>3, <1>4
    <2>2. Latest \in Tags(MaxRuns)
      BY DEF Tags
    <2>3. Pinned \in Tags(MaxRuns)
      BY DEF Tags
    <2> QED BY <1>2, <2>1, <2>2, <2>3 DEF Image, PushedTag
  <1>t. /\ PushedTag(part) # Latest /\ (part # "spark" => PushedTag(part) = run.tag)
        /\ latest => tag = Latest
        /\ ~latest => tag = PushedTag(part)
    BY <1>2, TagsAssumption DEF PushedTag
  <1>6. /\ reg' = Tagged(reg, part, tag, image) \/ (reg' = reg /\ run.k = 4)
    <2>1. latest /\ part = "spark" => run.k = 4
      BY <1>3
    <2> QED BY <1>1, <2>1
  <1>7. reg' = Tagged(reg, part, tag, image) =>
          /\ reg' = [q \in PartSet(at) |-> reg'[q]]
          /\ DOMAIN reg'[part] = DOMAIN reg[part] \cup {tag} /\ reg'[part][tag] = image
          /\ \A w \in DOMAIN reg[part] : w # tag => reg'[part][w] = reg[part][w]
          /\ \A q \in PartSet(at) : q # part => reg'[q] = reg[q]
    <2> HIDE DEF part, tag, image
    <2> QED BY <1>2, <1>5, TaggedFacts DEF ImageShape
  <1> HIDE DEF part, latest, image, ended
  <1>8. /\ run' \in Deploys
        /\ run'.pc = IF ended THEN "store" ELSE "push"
        /\ run'.k = IF ended THEN 1 ELSE run.k + 1
        /\ run'.from = run.from /\ run'.hash = run.hash /\ run'.how = run.how
        /\ run'.noSpark = run.noSpark /\ run'.given = run.given /\ run'.alone = run.alone /\ run'.mode = run.mode /\ run'.tag = run.tag
        /\ run'.app = run.app /\ run'.spark = run.spark
    <2>1. CASE ended
      BY <1>1, <1>2, <2>1 DEF Deploys, Steps
    <2>2. CASE ~ended
      <3>1. run.k + 1 \in Nat
        BY <1>3
      <3>2. run' = [run EXCEPT !.k = run.k + 1]
        BY <1>1, <2>2
      <3> QED BY <1>1, <1>2, <2>2, <3>1, <3>2 DEF Deploys, Steps
    <2> QED BY <2>1, <2>2
  <1>9. ImageShape'
    <2>1. /\ reg' = [q \in PartSet(at) |-> reg'[q]]
          /\ \A q \in PartSet(at) : DOMAIN reg'[q] \subseteq Tags(MaxRuns) /\ \A w \in DOMAIN reg'[q] : reg'[q][w] \in Trees
      <3>1. CASE reg' = Tagged(reg, part, tag, image)
        <4> HIDE DEF tag
        <4> QED BY <1>1, <1>2, <1>5, <3>1, TaggedShape
      <3>2. CASE reg' = reg
        BY <1>2, <3>2 DEF ImageShape, TypeOK
      <3> QED BY <1>6, <3>1, <3>2
    <2>2. run'.pc \in Steps /\ run'.tag \in Tags(MaxRuns) \cup {None}
      BY <1>8 DEF Deploys
    <2> QED BY <1>1, <1>2, <1>8, <2>1, <2>2 DEF ImageShape, TypeOK, Steps
  <1>10. Flow'
    <2>1. run'.pc = "push" => run'.k \in 1..Len(Pushes(at))
      <3>1. run.k \in Nat /\ Len(Pushes(at)) \in Nat
        BY <1>2, PartsFacts
      <3> QED BY <1>2, <1>8, <3>1 DEF ended
    <2>2. run'.pc = "store" => run'.k \in 1..Len(ToStore')
      BY <1>8 DEF ToStore
    <2>3. run'.pc \in {"push", "store"}
      BY <1>8
    <2> QED BY <1>1, <1>2, <1>8, <2>1, <2>2, <2>3 DEF Flow, Building, Settled
  <1> HIDE DEF Now
  <1>11. ASSUME trusted' PROVE (ReadInv /\ PushInv /\ SkipResolves /\ RegistryInv)'
    <2>1. /\ trusted /\ ReadInv /\ PushInv /\ RegistryInv /\ VersionsWhole /\ LatestNamed /\ RecordedIsPushed
          /\ latest \/ tag \notin DOMAIN reg[part] \/ reg[part][tag] = image
      BY <1>1, <1>2, <1>11 DEF ImageInv, RegistryInv
    <2>2. image = Content(part, run.from)
      <3>1. run.app = Content("app", run.from) /\ run.spark = Content("spark", run.from) /\ run.from \in Trees
        BY <1>1, <1>2, <2>1 DEF ReadInv, Deploys
      <3>2. part \in {"app", "spark", "proxy"}
        BY <1>3
      <3> QED BY <3>1, <3>2, ContentFacts DEF image, Image
    <2>3. \A q \in PartSet(at) :
            /\ DOMAIN reg[q] \subseteq DOMAIN reg'[q]
            /\ \A v \in DOMAIN reg[q] : v # Latest => reg'[q][v] = reg[q][v]
            /\ q = "app" => \A v \in DOMAIN reg'[q] : v # Latest /\ v # run.tag => v \in DOMAIN reg[q]
      <3>1. CASE reg' = Tagged(reg, part, tag, image)
        BY <1>2, <1>7, <1>t, <2>1, <3>1
      <3> QED BY <1>6, <3>1
    <2>4. \A q \in PartSet(at) : \A v : v # Latest /\ Made(q, v) => Now(q, v)
      BY <1>8, <2>3 DEF Made, Now
    <2>5. run.k \in {1, 3, 5} => Now(part, PushedTag(part))
      BY <1>2, <1>3, <1>6, <1>7, <1>8, <1>t, <2>2 DEF Now
    <2>6. run.k >= 2 => Now("app", Latest)
      <3>1. run.k = 2 => Now("app", Latest)
        BY <1>3, <1>6, <1>7, <1>8, <1>t, <2>2 DEF Now
      <3>2. ASSUME run.k > 2 PROVE Now("app", Latest)
        <4>1. part # "app" /\ "app" \in PartSet(at)
          BY <1>3, <1>4, <3>2
        <4>2. reg'["app"] = reg["app"]
          BY <1>6, <1>7, <4>1
        <4>3. Made("app", Latest)
          BY <1>1, <2>1, <3>2 DEF PushInv
        <4> QED BY <1>8, <4>2, <4>3 DEF Made, Now
      <3> QED BY <1>3, <3>1, <3>2
    <2>7. /\ Now("app", run.tag)
          /\ run.k >= 3 => Now("spark", PushedTag("spark"))
          /\ run.k >= 5 => Now("proxy", run.tag)
      <3>1. {"app", "spark"} \subseteq PartSet(at) /\ (run.k > 4 => "proxy" \in PartSet(at))
        BY <1>3, <1>4
      <3>2. /\ run.k > 1 => Made("app", run.tag)
            /\ run.k > 3 => Made("spark", PushedTag("spark"))
            /\ run.k > 5 => Made("proxy", run.tag)
        BY <1>1, <2>1 DEF PushInv
      <3>3. /\ run.k = 1 => part = "app"
            /\ run.k = 3 => part = "spark"
            /\ run.k = 5 => part = "proxy"
        BY <1>3
      <3>4. run.k > 1 => Now("app", run.tag)
        BY <1>2, <2>4, <3>1, <3>2
      <3>5. run.k > 3 => Now("spark", PushedTag("spark"))
        BY <1>2, <2>4, <3>1, <3>2, TagsAssumption DEF PushedTag
      <3>6. run.k > 5 => Now("proxy", run.tag)
        BY <1>2, <1>3, <2>4, <3>1, <3>2
      <3> QED BY <1>3, <1>t, <2>5, <3>3, <3>4, <3>5, <3>6
    <2>8. ended => \A q \in PartSet(at) : Now(q, PushedTag(q))
      <3>1. PushedTag("app") = run.tag /\ PushedTag("proxy") = run.tag
        BY DEF PushedTag
      <3> QED BY <1>3, <1>4, <2>7, <3>1
    <2>9. ReadInv'
      BY <1>1, <1>2, <1>8, <2>1 DEF ReadInv, Building, Settled
    <2>10. PushInv'
      <3>0. UNCHANGED <<PushedTag("spark")>> /\ \A q : PushedTag(q)' = PushedTag(q)
        BY <1>8 DEF PushedTag
      <3>1. ~ended \/ run.alone => run.tag \in torn'
        BY <1>1
      <3>2. run'.pc = "push" =>
              /\ run'.k > 1 => Now("app", run.tag) /\ run'.tag \in torn'
              /\ run'.k > 2 => Now("app", Latest)
              /\ run'.k > 3 => Now("spark", PushedTag("spark"))
              /\ run'.k > 5 => Now("proxy", run.tag)
        BY <1>3, <1>8, <2>6, <2>7, <3>1
      <3>3. run'.pc = "store" => (\A q \in PartSet(at) : Now(q, PushedTag(q))) /\ Now("app", Latest)
        BY <1>1, <1>3, <1>4, <1>8, <2>6, <2>8
      <3> QED BY <1>1, <1>2, <1>8, <3>0, <3>1, <3>2, <3>3 DEF PushInv, Settled, Made, Now
    <2>11. VersionsWhole'
      <3>1. ASSUME NEW v \in DOMAIN reg'["app"], v \notin {Latest} \cup torn', NEW q \in PartSet(at)
            PROVE  v \in DOMAIN reg'[q] /\ reg'[q][v] = Content(q, reg'["app"][v])
        <4>0. "app" \in PartSet(at)
          BY <1>4
        <4>1. CASE v = run.tag
          <5>1. ended /\ ~run.alone
            BY <1>1, <3>1, <4>1
          <5>2. Now(q, run.tag) /\ Now("app", run.tag)
            BY <2>8, <4>0, <5>1 DEF PushedTag
          <5>3. run.from \in Trees
            BY <1>2 DEF Deploys
          <5> QED BY <1>8, <4>1, <5>2, <5>3, ContentFacts DEF Now
        <4>2. CASE v # run.tag
          <5>1. v \in DOMAIN reg["app"] /\ v \notin torn /\ v # Latest
            BY <1>1, <2>3, <3>1, <4>0, <4>2
          <5>2. v \in DOMAIN reg[q] /\ reg[q][v] = Content(q, reg["app"][v])
            BY <2>1, <5>1 DEF VersionsWhole
          <5> QED BY <2>3, <4>0, <5>1, <5>2
        <4> QED BY <4>1, <4>2
      <3> QED BY <1>1, <3>1 DEF VersionsWhole
    <2>12. LatestNamed'
      <3>0. "app" \in PartSet(at)
        BY <1>4
      <3>1. run.k >= 2 => run.tag \in Versions(reg)'
        BY <1>2, <1>8, <2>6, <2>7 DEF Versions, Now
      <3>2. ASSUME run.k = 1, Latest \in DOMAIN reg'["app"] PROVE Versions(reg)' # {}
        <4>1. tag = run.tag /\ part = "app" /\ reg' = Tagged(reg, part, tag, image)
          <5>1. part = "app" /\ ~latest
            BY <1>3, <3>2
          <5>2. tag = run.tag
            BY <1>t, <5>1
          <5>3. reg' = Tagged(reg, part, tag, image)
            BY <1>6, <3>2
          <5> QED BY <5>1, <5>2, <5>3
        <4>2. Latest \in DOMAIN reg["app"] /\ reg'["app"][Latest] = reg["app"][Latest]
          BY <1>2, <1>7, <3>2, <4>1
        <4>3. PICK v \in Versions(reg) : TRUE
          BY <2>1, <4>2 DEF LatestNamed
        <4>4. v \in Versions(reg)'
          BY <2>3, <3>0, <4>2, <4>3 DEF Versions
        <4> QED BY <4>4
      <3>3. Latest \in DOMAIN reg'["app"] => Versions(reg)' # {}
        BY <1>3, <3>1, <3>2
      <3> QED BY <1>1, <2>1, <2>3, <3>0, <3>3 DEF LatestNamed
    <2>13. RecordedIsPushed'
      <3>1. ASSUME NEW q \in {"app", "spark"}, stored[q] # None
            PROVE  \E v \in DOMAIN reg'[q] \ {Latest} : Hash(q, reg'[q][v]) = stored[q]
        <4>1. PICK v \in DOMAIN reg[q] \ {Latest} : Hash(q, reg[q][v]) = stored[q]
          BY <1>2, <2>1, <3>1 DEF RecordedIsPushed
        <4>2. q \in PartSet(at)
          BY <1>4
        <4> QED BY <2>3, <4>1, <4>2
      <3> QED BY <1>1, <3>1 DEF RecordedIsPushed
    <2>14. RecordedIsLatest'
      BY <1>1 DEF RecordedIsLatest
    <2>16. StoredIsThere'
      BY <1>1, <1>2 DEF StoredIsThere
    <2>15. SkipResolves'
      BY <1>8 DEF SkipResolves
    <2> QED BY <2>9, <2>10, <2>11, <2>12, <2>13, <2>14, <2>15, <2>16 DEF RegistryInv
  <1> QED BY <1>9, <1>10, <1>11 DEF ImageInv

LEMMA StoreStep == ASSUME ImageInv, Store PROVE ImageInv'
  <1> DEFINE part  == ToStore[run.k]
             after == IF at = "local" THEN "done" ELSE "resolve"
             last  == run.k = Len(ToStore)
  <1>1. /\ run.pc = "store" /\ ImageShape /\ TypeOK /\ Flow /\ run \in Deploys /\ at \in Targets
        /\ run.how = "built" /\ run.k \in 1..Len(ToStore) /\ (run.noSpark => at = "local")
        /\ at = "local" => run.tag = Latest
        /\ at # "local" => run.tag \in Tags(MaxRuns) \ {Latest}
        /\ {"app", "spark"} \subseteq PartSet(at)
    BY PartsFacts DEF Store, ImageInv, ImageShape, TypeOK, Flow, Building
  <1>2. /\ UNCHANGED <<at, tree, edits, local, reg, runs, trusted, torn, removed>>
        /\ \/ /\ stored' = [stored EXCEPT ![part] = Hash(part, run.hash)]
              /\ recorded' = recorded \cup {part}
              /\ run' = IF last THEN [run EXCEPT !.pc = after, !.k = 1] ELSE [run EXCEPT !.k = @ + 1]
           \/ /\ at # "local"
              /\ run' = [run EXCEPT !.pc = after, !.k = 1]
              /\ UNCHANGED <<stored, recorded>>
    BY DEF Store
  <1>3. /\ run.k \in {1, 2} /\ part \in {"app", "spark"} /\ part = (IF run.k = 1 THEN "app" ELSE "spark")
        /\ run.noSpark => part = "app"
        /\ last <=> run.k = 2 \/ run.noSpark
        /\ Len(ToStore) \in {1, 2}
    BY <1>1 DEF ToStore, Deploys
  <1>4. after \in {"done", "resolve"} /\ (after = "done" <=> at = "local")
    OBVIOUS
  <1> HIDE DEF part, after, last
  <1>5. /\ run' \in Deploys
        /\ run'.pc \in {"store", after} /\ (run'.pc = "store" => ~last /\ run'.k = run.k + 1)
        /\ run'.from = run.from /\ run'.hash = run.hash /\ run'.how = run.how
        /\ run'.noSpark = run.noSpark /\ run'.given = run.given /\ run'.alone = run.alone /\ run'.mode = run.mode /\ run'.tag = run.tag
        /\ run'.app = run.app /\ run'.spark = run.spark
    <2>1. CASE run' = [run EXCEPT !.pc = after, !.k = 1]
      BY <1>1, <1>4, <2>1 DEF Deploys, Steps
    <2>2. CASE ~last /\ run' = [run EXCEPT !.k = @ + 1]
      <3>1. run.k + 1 \in Nat
        BY <1>3
      <3>2. run' = [run EXCEPT !.k = run.k + 1]
        BY <2>2
      <3> QED BY <1>1, <2>2, <3>1, <3>2 DEF Deploys, Steps
    <2> QED BY <1>2, <2>1, <2>2
  <1>6. /\ stored' \in [{"app", "spark"} -> Trees \cup {None}] /\ recorded' \subseteq {"app", "spark"}
        /\ removed \subseteq {"app", "spark"}
        /\ \A q \in {"app", "spark"} \ {part} : stored'[q] = stored[q]
        /\ recorded' \subseteq recorded \cup {part}
        /\ \/ stored' = stored /\ recorded' = recorded
           \/ stored'[part] = Hash(part, run.hash)
    <2>1. Hash(part, run.hash) \in Trees
      BY <1>1, ContentFacts DEF Deploys
    <2>2. stored \in [{"app", "spark"} -> Trees \cup {None}] /\ recorded \subseteq {"app", "spark"}
      BY <1>1 DEF TypeOK, ImageShape
    <2>3. removed \subseteq {"app", "spark"}
      BY <1>1 DEF ImageShape
    <2> QED BY <1>2, <1>3, <2>1, <2>2, <2>3
  <1>7. ImageShape'
    <2>1. run'.pc \in Steps /\ run'.tag \in Tags(MaxRuns) \cup {None}
      BY <1>5 DEF Deploys
    <2> QED BY <1>1, <1>2, <1>5, <1>6, <2>1 DEF ImageShape, TypeOK, Steps
  <1>8. Flow'
    <2>1. run'.pc = "store" => run'.k \in 1..Len(ToStore')
      <3>1. ToStore' = ToStore
        BY <1>5 DEF ToStore
      <3>2. ~last => run.k + 1 \in 1..Len(ToStore)
        BY <1>1, <1>3 DEF last
      <3> QED BY <1>5, <3>1, <3>2
    <2>2. /\ run'.pc \in {"store", "done", "resolve"} /\ (run'.pc = "done" => at = "local")
          /\ run'.pc = "resolve" => at # "local"
      BY <1>4, <1>5
    <2> QED BY <1>1, <1>2, <1>5, <2>1, <2>2 DEF Flow, Building, Settled
  <1>9. ASSUME trusted' PROVE (ReadInv /\ PushInv /\ SkipResolves /\ RegistryInv)'
    <2>1. /\ trusted /\ ReadInv /\ PushInv /\ RecordedIsLatest /\ StoredIsThere /\ run.hash = run.from
          /\ at # "local" => VersionsWhole /\ LatestNamed /\ RecordedIsPushed
      BY <1>1, <1>2, <1>9 DEF ImageInv, RegistryInv, ReadInv, Building
    <2>2. /\ at # "local" => Made("app", Latest) /\ (\A q \in PartSet(at) : Made(q, PushedTag(q))) /\ (run.alone => run.tag \in torn)
          /\ at = "local" => Made("app", Latest) /\ (~run.noSpark => Made("spark", Latest))
      BY <1>1, <2>1 DEF PushInv
    <2>3. \A q, v : Made(q, v) => /\ v \in DOMAIN reg'[q] /\ reg'[q][v] = Content(q, run'.from)
      BY <1>2, <1>5 DEF Made
    <2>4. run.from \in Trees /\ Hash(part, Content(part, run.from)) = Hash(part, run.from)
          /\ (stored'[part] # stored[part] => stored'[part] = Hash(part, run.from))
      BY <1>1, <1>6, <2>1, ContentFacts DEF Deploys
    <2>5. ReadInv'
      <3>1. run'.pc \in {"store", "done", "resolve"}
        BY <1>4, <1>5
      <3> QED BY <1>1, <1>2, <1>5, <2>1, <3>1 DEF ReadInv, Building, Settled
    <2>6. PushInv'
      <3>1. run'.pc \in {"store", "done", "resolve"} /\ (run'.pc = "done" => at = "local")
        BY <1>4, <1>5
      <3>2. \A q : PushedTag(q)' = PushedTag(q)
        BY <1>5 DEF PushedTag
      <3>3. at # "local" => \A q \in PartSet(at) : Made(q, PushedTag(q))'
        BY <1>2, <1>5, <2>2, <2>3, <3>2 DEF Made
      <3> QED BY <1>1, <1>2, <1>5, <2>2, <2>3, <3>1, <3>3 DEF PushInv, Settled, Made
    <2>7. SkipResolves'
      BY <1>4, <1>5 DEF SkipResolves
    <2>8. RecordedIsLatest'
      <3>1. ASSUME NEW q \in recorded', at = "local" \/ q = "app"
            PROVE  Latest \in DOMAIN reg[q] /\ \E t \in Trees : reg[q][Latest] = Content(q, t) /\ stored'[q] = Hash(q, t)
        <4>1. CASE stored' = stored /\ recorded' = recorded
          BY <2>1, <3>1, <4>1 DEF RecordedIsLatest
        <4>2. CASE q # part
          BY <1>6, <2>1, <3>1, <4>2 DEF RecordedIsLatest
        <4>3. CASE q = part /\ stored'[part] = Hash(part, run.hash)
          <5>1. Made(q, Latest)
            BY <1>3, <2>2, <3>1, <4>3
          <5> QED BY <2>1, <2>4, <4>3, <5>1 DEF Made
        <4> QED BY <1>6, <4>1, <4>2, <4>3
      <3> QED BY <1>2, <3>1 DEF RecordedIsLatest
    <2>9. ASSUME at # "local" PROVE VersionsWhole' /\ LatestNamed' /\ RecordedIsPushed'
      <3>1. VersionsWhole'
        BY <1>2, <2>1, <2>9 DEF VersionsWhole
      <3>2. LatestNamed'
        <4>1. Latest \in DOMAIN reg["app"]
          BY <2>2, <2>9 DEF Made
        <4> QED BY <1>2, <2>1, <2>9, <4>1 DEF LatestNamed, Versions
      <3>3. ASSUME NEW q \in {"app", "spark"}, stored'[q] # None
            PROVE  \E v \in DOMAIN reg[q] \ {Latest} : Hash(q, reg[q][v]) = stored'[q]
        <4>1. CASE stored'[q] = stored[q]
          BY <2>1, <2>9, <3>3, <4>1 DEF RecordedIsPushed
        <4>2. CASE stored'[q] # stored[q]
          <5>1. q = part
            BY <1>6, <4>2
          <5>2. Made(q, PushedTag(q)) /\ PushedTag(q) # Latest
            BY <1>1, <2>2, <2>9, TagsAssumption DEF PushedTag
          <5> QED BY <2>4, <4>2, <5>1, <5>2 DEF Made
        <4> QED BY <4>1, <4>2
      <3> QED BY <1>2, <3>1, <3>2, <3>3 DEF RecordedIsPushed
    <2>10. StoredIsThere'
      <3>1. ASSUME NEW q \in {"app", "spark"} \ removed, at = "local", stored'[q] # None PROVE Latest \in DOMAIN reg[q]
        <4>1. CASE stored'[q] = stored[q]
          BY <2>1, <3>1, <4>1 DEF StoredIsThere
        <4>2. CASE stored'[q] # stored[q]
          <5>1. q = part
            BY <1>6, <4>2
          <5>2. Made(q, Latest)
            BY <1>3, <2>2, <3>1, <5>1
          <5> QED BY <5>2 DEF Made
        <4> QED BY <4>1, <4>2
      <3> QED BY <1>2, <3>1 DEF StoredIsThere
    <2> QED BY <1>2, <2>5, <2>6, <2>7, <2>8, <2>9, <2>10 DEF RegistryInv
  <1> QED BY <1>7, <1>8, <1>9 DEF ImageInv

LEMMA CopyStep == ASSUME ImageInv, Copy PROVE ImageInv'
  <1>1. /\ run.pc = "copy" /\ ImageShape /\ TypeOK /\ Flow /\ run \in Deploys /\ tree \in Trees
        /\ at = "aws" /\ run.how \in {"asked", "skipped"} /\ ~run.noSpark
        /\ PartSet(at) = {"app", "spark"} /\ trusted \in BOOLEAN
        /\ UNCHANGED <<at, tree, edits, local, runs, torn, removed>>
    BY PartsFacts DEF Copy, ImageInv, ImageShape, TypeOK, Flow
  <1>2. /\ reg = [p \in {"app", "spark"} |-> reg[p]] /\ recorded \subseteq {"app", "spark"}
        /\ removed \subseteq {"app", "spark"}
        /\ stored \in [{"app", "spark"} -> Trees \cup {None}] /\ local \in [{"app", "spark"} -> Trees \cup {None}]
        /\ \A p \in {"app", "spark"} : DOMAIN reg[p] \subseteq Tags(MaxRuns) /\ \A v \in DOMAIN reg[p] : reg[p][v] \in Trees
    BY <1>1 DEF ImageShape, TypeOK
  <1> DEFINE Typed == /\ reg' = [p \in {"app", "spark"} |-> reg'[p]]
                      /\ \A p \in {"app", "spark"} : /\ DOMAIN reg'[p] \subseteq Tags(MaxRuns)
                                                     /\ \A v \in DOMAIN reg'[p] : reg'[p][v] \in Trees
                      /\ stored' \in [{"app", "spark"} -> Trees \cup {None}] /\ recorded' \subseteq {"app", "spark"}
                      /\ trusted' \in BOOLEAN
             Kept  == trusted' => trusted /\ reg' = reg /\ stored' = stored /\ recorded' = recorded
             Moved == \E n \in Nat : run' = [run EXCEPT !.pc = "resolve", !.k = n]
  <1>3. ASSUME run' = [run EXCEPT !.pc = "resolve"] /\ UNCHANGED <<reg, stored, trusted, recorded>>
        PROVE  Typed /\ Kept /\ Moved
    <2>1. run' = [run EXCEPT !.pc = "resolve", !.k = run.k] /\ run.k \in Nat
      BY <1>1, <1>3 DEF Deploys
    <2>2. Typed /\ Kept
      BY <1>1, <1>2, <1>3
    <2> QED BY <2>1, <2>2
  <1>4. ASSUME \E missing \in SUBSET {"app", "spark"}, n \in 0..4 :
          LET pushed == (IF n > 0 THEN {"app"} ELSE {}) \cup (IF n > 1 THEN {"spark"} ELSE {})
              known  == (IF n > 2 THEN {"app"} ELSE {}) \cup (IF n > 3 THEN {"spark"} ELSE {})
              sent   == missing \cap pushed
          IN  /\ \A p \in sent : local[p] # None
              /\ reg' = [p \in {"app", "spark"} |->
                          IF p \in sent THEN Put(reg[p], Latest, local[p]) ELSE reg[p]]
              /\ stored' = [p \in {"app", "spark"} |->
                             IF p \in known THEN Hash(p, tree) ELSE stored[p]]
              /\ trusted' = (trusted /\ n = 0)
              /\ recorded' = (recorded \ sent) \cup known
              /\ run' = [run EXCEPT !.pc = "resolve", !.k = n]
        PROVE  Typed /\ Kept /\ Moved
    <2>0. PICK missing \in SUBSET {"app", "spark"}, n \in 0..4 : <1>4!1!(missing, n)
      BY <1>4
    <2> DEFINE pushed == (IF n > 0 THEN {"app"} ELSE {}) \cup (IF n > 1 THEN {"spark"} ELSE {})
               known  == (IF n > 2 THEN {"app"} ELSE {}) \cup (IF n > 3 THEN {"spark"} ELSE {})
               sent   == missing \cap pushed
    <2>1. /\ \A p \in sent : local[p] # None
          /\ reg' = [p \in {"app", "spark"} |-> IF p \in sent THEN Put(reg[p], Latest, local[p]) ELSE reg[p]]
          /\ stored' = [p \in {"app", "spark"} |-> IF p \in known THEN Hash(p, tree) ELSE stored[p]]
          /\ trusted' = (trusted /\ n = 0)
          /\ recorded' = (recorded \ sent) \cup known
          /\ run' = [run EXCEPT !.pc = "resolve", !.k = n]
      BY <2>0
    <2>2. known \subseteq {"app", "spark"} /\ (n = 0 => sent = {} /\ known = {})
      OBVIOUS
    <2> HIDE DEF known, sent
    <2>3. ASSUME NEW p \in {"app", "spark"}, NEW v \in DOMAIN reg'[p]
          PROVE  v \in Tags(MaxRuns) /\ reg'[p][v] \in Trees
      <3>1. CASE p \in sent
        <4>1. local[p] \in Trees /\ Latest \in Tags(MaxRuns)
          BY <1>2, <2>1, <3>1 DEF Tags
        <4>2. reg'[p] = Put(reg[p], Latest, local[p])
          BY <2>1, <3>1
        <4> QED BY <1>2, <2>3, <4>1, <4>2 DEF Put
      <3>2. CASE p \notin sent
        BY <1>2, <2>1, <2>3, <3>2
      <3> QED BY <3>1, <3>2
    <2>4. Typed
      <3>1. stored' \in [{"app", "spark"} -> Trees \cup {None}]
        BY <1>1, <1>2, <2>1, ContentFacts
      <3>2. recorded' \subseteq {"app", "spark"} /\ trusted' \in BOOLEAN
        BY <1>1, <1>2, <2>1, <2>2
      <3>3. reg' = [p \in {"app", "spark"} |-> reg'[p]]
        BY <2>1
      <3> QED BY <2>3, <3>1, <3>2, <3>3
    <2>5. Kept
      <3>1. trusted' => trusted /\ sent = {} /\ known = {}
        BY <2>1, <2>2
      <3> QED BY <1>2, <2>1, <3>1
    <2>6. Moved
      <3>1. n \in Nat
        OBVIOUS
      <3> QED BY <2>1, <3>1
    <2> QED BY <2>4, <2>5, <2>6
  <1>5. Typed /\ Kept /\ Moved
    BY <1>3, <1>4 DEF Copy
  <1>6. PICK n \in Nat : run' = [run EXCEPT !.pc = "resolve", !.k = n]
    BY <1>5
  <1>7. /\ run' \in Deploys /\ run'.pc = "resolve" /\ run'.from = run.from /\ run'.hash = run.hash /\ run'.how = run.how
        /\ run'.noSpark = run.noSpark /\ run'.given = run.given /\ run'.alone = run.alone /\ run'.mode = run.mode /\ run'.tag = run.tag
    BY <1>1, <1>6 DEF Deploys, Steps
  <1>8. ImageShape'
    <2>1. run'.tag \in Tags(MaxRuns) \cup {None}
      BY <1>7 DEF Deploys
    <2>2. PartSet(at)' = {"app", "spark"}
      BY <1>1
    <2>3. TypeOK'
      BY <1>1, <1>5, <1>7, <2>1, <2>2 DEF TypeOK
    <2> QED BY <1>1, <1>2, <1>5, <1>7, <2>2, <2>3 DEF ImageShape
  <1>9. Flow'
    BY <1>1, <1>7 DEF Flow, Building, Settled
  <1>10. ASSUME trusted' PROVE (ReadInv /\ PushInv /\ SkipResolves /\ RegistryInv)'
    <2>1. trusted /\ ReadInv /\ RegistryInv /\ UNCHANGED <<at, reg, stored, recorded, torn, removed>>
      BY <1>1, <1>5, <1>10 DEF ImageInv
    <2>2. RegistryInv'
      BY <1>10, <2>1, RegistryKept
    <2>3. ReadInv'
      BY <1>1, <1>7, <2>1 DEF ReadInv, Compared, Building, Settled
    <2>4. PushInv' /\ SkipResolves'
      BY <1>1, <1>7 DEF PushInv, SkipResolves, Settled
    <2> QED BY <2>2, <2>3, <2>4
  <1> QED BY <1>8, <1>9, <1>10 DEF ImageInv

LEMMA RemoveStep == ASSUME ImageInv, Remove PROVE ImageInv'
  <1>1. PICK gone \in SUBSET {"app", "spark"} :
          /\ reg' = [p \in PartSet(at) |-> IF p \in gone THEN << >> ELSE reg[p]]
          /\ recorded' = recorded \ gone
          /\ removed' = removed \cup gone
    BY DEF Remove
  <1>2. /\ at = "local" /\ run.pc = "idle" /\ ImageShape /\ TypeOK /\ Flow
        /\ UNCHANGED <<at, tree, edits, local, stored, run, runs, trusted, torn>>
    BY DEF Remove, ImageInv, ImageShape
  <1>3. {"app", "spark"} \subseteq PartSet(at)
    BY <1>2, PartsFacts DEF TypeOK
  <1>4. /\ \A p \in PartSet(at) \ gone : reg'[p] = reg[p]
        /\ \A p \in gone : DOMAIN reg'[p] = {}
        /\ reg' = [p \in PartSet(at) |-> reg'[p]]
    <2> DEFINE kept == [p \in PartSet(at) |-> IF p \in gone THEN << >> ELSE reg[p]]
    <2>1. gone \subseteq PartSet(at) /\ reg' = kept /\ DOMAIN << >> = {}
      BY <1>1, <1>3
    <2>2. /\ \A p \in PartSet(at) \ gone : kept[p] = reg[p]
          /\ \A p \in gone : kept[p] = << >>
          /\ kept = [p \in PartSet(at) |-> kept[p]]
      BY <2>1
    <2> HIDE DEF kept
    <2> QED BY <2>1, <2>2
  <1>5. ImageShape'
    <2>1. \A p \in PartSet(at) : DOMAIN reg'[p] \subseteq Tags(MaxRuns) /\ \A v \in DOMAIN reg'[p] : reg'[p][v] \in Trees
      BY <1>2, <1>4 DEF TypeOK
    <2>2. recorded' \subseteq {"app", "spark"} /\ removed' \subseteq {"app", "spark"}
      BY <1>1, <1>2 DEF ImageShape
    <2> QED BY <1>2, <1>4, <2>1, <2>2 DEF ImageShape, TypeOK
  <1>6. Flow'
    BY <1>2 DEF Flow, ToStore
  <1>7. ASSUME trusted' PROVE (ReadInv /\ PushInv /\ SkipResolves /\ RegistryInv)'
    <2>1. RecordedIsLatest /\ StoredIsThere
      BY <1>2, <1>7 DEF ImageInv, RegistryInv
    <2>2. RecordedIsLatest'
      BY <1>1, <1>2, <1>3, <1>4, <2>1 DEF RecordedIsLatest, ImageShape
    <2>3. StoredIsThere'
      BY <1>1, <1>2, <1>3, <1>4, <2>1 DEF StoredIsThere
    <2>4. ReadInv' /\ PushInv' /\ SkipResolves'
      BY <1>2 DEF ReadInv, PushInv, SkipResolves, Flow, Building, Settled
    <2> QED BY <1>2, <2>2, <2>3, <2>4 DEF RegistryInv
  <1> QED BY <1>5, <1>6, <1>7 DEF ImageInv

-----------------------------------------------------------------------------
(* What holds of every deploy. *)

LEMMA ImageStep == ASSUME ImageInv, [Next]_vars PROVE ImageInv'
  <1>1. CASE UNCHANGED vars
    <2>1. UNCHANGED <<at, tree, edits, local, reg, stored, runs, history, run>>
      BY <1>1 DEF vars, history
    <2>2. ImageShape' /\ (trusted' => trusted /\ RegistryInv')
      BY <2>1, OnlyRun DEF ImageInv, ImageShape
    <2>3. Flow'
      BY <2>1 DEF ImageInv, Flow, ToStore
    <2>4. ASSUME trusted' PROVE ReadInv' /\ PushInv' /\ SkipResolves'
      <3>1. ReadInv /\ PushInv /\ SkipResolves
        BY <2>2, <2>4 DEF ImageInv
      <3>2. ReadInv'
        BY <2>1, <3>1 DEF ReadInv, Compared
      <3>3. PushInv'
        <4>1. Versions(reg)' = Versions(reg) /\ (run.tag \in Versions(reg) <=> (run.tag \in Versions(reg))')
          BY <2>1 DEF Versions
        <4> QED BY <2>1, <3>1, <4>1 DEF PushInv, PushedTag, Made, history
      <3>4. SkipResolves'
        BY <2>1, <2>4, <3>1, <2>2 DEF SkipResolves
      <3> QED BY <3>2, <3>3, <3>4
    <2> QED BY <2>2, <2>3, <2>4 DEF ImageInv
  <1>2. CASE Next
    BY <1>2, EditInv, StartInv, DecideInv, HashTreeInv, BuildInv, PushStep, StoreStep, CopyStep, ResolveInv, FailInv,
       RemoveStep
       DEF Next
  <1> QED BY <1>1, <1>2

(* The invariant that carries the theorems about images: what every step of the  *)
(* deploys, of the operator and of the source keeps, for any number of deploys and *)
(* of changes of the source and for every target.                                    *)
THEOREM ImageInvariant == Spec => []ImageInv
  BY ImageInitInv, ImageStep, PTL DEF Spec

(* decide_build_skip: whatever call fails and wherever the tools are stopped, a *)
(* hash is recorded in the bucket only for files that were pushed under a version,  *)
(* and a deploy that is skipped for its hashes finds a version to deploy.            *)
THEOREM SkipsAreSafe == Spec => []SkipIsSafe
  <1>1. ImageInv => SkipIsSafe
    BY DEF ImageInv, ImageShape, RegistryInv, SkipIsSafe, RecordedIsPushed, SkipResolves
  <1> QED BY <1>1, ImageInvariant, PTL

(* A version that was found in the registry, and that no build left halfway, is there *)
(* for every part, and of the tree that the app's image is of.                          *)
LEMMA FoundVersion ==
  ASSUME ImageInv, Vouched, at # "local", run.how # "built"
  PROVE  /\ run.tag \in DOMAIN reg["app"] /\ Latest \in DOMAIN reg["app"] /\ reg["app"][run.tag] = reg["app"][Latest]
         /\ \A p \in PartSet(at) : run.tag \in DOMAIN reg[p] /\ reg[p][run.tag] = Content(p, reg["app"][Latest])
  <1>1. /\ run.pc = "done" /\ run.tag \notin torn /\ run.given = None /\ PushInv /\ VersionsWhole
    BY DEF Vouched, ImageInv, RegistryInv, ImageShape, Deploys
  <1>2. run.tag \in Versions(reg)
    BY <1>1 DEF PushInv
  <1>3. run.tag \in DOMAIN reg["app"] \ {Latest} /\ Latest \in DOMAIN reg["app"] /\ reg["app"][run.tag] = reg["app"][Latest]
    BY <1>2 DEF Versions
  <1> QED BY <1>1, <1>3 DEF VersionsWhole

(* What a cloud's deploy built and settled on is there for every part. *)
LEMMA BuiltVersion ==
  ASSUME ImageInv, Vouched, at # "local", run.how = "built", NEW p \in PartSet(at)
  PROVE  Made(p, run.tag)
  <1>1. Made(p, PushedTag(p)) /\ ~run.alone
    BY DEF Vouched, ImageInv, PushInv, Settled
  <1> QED BY <1>1 DEF PushedTag

(* get_deploy_image_uris: the tag that is read from the app's image, or that was   *)
(* built, is in the registry for every image, unless a build of it stopped halfway   *)
(* or gave Spark another; the local machine lacks only what its teardown removed.     *)
THEOREM DeploysExist == Spec => []DeployedExists
  <1>1. ASSUME ImageInv, Vouched, at # "local", NEW p \in PartSet(at) PROVE run.tag \in DOMAIN reg[p]
    <2>1. CASE run.how = "built"
      BY <1>1, <2>1, BuiltVersion DEF Made
    <2>2. CASE run.how # "built"
      BY <1>1, <2>2, FoundVersion
    <2> QED BY <2>1, <2>2
  <1>2. ASSUME ImageInv, Vouched, at = "local", NEW p \in Compared \ removed PROVE run.tag \in DOMAIN reg[p]
    <2>1. /\ run.pc = "done" /\ ReadInv /\ PushInv /\ StoredIsThere /\ run.tag = Latest /\ run \in Deploys
          /\ run.how \in {"skipped", "built"} /\ p \in {"app", "spark"} /\ (p = "spark" => ~run.noSpark)
      BY <1>2 DEF Vouched, ImageInv, ImageShape, RegistryInv, Flow, Compared
    <2>2. CASE run.how = "built"
      BY <1>2, <2>1, <2>2 DEF PushInv, Made
    <2>3. CASE run.how = "skipped"
      <3>1. stored[p] = Hash(p, run.from) /\ run.from \in Trees
        BY <1>2, <2>1, <2>3 DEF ReadInv, Settled, Deploys
      <3>2. stored[p] # None
        BY <3>1, ContentFacts
      <3> QED BY <1>2, <2>1, <3>2 DEF StoredIsThere
    <2> QED BY <2>1, <2>2, <2>3
  <1>3. ImageInv => DeployedExists
    BY <1>1, <1>2 DEF DeployedExists
  <1> QED BY <1>3, ImageInvariant, PTL

(* A deploy runs the source it was started on, config aside, whether it built the   *)
(* images or skipped the build for hashes that the build of those images recorded      *)
(* and, on the local machine, no teardown has removed since.                            *)
THEOREM DeploysAreCurrent == Spec => []DeployedIsCurrent
  <1>1. ASSUME ImageInv, Vouched, run.how # "asked", run.how = "built" \/ Compared \subseteq recorded,
               NEW p \in Compared
        PROVE  run.tag \in DOMAIN reg[p] /\ SameFiles(p, reg[p][run.tag], run.from)
    <2>1. /\ run.pc = "done" /\ ReadInv /\ PushInv /\ RecordedIsLatest /\ Flow /\ run \in Deploys
          /\ at \in Targets /\ TypeOK
      BY <1>1 DEF Vouched, ImageInv, RegistryInv, ImageShape, TypeOK
    <2>2. /\ p \in PartSet(at) /\ p \in {"app", "spark"} /\ (p = "spark" => ~run.noSpark)
          /\ run.from \in Trees /\ "app" \in Compared /\ "app" \in PartSet(at)
          /\ at = "local" => run.tag = Latest
      BY <2>1, PartsFacts DEF Compared, Flow, Deploys
    <2>3. CASE run.how = "built"
      <3>1. Made(p, run.tag)
        <4>1. CASE at # "local"
          BY <1>1, <2>2, <2>3, <4>1, BuiltVersion
        <4>2. CASE at = "local"
          BY <2>1, <2>2, <2>3, <4>2 DEF PushInv
        <4> QED BY <4>1, <4>2
      <3> QED BY <3>1 DEF Made, SameFiles
    <2>4. CASE run.how # "built"
      <3>1. run.how = "skipped" /\ Compared \subseteq recorded
        BY <1>1, <2>1, <2>4 DEF Flow, Deploys, Settled
      <3>2. \A q \in Compared : stored[q] = Hash(q, run.from)
        BY <2>1, <3>1 DEF ReadInv, Settled
      <3>3. CASE at = "local"
        <4>1. PICK t \in Trees : reg[p][Latest] = Content(p, t) /\ stored[p] = Hash(p, t)
          BY <1>1, <2>1, <3>1, <3>3 DEF RecordedIsLatest
        <4>2. Latest \in DOMAIN reg[p]
          BY <1>1, <2>1, <3>1, <3>3 DEF RecordedIsLatest
        <4>3. Hash(p, t) = Hash(p, run.from)
          BY <1>1, <3>2, <4>1
        <4> QED BY <2>2, <3>3, <4>1, <4>2, <4>3, SameHash
      <3>4. CASE at # "local"
        <4>1. PICK t \in Trees : reg["app"][Latest] = Content("app", t) /\ stored["app"] = Hash("app", t)
          BY <2>1, <2>2, <3>1 DEF RecordedIsLatest
        <4>2. reg["app"][Latest] = t /\ Hash("app", t) = Hash("app", run.from)
          BY <2>2, <3>2, <4>1, ContentFacts
        <4>3. run.tag \in DOMAIN reg[p] /\ reg[p][run.tag] = Content(p, t)
          BY <1>1, <2>2, <2>4, <3>4, <4>2, FoundVersion
        <4> QED BY <2>2, <4>2, <4>3, SameHash
      <3> QED BY <3>3, <3>4
    <2> QED BY <2>3, <2>4
  <1>2. ImageInv => DeployedIsCurrent
    BY <1>1 DEF DeployedIsCurrent
  <1> QED BY <1>2, ImageInvariant, PTL
=============================================================================
