------------------------- MODULE BuildDeployProofs --------------------------
(***************************************************************************)
(* Proofs about BuildDeploy for any number of jobs, attempts and ports:    *)
(* no Deployment is recorded on a port another one holds, a completed      *)
(* deploy names its own attempt's Deployment, built from a source no older *)
(* than the import that asked for it, and the three pointers of a project  *)
(* agree once its first deploy has completed undisturbed.                  *)
(***************************************************************************)
EXTENDS BuildDeploy, WellFoundedInduction, TLAPS

Importing == {"fetching", "revising", "chaining"}
Placing == {"building", "scanning", "probing", "starting"}
Building == Placing \cup {"owning", "answering", "recording"}
Finishing == {"naming", "targeting", "routing", "promoting"}
Place == {"unborn", "preparing", "settling", "failing", "over"}
         \cup Importing \cup Building \cup Finishing

RevisionType == [origin : {"none", "git-sync", "upload"}, by : JobId \cup {NoId}]
RowType ==
    [kind : {"none", "upload", "sync", "deploy"}, chain : BOOLEAN, promote : BOOLEAN,
     confirmed : BOOLEAN, drifting : BOOLEAN, parent : JobId \cup {NoId},
     status : {"absent", "queued", "running", "completed", "failed"},
     attempt : Try \cup {NoId}, deployment : Try \cup {NoId}]
TryType ==
    [job : JobId \cup {NoId}, at : Place, first : BOOLEAN, revision : RevisionType,
     reserved : SUBSET (Ports \cup {NoId}), port : Ports \cup {NoId},
     replaced : Try \cup {NoId}]

\* The types of the state, without what relates one table to another.
HostShape ==
    /\ mishaps \in 0..MaxMishaps
    /\ lapsed \subseteq Try /\ inFlight \subseteq Ports
    /\ proc \in [Try -> {"none", "started", "listening"}]
    /\ \A a \in Try : tries[a].at = "probing" => tries[a].port \in Ports
Shape ==
    /\ queued \in 0..MaxRows
    /\ rows \in [JobId -> RowType]
    /\ source \in RevisionType
    /\ production \in Try \cup {NoId} /\ stable \in Try \cup {NoId}
    /\ scheduler \in Try \cup {NoId}
    /\ tries \in [Try -> TryType]
    /\ recorded \subseteq Try
    /\ HostShape

\* An attempt belongs to a queued job of its kind; one that has not begun has no trace.
Attempts ==
    \A a \in Try :
        /\ tries[a].at = "unborn" <=> tries[a].job = NoId
        /\ tries[a].at = "unborn" => a \notin recorded
        /\ tries[a].at # "unborn" => rows[tries[a].job].status # "absent"
        /\ tries[a].at \in Importing => Row(a).kind \in {"upload", "sync"}
        /\ tries[a].at \in {"preparing"} \cup Building \cup Finishing => Row(a).kind = "deploy"
        /\ tries[a].at \in Importing \cup {"preparing"} \cup Building => a \notin recorded
        /\ tries[a].at \in Finishing => a \in recorded
        /\ tries[a].at = "settling" /\ Row(a).kind = "deploy" => a \in recorded
        /\ a \in recorded => Row(a).kind = "deploy"

\* The rows up to `queued' exist, and say what they ask for.
Numbered ==
    \A j \in JobId : /\ rows[j].status = "absent" <=> j > queued
                     /\ rows[j].status # "absent" => rows[j].kind # "none"

-----------------------------------------------------------------------------
\* A port has one holder; an attempt has no process before it starts one; and whoever has
\* proved ownership, or was recorded after that, listens or has stopped since.
OneHolder ==
    \A d, e \in Try : proc[d] = "listening" /\ proc[e] = "listening"
                      /\ tries[d].port = tries[e].port => d = e
NotStarted ==
    \A a \in Try :
        tries[a].at \in {"unborn", "preparing"} \cup Importing \cup Placing => proc[a] = "none"
Proven ==
    \A a \in Try : tries[a].at \in {"answering", "recording"} \/ a \in recorded
                   => proc[a] = "listening" \/ a \in lapsed

-----------------------------------------------------------------------------
\* Jobs are claimed in order, one at a time: before a job that was tried all are settled,
\* but for deploys before an import;
\* and an attempt that outlives its job's settlement was not the only one.
Settled(j) == rows[j].status \in {"completed", "failed"}
Tried(j) == \E a \in Try : tries[a].job = j
InOrder == \A i, j \in JobId : i < j /\ Tried(j) => Settled(i) \/ Overtakes(j, i)
Outlives ==
    \A a \in Try : Alive(a) => ~Settled(tries[a].job) \/ TriedTwice(tries[a].job)

\* The attempt a row names is one of its own, it holds the row only from its claim on.
Named ==
    \A j \in JobId :
        rows[j].status \in {"running", "completed"}
        => rows[j].attempt \in Try /\ tries[rows[j].attempt].job = j

\* What an attempt that still holds its row has written there, and what a completed row has.
Delivers ==
    /\ \A a \in Try :
          /\ tries[a].at \in (Finishing \ {"naming"}) \cup {"settling"}
          /\ Row(a).kind = "deploy" /\ Holds(a)
          => Row(a).deployment = a
    /\ \A j \in JobId : rows[j].kind = "deploy" /\ rows[j].status = "completed" =>
          /\ rows[j].deployment = rows[j].attempt
          /\ rows[j].deployment \in recorded

-----------------------------------------------------------------------------
\* An import tried twice among the jobs before p.
OlderTwice(p) == \E i \in JobId : i < p /\ TriedTwice(i)

\* Once an import has recorded its revision, the project's source is no older; and so is what
\* the deploys it asks for build.
SourceFollows ==
    /\ \A j, p \in JobId :
          rows[j].parent = p => /\ Tried(p) /\ rows[p].kind # "deploy"
                                /\ source.by >= p \/ OlderTwice(p)
    /\ \A a \in Try : tries[a].at = "revising" => tries[a].revision.by = tries[a].job
    /\ \A a \in Try, p \in JobId :
          /\ tries[a].at = "chaining" /\ tries[a].job = p => source.by >= p \/ OlderTwice(p)
          /\ (tries[a].at \in Building \/ a \in recorded) /\ Row(a).parent = p
             => tries[a].revision.by >= p \/ OlderTwice(p)

-----------------------------------------------------------------------------
\* A project has a Deployment once one is recorded, and a stable route only then.
Pointed ==
    /\ production = NoId <=> recorded = {}
    /\ {production, stable, scheduler} \subseteq recorded \cup {NoId}
    /\ \A j \in JobId : rows[j].deployment \in recorded \cup {NoId}

\* No job up to the attempt's own was tried twice.
Clean(a) == \A j \in 1..tries[a].job : ~TriedTwice(j)

\* A first deploy that nothing disturbs finds no Deployment, and the pointers it has set are
\* its own while it runs ...
FirstAlone ==
    /\ \A a \in Try : tries[a].at # "unborn" /\ tries[a].first => Row(a).kind = "deploy"
    /\ \A a \in Try : tries[a].first /\ Clean(a) =>
        /\ tries[a].at \in Building => recorded = {} /\ stable = NoId /\ scheduler = NoId
        /\ tries[a].at \in Finishing \cup {"settling"} =>
              /\ recorded = {a} /\ production = a
              /\ stable \in {NoId, a} /\ scheduler \in {NoId, a}
              /\ tries[a].at \notin {"naming", "targeting"} /\ HasSchedules => scheduler = a
              /\ tries[a].at \in {"promoting", "settling"} => stable = a

\* ... and after it has completed only promotions move them, all three at once.
FirstDone ==
    \A d \in Try :
        d \in recorded /\ FirstDeploys = {d} /\ Clean(d) /\ Row(d).status = "completed"
        => stable # NoId /\ stable = production /\ (HasSchedules => scheduler = production)

DeployInv ==
    /\ Shape /\ Attempts /\ Numbered
    /\ OneHolder /\ NotStarted /\ Proven
    /\ InOrder /\ Outlives /\ Named /\ Delivers
    /\ SourceFollows
    /\ Pointed /\ FirstAlone /\ FirstDone

-----------------------------------------------------------------------------
(***************************************************************************)
(* What the steps do to rows and attempts, field by field                  *)
(***************************************************************************)
\* Attempt a is at p now and still of its job; the others are as they were.
Ahead(a, p) ==
    /\ tries' \in [Try -> TryType]
    /\ \A b \in Try : b # a => tries'[b] = tries[b]
    /\ tries'[a].at = p /\ tries'[a].job = tries[a].job
KeepsBuild(a) ==
    tries'[a].first = tries[a].first /\ tries'[a].revision = tries[a].revision
KeepsPort(a) == tries'[a].port = tries[a].port

\* A row keeps what no attempt of it changes; the other rows are as they were.
SameRow(j) ==
    /\ rows'[j].kind = rows[j].kind /\ rows'[j].parent = rows[j].parent
    /\ rows'[j].promote = rows[j].promote
OneRow(j) ==
    /\ rows' \in [JobId -> RowType]
    /\ \A i \in JobId : i # j => rows'[i] = rows[i]
    /\ SameRow(j)

LEMMA SetsTry ==
    ASSUME Shape, NEW a \in Try, NEW t \in TryType, tries' = [tries EXCEPT ![a] = t],
           t.job = tries[a].job
    PROVE  Ahead(a, t.at) /\ tries'[a] = t
BY DEF Shape, Ahead

LEMMA TryFields ==
    ASSUME NEW t \in TryType, NEW p \in Place
    PROVE  /\ [t EXCEPT !.at = p] \in TryType
           /\ \A n \in Ports \cup {NoId} : [t EXCEPT !.at = p, !.port = n] \in TryType
           /\ \A n \in Ports \cup {NoId} : [t EXCEPT !.port = n, !.at = p] \in TryType
           /\ \A S \in SUBSET (Ports \cup {NoId}) : [t EXCEPT !.reserved = S, !.at = p] \in TryType
           /\ \A r \in RevisionType : [t EXCEPT !.revision = r, !.at = p] \in TryType
           /\ \A r \in RevisionType, f \in BOOLEAN :
                 [t EXCEPT !.revision = r, !.first = f, !.at = p] \in TryType
           /\ \A d \in Try \cup {NoId} : [t EXCEPT !.replaced = d, !.at = p] \in TryType
           /\ \A j \in JobId : [t EXCEPT !.job = j, !.at = p] \in TryType
BY DEF TryType

LEMMA GoesAhead ==
    ASSUME Shape, NEW a \in Try, NEW p \in Place, Goes(a, p)
    PROVE  Ahead(a, p) /\ KeepsBuild(a) /\ KeepsPort(a)
<1> DEFINE t == [tries[a] EXCEPT !.at = p]
<1>1. tries[a] \in TryType
  BY DEF Shape
<1>2. t \in TryType /\ t.at = p /\ t.job = tries[a].job /\ t.first = tries[a].first
      /\ t.revision = tries[a].revision /\ t.port = tries[a].port
  BY <1>1, TryFields DEF TryType
<1>3. tries' = [tries EXCEPT ![a] = t]
  BY DEF Goes
<1> HIDE DEF t
<1> QED
  BY <1>2, <1>3, SetsTry DEF KeepsBuild, KeepsPort

LEMMA FailsAhead ==
    ASSUME Shape, NEW a \in Try, Fails(a)
    PROVE  /\ Ahead(a, "failing") /\ KeepsBuild(a)
           /\ KeepsPort(a) \/ (tries[a].at \in {"scanning", "probing"} /\ tries'[a].port = NoId)
<1> DEFINE n == IF tries[a].at \in {"scanning", "probing"} THEN NoId ELSE tries[a].port
           t == [tries[a] EXCEPT !.at = "failing", !.port = n]
<1>1. /\ tries[a] \in TryType /\ n \in Ports \cup {NoId}
      /\ n = tries[a].port \/ (tries[a].at \in {"scanning", "probing"} /\ n = NoId)
  <2>1. tries[a] \in TryType
    BY DEF Shape
  <2>2. tries[a].port \in Ports \cup {NoId}
    BY <2>1 DEF TryType
  <2> QED
    BY <2>1, <2>2
<1>3. tries' = [tries EXCEPT ![a] = t]
  BY DEF Fails
<1> HIDE DEF n
<1>2. t \in TryType /\ t.at = "failing" /\ t.job = tries[a].job /\ t.first = tries[a].first
      /\ t.revision = tries[a].revision /\ t.port = n
  BY <1>1 DEF TryType, Place
<1> HIDE DEF t
<1> QED
  BY <1>1, <1>2, <1>3, SetsTry DEF KeepsBuild, KeepsPort

LEMMA EndsTry ==
    ASSUME Shape, NEW a \in Try
    PROVE  /\ Ended(a) \in TryType /\ Ended(a).at = "over" /\ Ended(a).job = tries[a].job
           /\ Ended(a).port = tries[a].port
           /\ a \in recorded => Ended(a).first = tries[a].first
                                /\ Ended(a).revision = tries[a].revision
           /\ a \notin recorded => Ended(a).first = FALSE
<1>1. tries[a] \in TryType
  BY DEF Shape
<1>2. CASE a \in recorded
  BY <1>1, <1>2 DEF Ended, TryType, Place
<1>3. CASE a \notin recorded
  BY <1>1, <1>3, BuildDeployAssumption
     DEF Ended, NoTry, TryType, Place, NoRevision, RevisionType
<1> QED
  BY <1>2, <1>3

LEMMA StatusRow ==
    ASSUME Shape, NEW j \in JobId,
           NEW s \in {"absent", "queued", "running", "completed", "failed"},
           rows' = [rows EXCEPT ![j].status = s]
    PROVE  /\ OneRow(j) /\ rows'[j].status = s
           /\ rows'[j].attempt = rows[j].attempt /\ rows'[j].deployment = rows[j].deployment
<1> DEFINE r == [rows[j] EXCEPT !.status = s]
<1>1. rows[j] \in RowType
  BY DEF Shape
<1>2. /\ r \in RowType /\ r.status = s /\ r.kind = rows[j].kind /\ r.parent = rows[j].parent
      /\ r.promote = rows[j].promote /\ r.attempt = rows[j].attempt
      /\ r.deployment = rows[j].deployment
  BY <1>1 DEF RowType
<1>3. rows' = [rows EXCEPT ![j] = r]
  OBVIOUS
<1> HIDE DEF r
<1> QED
  BY <1>2, <1>3 DEF OneRow, SameRow, Shape

LEMMA ClaimedRow ==
    ASSUME Shape, NEW j \in JobId, NEW a \in Try,
           rows' = [rows EXCEPT ![j].status = "running", ![j].attempt = a]
    PROVE  /\ OneRow(j) /\ rows'[j].status = "running"
           /\ rows'[j].attempt = a /\ rows'[j].deployment = rows[j].deployment
<1> DEFINE r == [rows[j] EXCEPT !.status = "running", !.attempt = a]
<1>1. rows[j] \in RowType
  BY DEF Shape
<1>2. /\ r \in RowType /\ r.status = "running" /\ r.kind = rows[j].kind
      /\ r.parent = rows[j].parent /\ r.promote = rows[j].promote /\ r.attempt = a
      /\ r.deployment = rows[j].deployment
  BY <1>1 DEF RowType
<1>3. rows' = [rows EXCEPT ![j] = r]
  BY DEF Shape
<1> HIDE DEF r
<1> QED
  BY <1>2, <1>3 DEF OneRow, SameRow, Shape

LEMMA NamedRow ==
    ASSUME Shape, NEW j \in JobId, NEW a \in Try,
           rows' = [rows EXCEPT ![j].deployment = a]
    PROVE  /\ OneRow(j) /\ rows'[j].status = rows[j].status
           /\ rows'[j].attempt = rows[j].attempt /\ rows'[j].deployment = a
<1> DEFINE r == [rows[j] EXCEPT !.deployment = a]
<1>1. rows[j] \in RowType
  BY DEF Shape
<1>2. /\ r \in RowType /\ r.status = rows[j].status /\ r.kind = rows[j].kind
      /\ r.parent = rows[j].parent /\ r.promote = rows[j].promote
      /\ r.attempt = rows[j].attempt /\ r.deployment = a
  BY <1>1 DEF RowType
<1>3. rows' = [rows EXCEPT ![j] = r]
  OBVIOUS
<1> HIDE DEF r
<1> QED
  BY <1>2, <1>3 DEF OneRow, SameRow, Shape

\* A new row takes the next number.
NewRow(kind, parent) ==
    /\ queued < MaxRows /\ queued' = queued + 1 /\ queued + 1 \in JobId
    /\ rows' \in [JobId -> RowType]
    /\ \A i \in JobId : i # queued + 1 => rows'[i] = rows[i]
    /\ rows'[queued + 1].kind = kind /\ rows'[queued + 1].parent = parent
    /\ rows'[queued + 1].status = "queued" /\ rows'[queued + 1].deployment = NoId

LEMMA InsertsRow ==
    ASSUME Shape, NEW kind \in {"upload", "sync", "deploy"}, NEW chain \in BOOLEAN,
           NEW promote \in BOOLEAN, NEW confirmed \in BOOLEAN,
           NEW parent \in JobId \cup {NoId},
           InsertJob([Asked(kind, chain, promote, confirmed) EXCEPT !.parent = parent])
    PROVE  NewRow(kind, parent)
<1> DEFINE asked == Asked(kind, chain, promote, confirmed)
           r == [asked EXCEPT !.parent = parent]
<1>0. Drift \in BOOLEAN
  BY DEF Drift
<1>1. /\ asked \in RowType /\ asked.kind = kind /\ asked.status = "queued"
      /\ asked.deployment = NoId /\ asked.parent = NoId
  BY <1>0 DEF Asked, NoRow, RowType
<1> HIDE DEF asked
<1>2. /\ r \in RowType /\ r.kind = kind /\ r.status = "queued" /\ r.deployment = NoId
      /\ r.parent = parent
  BY <1>1 DEF RowType
<1>3. queued < MaxRows /\ queued' = queued + 1 /\ rows' = [rows EXCEPT ![queued + 1] = r]
  BY DEF InsertJob, asked
<1>4. queued + 1 \in JobId
  BY <1>3, BuildDeployAssumption DEF Shape, JobId
<1> HIDE DEF r
<1> QED
  BY <1>2, <1>3, <1>4 DEF NewRow, Shape

LEMMA InsertsRequest ==
    ASSUME Shape, NEW kind \in {"upload", "sync", "deploy"}, NEW chain \in BOOLEAN,
           NEW promote \in BOOLEAN, NEW confirmed \in BOOLEAN,
           InsertJob(Asked(kind, chain, promote, confirmed))
    PROVE  NewRow(kind, NoId)
<1> DEFINE r == Asked(kind, chain, promote, confirmed)
<1>0. Drift \in BOOLEAN
  BY DEF Drift
<1>1. /\ r \in RowType /\ r.kind = kind /\ r.status = "queued" /\ r.deployment = NoId
      /\ r.parent = NoId
  BY <1>0 DEF Asked, NoRow, RowType
<1>3. queued < MaxRows /\ queued' = queued + 1 /\ rows' = [rows EXCEPT ![queued + 1] = r]
  BY DEF InsertJob
<1>4. queued + 1 \in JobId
  BY <1>3, BuildDeployAssumption DEF Shape, JobId
<1> HIDE DEF r
<1> QED
  BY <1>1, <1>3, <1>4 DEF NewRow, Shape

-----------------------------------------------------------------------------
(***************************************************************************)
(* The kinds of steps, as far as rows, attempts and pointers go            *)
(***************************************************************************)
Elsewhere == UNCHANGED <<rows, queued, source, pointers, tries, recorded>>
Requested ==
    /\ \E kind \in {"upload", "sync", "deploy"} : NewRow(kind, NoId)
    /\ UNCHANGED <<source, pointers, tries, recorded>>
Repointed ==
    /\ \/ stable # NoId /\ \E d \in recorded : production' = d /\ stable' = d /\ scheduler' = d
       \/ production # NoId /\ stable = NoId /\ stable' = production
          /\ UNCHANGED <<production, scheduler>>
    /\ UNCHANGED <<rows, queued, source, tries, recorded>>
Died ==
    /\ tries' \in [Try -> TryType]
    /\ \A a \in Try :
          /\ tries'[a].job = tries[a].job /\ KeepsPort(a)
          /\ IF Alive(a) THEN tries'[a].at = "over"
                              /\ (a \in recorded => KeepsBuild(a))
                              /\ (a \notin recorded => tries'[a].first = FALSE)
             ELSE tries'[a] = tries[a]
    /\ UNCHANGED <<rows, queued, source, pointers, recorded>>
Recovered(j) ==
    /\ rows[j].status = "running" /\ OneRow(j) /\ rows'[j].status = "queued"
    /\ rows'[j].attempt = rows[j].attempt /\ rows'[j].deployment = rows[j].deployment
    /\ UNCHANGED <<queued, source, pointers, tries, recorded>>
Claimed(j, a) ==
    /\ rows[j].status = "queued"
    /\ \A i \in JobId : /\ rows[i].status # "running"
                        /\ i < j /\ rows[i].status = "queued" => Overtakes(j, i)
    /\ OneRow(j) /\ rows'[j].status = "running" /\ rows'[j].attempt = a
    /\ rows'[j].deployment = rows[j].deployment
    /\ tries[a].at = "unborn" /\ tries[a].job = NoId
    /\ tries' \in [Try -> TryType]
    /\ \A b \in Try : b # a => tries'[b] = tries[b]
    /\ tries'[a].job = j /\ tries'[a].first = FALSE
    /\ IF rows[j].kind = "deploy" THEN tries'[a].at = "preparing" ELSE tries'[a].at = "fetching"
    /\ UNCHANGED <<queued, source, pointers, recorded>>
Local(a, p) ==
    /\ \/ p = "failing" /\ Alive(a)
       \/ p \in Placing /\ tries[a].at \in Placing
       \/ p = "owning" /\ tries[a].at = "starting"
       \/ p = "answering" /\ tries[a].at = "owning" /\ proc[a] = "listening"
       \/ p = "recording" /\ tries[a].at = "answering"
    /\ Ahead(a, p) /\ KeepsBuild(a)
    /\ UNCHANGED <<rows, queued, source, pointers, recorded>>
Over(a, s) ==
    /\ \/ s = "completed" /\ tries[a].at = "settling"
       \/ s = "failed" /\ tries[a].at = "failing"
    /\ IF Holds(a) THEN /\ OneRow(tries[a].job) /\ rows'[tries[a].job].status = s
                        /\ rows'[tries[a].job].attempt = a
                        /\ rows'[tries[a].job].deployment = Row(a).deployment
       ELSE rows' = rows
    /\ Ahead(a, "over") /\ KeepsPort(a)
    /\ (a \in recorded => KeepsBuild(a)) /\ (a \notin recorded => tries'[a].first = FALSE)
    /\ UNCHANGED <<queued, source, pointers, recorded>>
Fetched(a) ==
    /\ tries[a].at = "fetching" /\ Ahead(a, "revising")
    /\ tries'[a].first = tries[a].first /\ tries'[a].revision.by = tries[a].job
    /\ UNCHANGED <<rows, queued, source, pointers, recorded>>
Revised(a) ==
    /\ tries[a].at = "revising" /\ source' = tries[a].revision
    /\ Ahead(a, "chaining") \/ Ahead(a, "settling")
    /\ KeepsBuild(a)
    /\ UNCHANGED <<rows, queued, pointers, recorded>>
Chained(a) ==
    /\ tries[a].at = "chaining" /\ NewRow("deploy", tries[a].job)
    /\ Ahead(a, "settling") /\ KeepsBuild(a)
    /\ UNCHANGED <<source, pointers, recorded>>
Prepared(a) ==
    /\ tries[a].at = "preparing"
    /\ \/ Ahead(a, "failing") /\ KeepsBuild(a)
       \/ Ahead(a, "building") /\ tries'[a].revision = source
          /\ tries'[a].first = (production = NoId)
    /\ UNCHANGED <<rows, queued, source, pointers, recorded>>
Recorded(a) ==
    /\ tries[a].at = "recording" /\ Ahead(a, "naming") /\ KeepsBuild(a)
    /\ recorded' = recorded \cup {a}
    /\ production' = IF production = NoId THEN a ELSE production
    /\ UNCHANGED <<rows, queued, source, stable, scheduler>>
Announced(a) ==
    /\ tries[a].at = "naming" /\ Ahead(a, "targeting") /\ KeepsBuild(a)
    /\ IF Holds(a) THEN /\ OneRow(tries[a].job) /\ rows'[tries[a].job].status = "running"
                        /\ rows'[tries[a].job].attempt = a
                        /\ rows'[tries[a].job].deployment = a
       ELSE rows' = rows
    /\ UNCHANGED <<queued, source, pointers, recorded>>
Targeted(a) ==
    /\ tries[a].at = "targeting" /\ Ahead(a, "routing") /\ KeepsBuild(a)
    /\ scheduler' = IF tries[a].first /\ HasSchedules THEN a ELSE scheduler
    /\ UNCHANGED <<rows, queued, source, production, stable, recorded>>
Routed(a) ==
    /\ tries[a].at = "routing" /\ (Ahead(a, "promoting") \/ Ahead(a, "settling"))
    /\ KeepsBuild(a)
    /\ stable' = IF stable = NoId THEN a ELSE stable
    /\ UNCHANGED <<rows, queued, source, production, scheduler, recorded>>
PromotedAfter(a) ==
    /\ tries[a].at = "promoting" /\ Ahead(a, "settling") /\ KeepsBuild(a)
    /\ stable # NoId /\ production' = a /\ stable' = a /\ scheduler' = a
    /\ UNCHANGED <<rows, queued, source, recorded>>

StepKind ==
    \/ Elsewhere \/ Requested \/ Repointed \/ Died
    \/ \E j \in JobId : Recovered(j) \/ \E a \in Try : Claimed(j, a)
    \/ \E a \in Try :
          \/ \E p \in Place : Local(a, p)
          \/ \E s \in {"completed", "failed"} : Over(a, s)
          \/ Fetched(a) \/ Revised(a) \/ Chained(a) \/ Prepared(a) \/ Recorded(a)
          \/ Announced(a) \/ Targeted(a) \/ Routed(a) \/ PromotedAfter(a)

LEMMA IdSets == NoId \notin JobId /\ NoId \notin Try /\ NoId \notin Ports
BY BuildDeployAssumption DEF NoId, JobId, Try

\* The least of some ports is one of them.
LEMMA LeastPort ==
    ASSUME NEW S \in SUBSET Ports, S # {}
    PROVE  (CHOOSE p \in S : \A q \in S : p <= q) \in S
<1> DEFINE R == {ss \in Nat \X Nat : ss[1] < ss[2]}
<1>1. IsWellFoundedOn(R, Nat)
  BY NatLessThanWellFounded DEF OpToRel
<1> HIDE DEF R
<1>2. PICK x \in S : \A y \in S : ~ (<<y, x>> \in R)
  BY <1>1, WFMin, BuildDeployAssumption
<1>3. \E p \in S : \A q \in S : p <= q
  <2>1. ASSUME NEW y \in S PROVE x <= y
    <3>1. x \in Nat /\ y \in Nat
      BY BuildDeployAssumption
    <3>2. y < x => <<y, x>> \in R
      BY <3>1 DEF R
    <3> QED
      BY <1>2, <3>1, <3>2
  <2> QED
    BY <2>1
<1> QED
  BY <1>3

LEMMA StepKinds == Shape /\ Attempts /\ [DeployNext]_deployVars => StepKind /\ HostShape'
<1> SUFFICES ASSUME Shape, Attempts, [DeployNext]_deployVars PROVE StepKind /\ HostShape'
  OBVIOUS
<1>0. \A a \in Try : tries[a] \in TryType
  BY DEF Shape
<1>h. HostShape
  BY DEF Shape
<1>j. \A a \in Try : tries[a].job \in JobId \cup {NoId} /\ tries[a].port \in Ports \cup {NoId}
                     /\ (tries[a].at # "unborn" => tries[a].job \in JobId)
  BY <1>0 DEF Attempts, TryType
<1> USE DEF deployVars, tableVars, pointers, hostVars
<1>1. ASSUME NEW chain \in BOOLEAN, NEW promote \in BOOLEAN, UploadSource(chain, promote)
      PROVE StepKind /\ HostShape'
  BY <1>1, <1>h, InsertsRequest DEF UploadSource, StepKind, Requested, HostShape
<1>2. ASSUME NEW chain \in BOOLEAN, NEW promote \in BOOLEAN, NEW confirmed \in BOOLEAN,
             SyncSource(chain, promote, confirmed)
      PROVE StepKind /\ HostShape'
  BY <1>2, <1>h, InsertsRequest DEF SyncSource, StepKind, Requested, HostShape
<1>3. ASSUME NEW promote \in BOOLEAN, NEW confirmed \in BOOLEAN, RequestDeploy(promote, confirmed)
      PROVE StepKind /\ HostShape'
  BY <1>3, <1>h, InsertsRequest DEF RequestDeploy, StepKind, Requested, HostShape
<1>4. ASSUME NEW a \in Try, PromoteDeployment(a) PROVE StepKind /\ HostShape'
  BY <1>4, <1>h, BuildDeployAssumption
     DEF PromoteDeployment, MovePointers, Mishap, StepKind, Repointed, HostShape
<1>5. ASSUME ReconcileAgentRoutes PROVE StepKind /\ HostShape'
  BY <1>5, <1>h DEF ReconcileAgentRoutes, StepKind, Repointed, HostShape
<1>6. ASSUME WorkerDies PROVE StepKind /\ HostShape'
  <2>1. Died
    BY <1>6, <1>0, EndsTry DEF WorkerDies, Died, Shape, KeepsPort, KeepsBuild
  <2>2. HostShape'
    BY <1>6, <2>1, <1>h, BuildDeployAssumption DEF WorkerDies, Died, Mishap, HostShape
  <2> QED
    BY <2>1, <2>2 DEF StepKind
<1>7. ASSUME NEW j \in JobId, RecoverStaleJob(j) PROVE StepKind /\ HostShape'
  <2>1. rows' = [rows EXCEPT ![j].status = "queued"]
    BY <1>7 DEF RecoverStaleJob
  <2>2. Recovered(j)
    BY <1>7, <2>1, StatusRow DEF RecoverStaleJob, Recovered
  <2>3. HostShape'
    BY <1>7, <1>h, BuildDeployAssumption DEF RecoverStaleJob, Mishap, HostShape
  <2> QED
    BY <2>2, <2>3 DEF StepKind
<1>8. ASSUME NEW j \in JobId, NEW a \in Try, Claim(j, a) PROVE StepKind /\ HostShape'
  <2> DEFINE p == IF rows[j].kind = "deploy" THEN "preparing" ELSE "fetching"
             t == [NoTry EXCEPT !.job = j, !.at = p]
  <2>1. /\ p \in Place /\ p # "probing"
        /\ rows' = [rows EXCEPT ![j].status = "running", ![j].attempt = a]
    BY <1>8 DEF Claim, Place, Importing
  <2>2. tries[a] = NoTry
    BY <1>8 DEF Claim
  <2>3. tries' = [tries EXCEPT ![a] = t]
    BY <1>8, <2>2 DEF Claim, Shape
  <2>p. IF rows[j].kind = "deploy" THEN p = "preparing" ELSE p = "fetching"
    OBVIOUS
  <2> HIDE DEF p
  <2>4. t \in TryType /\ t.job = j /\ t.at = p /\ t.first = FALSE
    BY <2>1, BuildDeployAssumption DEF NoTry, TryType, NoRevision, RevisionType
  <2>5. NoTry.at = "unborn" /\ NoTry.job = NoId
    BY DEF NoTry
  <2> HIDE DEF t
  <2>6. /\ tries' \in [Try -> TryType] /\ tries'[a] = t
        /\ \A b \in Try : b # a => tries'[b] = tries[b]
    BY <2>3, <2>4 DEF Shape
  <2>7. Claimed(j, a)
    <3>1. /\ OneRow(j) /\ rows'[j].status = "running"
          /\ rows'[j].attempt = a /\ rows'[j].deployment = rows[j].deployment
      BY <2>1, ClaimedRow
    <3>2. /\ rows[j].status = "queued"
          /\ \A i \in JobId : /\ rows[i].status # "running"
                              /\ i < j /\ rows[i].status = "queued" => Overtakes(j, i)
          /\ UNCHANGED <<queued, source, pointers, recorded>>
      BY <1>8 DEF Claim
    <3> QED
      BY <2>2, <2>4, <2>5, <2>6, <2>p, <3>1, <3>2 DEF Claimed
  <2>8. HostShape'
    BY <1>8, <1>h, <2>1, <2>4, <2>6 DEF Claim, HostShape
  <2> QED
    BY <2>7, <2>8 DEF StepKind
<1>9. ASSUME NEW a \in Try, ThrowIfAborted(a) PROVE StepKind /\ HostShape'
  <2>1. Ahead(a, "failing") /\ KeepsBuild(a) /\ KeepsPort(a)
    BY <1>9, GoesAhead DEF ThrowIfAborted, Place
  <2> QED
    BY <1>9, <2>1, <1>h
       DEF ThrowIfAborted, Checkpoints, Alive, StepKind, Local, Place, Ahead, HostShape
<1>10. ASSUME NEW a \in Try, HandlerThrows(a) PROVE StepKind /\ HostShape'
  <2>1. Ahead(a, "failing") /\ KeepsBuild(a)
    BY <1>10, FailsAhead DEF HandlerThrows
  <2> QED
    BY <1>10, <2>1, <1>h, BuildDeployAssumption
       DEF HandlerThrows, Mishap, StepKind, Local, Place, Ahead, HostShape
<1>11. ASSUME NEW a \in Try, CompleteJob(a) PROVE StepKind /\ HostShape'
  <2>1. tries[a].job \in JobId
    BY <1>11, <1>j DEF CompleteJob
  <2>2. Ahead(a, "over") /\ KeepsPort(a) /\ (a \in recorded => KeepsBuild(a))
        /\ (a \notin recorded => tries'[a].first = FALSE)
    <3>1. tries' = [tries EXCEPT ![a] = Ended(a)]
      BY <1>11 DEF CompleteJob
    <3>2. Ahead(a, "over") /\ tries'[a] = Ended(a)
      BY <3>1, EndsTry, SetsTry
    <3> QED
      BY <3>2, EndsTry DEF KeepsPort, KeepsBuild
  <2>3. IF Holds(a) THEN rows' = [rows EXCEPT ![tries[a].job].status = "completed"]
        ELSE rows' = rows
    BY <1>11 DEF CompleteJob
  <2>4. Over(a, "completed")
    <3>1. Holds(a) => /\ OneRow(tries[a].job) /\ rows'[tries[a].job].status = "completed"
                      /\ rows'[tries[a].job].attempt = a
                      /\ rows'[tries[a].job].deployment = Row(a).deployment
      BY <2>1, <2>3, StatusRow DEF Holds, Row
    <3> QED
      BY <1>11, <2>2, <2>3, <3>1 DEF CompleteJob, Over
  <2>5. HostShape'
    BY <1>11, <2>2, <1>h DEF CompleteJob, Ahead, HostShape
  <2> QED
    BY <2>4, <2>5 DEF StepKind
<1>12. ASSUME NEW a \in Try, NEW stops \in BOOLEAN, FailJob(a, stops)
      PROVE StepKind /\ HostShape'
  <2>1. tries[a].job \in JobId
    BY <1>12, <1>j DEF FailJob
  <2>2. Ahead(a, "over") /\ KeepsPort(a) /\ (a \in recorded => KeepsBuild(a))
        /\ (a \notin recorded => tries'[a].first = FALSE)
    <3>1. tries' = [tries EXCEPT ![a] = Ended(a)]
      BY <1>12 DEF FailJob
    <3>2. Ahead(a, "over") /\ tries'[a] = Ended(a)
      BY <3>1, EndsTry, SetsTry
    <3> QED
      BY <3>2, EndsTry DEF KeepsPort, KeepsBuild
  <2>3. IF Holds(a) THEN rows' = [rows EXCEPT ![tries[a].job].status = "failed"] ELSE rows' = rows
    BY <1>12 DEF FailJob
  <2>4. Over(a, "failed")
    <3>1. Holds(a) => /\ OneRow(tries[a].job) /\ rows'[tries[a].job].status = "failed"
                      /\ rows'[tries[a].job].attempt = a
                      /\ rows'[tries[a].job].deployment = Row(a).deployment
      BY <2>1, <2>3, StatusRow DEF Holds, Row
    <3> QED
      BY <1>12, <2>2, <2>3, <3>1 DEF FailJob, Over
  <2>5. HostShape'
    BY <1>12, <2>2, <1>h, BuildDeployAssumption
       DEF FailJob, StopStartedProcess, Mishap, Ahead, HostShape
  <2> QED
    BY <2>4, <2>5 DEF StepKind
<1>13. ASSUME NEW a \in Try, FetchSource(a) PROVE StepKind /\ HostShape'
  <2> DEFINE o == IF Row(a).kind = "sync" THEN "git-sync" ELSE "upload"
             r == [origin |-> o, by |-> tries[a].job]
             t == [tries[a] EXCEPT !.revision = r, !.at = "revising"]
  <2>1. r \in RevisionType /\ r.by = tries[a].job
    BY <1>j DEF RevisionType
  <2>2. tries' = [tries EXCEPT ![a] = t]
    BY <1>13 DEF FetchSource, Shape
  <2> HIDE DEF r
  <2>3. t \in TryType /\ t.job = tries[a].job /\ t.at = "revising" /\ t.first = tries[a].first
        /\ t.revision = r
    BY <1>0, <2>1 DEF TryType, Place, Importing
  <2> HIDE DEF t
  <2>4. Fetched(a)
    <3>1. Ahead(a, "revising") /\ tries'[a] = t
      BY <2>2, <2>3, SetsTry
    <3> QED
      BY <1>13, <2>1, <2>3, <3>1 DEF FetchSource, Fetched
  <2> QED
    BY <1>13, <2>4, <1>h DEF FetchSource, StepKind, Fetched, Ahead, HostShape
<1>14. ASSUME NEW a \in Try, RecordSourceRevision(a) PROVE StepKind /\ HostShape'
  <2>1. /\ Ahead(a, "chaining") \/ Ahead(a, "settling")
        /\ KeepsBuild(a) /\ KeepsPort(a)
    BY <1>14, GoesAhead DEF RecordSourceRevision, Place, Importing
  <2> QED
    BY <1>14, <2>1, <1>h DEF RecordSourceRevision, StepKind, Revised, Ahead, HostShape
<1>15. ASSUME NEW a \in Try, EnqueueDeploy(a) PROVE StepKind /\ HostShape'
  <2>1. Ahead(a, "settling") /\ KeepsBuild(a) /\ KeepsPort(a)
    BY <1>15, GoesAhead DEF EnqueueDeploy, Place
  <2>2. tries[a].job \in JobId
    BY <1>15, <1>j DEF EnqueueDeploy
  <2>3. Row(a).promote \in BOOLEAN /\ Row(a).confirmed \in BOOLEAN
    BY <2>2 DEF Row, Shape, RowType
  <2>4. NewRow("deploy", tries[a].job)
    BY <1>15, <2>2, <2>3, InsertsRow DEF EnqueueDeploy
  <2> QED
    BY <1>15, <2>1, <2>4, <1>h DEF EnqueueDeploy, StepKind, Chained, Ahead, HostShape
<1>16. ASSUME NEW a \in Try, PrepareDeploy(a) PROVE StepKind /\ HostShape'
  <2>1. CASE source = NoRevision
    <3>1. Ahead(a, "failing") /\ KeepsBuild(a) /\ KeepsPort(a)
      BY <1>16, <2>1, GoesAhead DEF PrepareDeploy, Place
    <3> QED
      BY <1>16, <3>1, <1>h DEF PrepareDeploy, StepKind, Prepared, Ahead, HostShape
  <2>2. CASE source # NoRevision
    <3> DEFINE f == (production = NoId)
               t == [tries[a] EXCEPT !.revision = source, !.first = f, !.at = "building"]
    <3>1. source \in RevisionType /\ f \in BOOLEAN
      BY DEF Shape
    <3>2. tries' = [tries EXCEPT ![a] = t]
      BY <1>16, <2>2 DEF PrepareDeploy, Shape
    <3> HIDE DEF f
    <3>3. t \in TryType /\ t.job = tries[a].job /\ t.at = "building" /\ t.first = f
          /\ t.revision = source
      BY <1>0, <3>1 DEF TryType, Place, Building, Placing
    <3> HIDE DEF t
    <3>4. Ahead(a, "building") /\ tries'[a].revision = source /\ tries'[a].first = f
      BY <3>2, <3>3, SetsTry
    <3> QED
      BY <1>16, <3>4, <1>h DEF PrepareDeploy, StepKind, Prepared, Ahead, HostShape, f
  <2> QED
    BY <2>1, <2>2
<1>17. ASSUME NEW a \in Try, BuildRelease(a) PROVE StepKind /\ HostShape'
  <2> DEFINE S == {tries[d].port : d \in recorded}
             t == [tries[a] EXCEPT !.reserved = S, !.at = "scanning"]
  <2>1. S \in SUBSET (Ports \cup {NoId})
    BY <1>j DEF Shape
  <2>2. tries' = [tries EXCEPT ![a] = t]
    BY <1>17 DEF BuildRelease, Shape
  <2> HIDE DEF S
  <2>3. /\ t \in TryType /\ t.job = tries[a].job /\ t.at = "scanning" /\ t.first = tries[a].first
        /\ t.revision = tries[a].revision
    BY <1>0, <2>1 DEF TryType, Place, Building, Placing
  <2> HIDE DEF t
  <2>4. Ahead(a, "scanning") /\ KeepsBuild(a)
    BY <2>2, <2>3, SetsTry DEF KeepsBuild
  <2> QED
    BY <1>17, <2>4, <1>h
       DEF BuildRelease, StepKind, Local, Place, Building, Placing, Ahead, HostShape
<1>18. ASSUME NEW a \in Try, ScanPorts(a) PROVE StepKind /\ HostShape'
  <2> DEFINE left == {p \in Ports : p > tries[a].port /\ p \notin tries[a].reserved \cup inFlight}
             n == CHOOSE p \in left : \A q \in left : p <= q
             t == [tries[a] EXCEPT !.port = n, !.at = "probing"]
  <2>1. CASE left = {}
    <3>1. Ahead(a, "failing") /\ KeepsBuild(a)
      BY <1>18, <2>1, FailsAhead DEF ScanPorts
    <3> QED
      BY <1>18, <3>1, <1>h DEF ScanPorts, Alive, StepKind, Local, Place, Ahead, HostShape
  <2>2. CASE left # {}
    <3>1. tries' = [tries EXCEPT ![a] = t]
      BY <1>18, <2>2 DEF ScanPorts, Shape
    <3>2. n \in Ports
      BY <2>2, LeastPort
    <3> HIDE DEF n
    <3>3. /\ t \in TryType /\ t.job = tries[a].job /\ t.at = "probing" /\ t.first = tries[a].first
          /\ t.revision = tries[a].revision /\ t.port = n
      BY <1>0, <3>2 DEF TryType, Place, Building, Placing
    <3> HIDE DEF t
    <3>4. Ahead(a, "probing") /\ KeepsBuild(a) /\ tries'[a].port \in Ports
      BY <3>1, <3>2, <3>3, SetsTry DEF KeepsBuild
    <3> QED
      BY <1>18, <3>4, <1>h
         DEF ScanPorts, StepKind, Local, Place, Building, Placing, Ahead, HostShape
  <2> QED
    BY <2>1, <2>2
<1>19. ASSUME NEW a \in Try, NEW free \in BOOLEAN, ProbePort(a, free)
      PROVE StepKind /\ HostShape'
  <2> DEFINE t == [tries[a] EXCEPT !.reserved = {}, !.at = "starting"]
             u == [tries[a] EXCEPT !.at = "scanning"]
  <2>1. tries' = IF free THEN [tries EXCEPT ![a] = t] ELSE [tries EXCEPT ![a] = u]
    BY <1>19 DEF ProbePort, Shape
  <2>2. /\ t \in TryType /\ t.job = tries[a].job /\ t.at = "starting" /\ t.first = tries[a].first
        /\ t.revision = tries[a].revision
    BY <1>0 DEF TryType, Place, Building, Placing
  <2>3. /\ u \in TryType /\ u.job = tries[a].job /\ u.at = "scanning" /\ u.first = tries[a].first
        /\ u.revision = tries[a].revision
    BY <1>0 DEF TryType, Place, Building, Placing
  <2> HIDE DEF t, u
  <2>4. /\ Ahead(a, "starting") \/ Ahead(a, "scanning")
        /\ KeepsBuild(a)
    BY <2>1, <2>2, <2>3, SetsTry DEF KeepsBuild
  <2>5. StepKind
    BY <1>19, <2>4 DEF ProbePort, StepKind, Local, Place, Building, Placing
  <2> QED
    BY <1>19, <2>4, <2>5, <1>h DEF ProbePort, Ahead, HostShape
<1>20. ASSUME NEW a \in Try, StartProcess(a) PROVE StepKind /\ HostShape'
  <2>1. /\ Ahead(a, "owning")
        /\ KeepsBuild(a) /\ KeepsPort(a)
    BY <1>20, GoesAhead DEF StartProcess, Place, Building, Placing
  <2> QED
    BY <1>20, <2>1, <1>h
       DEF StartProcess, Alive, StepKind, Local, Place, Building, Placing, Ahead, HostShape
<1>21. ASSUME NEW a \in Try, VerifyPortOwnership(a) PROVE StepKind /\ HostShape'
  <2>1. \/ Goes(a, "failing")
        \/ Goes(a, "answering") /\ proc[a] = "listening"
    BY <1>21 DEF VerifyPortOwnership, Holder
  <2>2. /\ Ahead(a, "failing") \/ (Ahead(a, "answering") /\ proc[a] = "listening")
        /\ KeepsBuild(a) /\ KeepsPort(a)
    BY <2>1, GoesAhead DEF Place, Building
  <2> QED
    BY <1>21, <2>2, <1>h
       DEF VerifyPortOwnership, Alive, StepKind, Local, Place, Building, Ahead, HostShape
<1>22. ASSUME NEW a \in Try, WaitForHttpHealth(a) PROVE StepKind /\ HostShape'
  <2>1. /\ Ahead(a, "recording") \/ Ahead(a, "failing")
        /\ KeepsBuild(a) /\ KeepsPort(a)
    BY <1>22, GoesAhead DEF WaitForHttpHealth, Place, Building, Placing
  <2> QED
    BY <1>22, <2>1, <1>h
       DEF WaitForHttpHealth, Alive, StepKind, Local, Place, Building, Placing, Ahead, HostShape
<1>23. ASSUME NEW a \in Try, RecordDeployment(a) PROVE StepKind /\ HostShape'
  <2>1. /\ Ahead(a, "naming")
        /\ KeepsBuild(a) /\ KeepsPort(a)
    BY <1>23, GoesAhead DEF RecordDeployment, Place, Finishing
  <2> QED
    BY <1>23, <2>1, <1>h DEF RecordDeployment, StepKind, Recorded, Ahead, HostShape
<1>24. ASSUME NEW a \in Try, ReplaceJobPayload(a) PROVE StepKind /\ HostShape'
  <2>1. Ahead(a, "targeting") /\ KeepsBuild(a) /\ KeepsPort(a)
    BY <1>24, GoesAhead DEF ReplaceJobPayload, Place, Finishing
  <2>2. tries[a].job \in JobId
    BY <1>24, <1>j DEF ReplaceJobPayload
  <2>3. IF Holds(a) THEN rows' = [rows EXCEPT ![tries[a].job].deployment = a] ELSE rows' = rows
    BY <1>24 DEF ReplaceJobPayload
  <2>4. Announced(a)
    BY <1>24, <2>1, <2>2, <2>3, NamedRow DEF ReplaceJobPayload, Announced, Holds, Row
  <2> QED
    BY <1>24, <2>1, <2>4, <1>h DEF ReplaceJobPayload, StepKind, Ahead, HostShape
<1>25. ASSUME NEW a \in Try, TargetSchedules(a) PROVE StepKind /\ HostShape'
  <2>1. /\ Ahead(a, "routing")
        /\ KeepsBuild(a) /\ KeepsPort(a)
    BY <1>25, GoesAhead DEF TargetSchedules, Place, Finishing
  <2> QED
    BY <1>25, <2>1, <1>h DEF TargetSchedules, StepKind, Targeted, Ahead, HostShape
<1>26. ASSUME NEW a \in Try, EnsureDeploymentRoutes(a) PROVE StepKind /\ HostShape'
  <2>1. /\ Ahead(a, "promoting") \/ Ahead(a, "settling")
        /\ KeepsBuild(a) /\ KeepsPort(a)
    BY <1>26, GoesAhead DEF EnsureDeploymentRoutes, Place, Finishing
  <2> QED
    BY <1>26, <2>1, <1>h DEF EnsureDeploymentRoutes, StepKind, Routed, Ahead, HostShape
<1>27. ASSUME NEW a \in Try, PromoteAfterDeploy(a) PROVE StepKind /\ HostShape'
  <2> DEFINE t == [tries[a] EXCEPT !.replaced = production, !.at = "settling"]
  <2>1. tries' = [tries EXCEPT ![a] = t]
    BY <1>27 DEF PromoteAfterDeploy, Shape
  <2>2. production \in Try \cup {NoId}
    BY DEF Shape
  <2>3. /\ t \in TryType /\ t.job = tries[a].job /\ t.at = "settling" /\ t.first = tries[a].first
        /\ t.revision = tries[a].revision
    BY <1>0, <2>2 DEF TryType, Place
  <2> HIDE DEF t
  <2>4. Ahead(a, "settling") /\ KeepsBuild(a)
    BY <2>1, <2>3, SetsTry DEF KeepsBuild
  <2> QED
    BY <1>27, <2>4, <1>h
       DEF PromoteAfterDeploy, MovePointers, StepKind, PromotedAfter, Ahead, HostShape
<1>28. ASSUME NEW a \in Try, ProcessBinds(a) PROVE StepKind /\ HostShape'
  BY <1>28, <1>h, BuildDeployAssumption DEF ProcessBinds, Mishap, StepKind, Elsewhere, HostShape
<1>29. ASSUME NEW a \in Try, ReapOrphan(a) PROVE StepKind /\ HostShape'
  BY <1>29, <1>h, BuildDeployAssumption DEF ReapOrphan, Mishap, StepKind, Elsewhere, HostShape
<1>30. ASSUME NEW a \in Try, NEW as \in {"started", "none"}, ProcessLapses(a, as)
      PROVE StepKind /\ HostShape'
  <2>1. proc' \in [Try -> {"none", "started", "listening"}] /\ lapsed' \subseteq Try
    BY <1>30, <1>h DEF ProcessLapses, HostShape
  <2>2. /\ UNCHANGED <<rows, queued, source, pointers, tries, recorded, inFlight>>
        /\ mishaps' \in 0..MaxMishaps
    BY <1>30, <1>h, BuildDeployAssumption DEF ProcessLapses, Mishap, HostShape
  <2> QED
    BY <2>1, <2>2, <1>h DEF StepKind, Elsewhere, HostShape
<1>99. CASE UNCHANGED deployVars
  BY <1>99, <1>h DEF StepKind, Elsewhere, HostShape
<1> QED
  BY <1>99, <1>1, <1>2, <1>3, <1>4, <1>5, <1>6, <1>7, <1>8, <1>9, <1>10, <1>11, <1>12,
     <1>13, <1>14, <1>15, <1>16, <1>17, <1>18, <1>19, <1>20, <1>21, <1>22, <1>23, <1>24,
     <1>25, <1>26, <1>27, <1>28, <1>29, <1>30
    DEF DeployNext, RequestArrives, ImportStep, DeployStep, ProcessStep

-----------------------------------------------------------------------------
(***************************************************************************)
(* The invariant, part by part                                             *)
(***************************************************************************)
\* The types are kept.
LEMMA ShapeNext ==
    Shape /\ HostShape' /\ StepKind => Shape'
<1> SUFFICES ASSUME Shape, HostShape', StepKind PROVE Shape'
  OBVIOUS
<1> USE IdSets DEF pointers, Shape, OneRow, NewRow, Ahead
<1>1. ASSUME Elsewhere PROVE Shape'
  BY <1>1 DEF Elsewhere
<1>2. ASSUME Requested PROVE Shape'
  BY <1>2 DEF Requested, JobId
<1>3. ASSUME Repointed PROVE Shape'
  BY <1>3 DEF Repointed
<1>4. ASSUME Died PROVE Shape'
  BY <1>4 DEF Died
<1>5. ASSUME NEW j \in JobId, Recovered(j) PROVE Shape'
  BY <1>5 DEF Recovered
<1>6. ASSUME NEW j \in JobId, NEW a \in Try, Claimed(j, a) PROVE Shape'
  BY <1>6 DEF Claimed
<1>7. ASSUME NEW a \in Try, NEW p \in Place, Local(a, p) PROVE Shape'
  BY <1>7 DEF Local
<1>8. ASSUME NEW a \in Try, NEW s \in {"completed", "failed"}, Over(a, s) PROVE Shape'
  BY <1>8 DEF Over
<1>9. ASSUME NEW a \in Try, Fetched(a) PROVE Shape'
  BY <1>9 DEF Fetched
<1>10. ASSUME NEW a \in Try, Revised(a) PROVE Shape'
  <2>1. tries[a].revision \in RevisionType
    BY DEF TryType
  <2> QED
    BY <1>10, <2>1 DEF Revised
<1>11. ASSUME NEW a \in Try, Chained(a) PROVE Shape'
  BY <1>11 DEF Chained, JobId
<1>12. ASSUME NEW a \in Try, Prepared(a) PROVE Shape'
  BY <1>12 DEF Prepared
<1>13. ASSUME NEW a \in Try, Recorded(a) PROVE Shape'
  BY <1>13 DEF Recorded
<1>14. ASSUME NEW a \in Try, Announced(a) PROVE Shape'
  BY <1>14 DEF Announced
<1>15. ASSUME NEW a \in Try, Targeted(a) PROVE Shape'
  BY <1>15 DEF Targeted
<1>16. ASSUME NEW a \in Try, Routed(a) PROVE Shape'
  BY <1>16 DEF Routed
<1>17. ASSUME NEW a \in Try, PromotedAfter(a) PROVE Shape'
  BY <1>17 DEF PromotedAfter
<1> QED
  BY <1>1, <1>2, <1>3, <1>4, <1>5, <1>6, <1>7, <1>8, <1>9, <1>10, <1>11, <1>12, <1>13,
     <1>14, <1>15, <1>16, <1>17 DEF StepKind

\* The fields of an attempt and of a row, as facts.
LEMMA Fields ==
    ASSUME Shape, Attempts
    PROVE  /\ \A a \in Try : /\ tries[a].at \in Place
                             /\ tries[a].job \in JobId \cup {NoId}
                             /\ tries[a].at # "unborn" => tries[a].job \in JobId
                             /\ tries[a].first \in BOOLEAN
                             /\ tries[a].revision.by \in Nat
           /\ \A j \in JobId : /\ rows[j].status \in {"absent", "queued", "running", "completed",
                                                      "failed"}
                               /\ rows[j].attempt \in Try \cup {NoId}
                               /\ rows[j].parent \in JobId \cup {NoId}
           /\ source.by \in Nat
<1>1. \A a \in Try : tries[a] \in TryType
  BY DEF Shape
<1>2. \A j \in JobId : rows[j] \in RowType
  BY DEF Shape
<1>3. \A a \in Try : tries[a].revision \in RevisionType
  BY <1>1 DEF TryType
<1>4. \A r \in RevisionType : r.by \in Nat
  BY DEF RevisionType, JobId, NoId
<1>5. source \in RevisionType
  BY DEF Shape
<1> QED
  BY <1>1, <1>2, <1>3, <1>4, <1>5 DEF TryType, RowType, Attempts

LEMMA NumberedNext ==
    Shape /\ Attempts /\ Numbered /\ StepKind => Numbered'
<1> SUFFICES ASSUME Shape, Attempts, Numbered, StepKind PROVE Numbered'
  OBVIOUS
<1>f. /\ \A a \in Try : tries[a].at # "unborn" => tries[a].job \in JobId
      /\ \A a \in Try : tries[a].at \in Place
      /\ \A j \in JobId : rows[j].attempt \in Try \cup {NoId}
  BY Fields
<1> USE IdSets DEF pointers, Numbered, OneRow, SameRow, NewRow
<1>1. ASSUME Elsewhere PROVE Numbered'
  BY <1>1, <1>f DEF Elsewhere
<1>2. ASSUME Requested PROVE Numbered'
  BY <1>2, <1>f DEF Requested, JobId, Shape
<1>3. ASSUME Repointed PROVE Numbered'
  BY <1>3, <1>f DEF Repointed
<1>4. ASSUME Died PROVE Numbered'
  BY <1>4, <1>f DEF Died
<1>5. ASSUME NEW j \in JobId, Recovered(j) PROVE Numbered'
  BY <1>5, <1>f DEF Recovered
<1>6. ASSUME NEW j \in JobId, NEW a \in Try, Claimed(j, a) PROVE Numbered'
  BY <1>6, <1>f DEF Claimed
<1>7. ASSUME NEW a \in Try, NEW p \in Place, Local(a, p) PROVE Numbered'
  BY <1>7, <1>f DEF Local
<1>8. ASSUME NEW a \in Try, NEW s \in {"completed", "failed"}, Over(a, s) PROVE Numbered'
  BY <1>8, <1>f DEF Over, Holds, Row
<1>9. ASSUME NEW a \in Try, Fetched(a) PROVE Numbered'
  BY <1>9, <1>f DEF Fetched
<1>10. ASSUME NEW a \in Try, Revised(a) PROVE Numbered'
  BY <1>10, <1>f DEF Revised
<1>11. ASSUME NEW a \in Try, Chained(a) PROVE Numbered'
  BY <1>11, <1>f DEF Chained, JobId, Shape
<1>12. ASSUME NEW a \in Try, Prepared(a) PROVE Numbered'
  BY <1>12, <1>f DEF Prepared
<1>13. ASSUME NEW a \in Try, Recorded(a) PROVE Numbered'
  BY <1>13, <1>f DEF Recorded
<1>14. ASSUME NEW a \in Try, Announced(a) PROVE Numbered'
  BY <1>14, <1>f DEF Announced, Holds, Row
<1>15. ASSUME NEW a \in Try, Targeted(a) PROVE Numbered'
  BY <1>15, <1>f DEF Targeted
<1>16. ASSUME NEW a \in Try, Routed(a) PROVE Numbered'
  BY <1>16, <1>f DEF Routed
<1>17. ASSUME NEW a \in Try, PromotedAfter(a) PROVE Numbered'
  BY <1>17, <1>f DEF PromotedAfter
<1> QED
  BY <1>1, <1>2, <1>3, <1>4, <1>5, <1>6, <1>7, <1>8, <1>9, <1>10, <1>11, <1>12, <1>13,
     <1>14, <1>15, <1>16, <1>17 DEF StepKind

LEMMA AttemptsNext ==
    Shape /\ Attempts /\ Numbered /\ StepKind => Attempts'
<1> SUFFICES ASSUME Shape, Attempts, Numbered, StepKind PROVE Attempts'
  OBVIOUS
<1>f. /\ \A a \in Try : tries[a].at # "unborn" => tries[a].job \in JobId
      /\ \A a \in Try : tries[a].at \in Place
      /\ \A j \in JobId : rows[j].attempt \in Try \cup {NoId}
  BY Fields
<1> USE IdSets DEF pointers, Attempts, OneRow, SameRow, NewRow, Ahead, Row, Importing,
           Building, Placing, Finishing
<1>1. ASSUME Elsewhere PROVE Attempts'
  BY <1>1, <1>f DEF Elsewhere
<1>2. ASSUME Requested PROVE Attempts'
  BY <1>2, <1>f DEF Requested, Numbered, Shape, JobId
<1>3. ASSUME Repointed PROVE Attempts'
  BY <1>3, <1>f DEF Repointed
<1>4. ASSUME Died PROVE Attempts'
  BY <1>4, <1>f DEF Died, Alive
<1>5. ASSUME NEW j \in JobId, Recovered(j) PROVE Attempts'
  BY <1>5, <1>f DEF Recovered
<1>6. ASSUME NEW j \in JobId, NEW a \in Try, Claimed(j, a) PROVE Attempts'
  <2>1. rows[j].kind \in {"upload", "sync", "deploy"}
    BY <1>6 DEF Claimed, Numbered, Shape, RowType
  <2>2. \A b \in Try : b # a => tries'[b] = tries[b]
    BY <1>6 DEF Claimed
  <2>3. ASSUME NEW b \in Try, b # a, tries[b].at # "unborn"
        PROVE  Row(b)'.kind = Row(b).kind /\ Row(b)'.status # "absent"
    BY <1>6, <1>f, <2>2, <2>3 DEF Claimed
  <2>4. /\ tries'[a].job = j /\ rows'[j].kind = rows[j].kind /\ rows'[j].status = "running"
        /\ a \notin recorded
    BY <1>6 DEF Claimed
  <2> QED
    BY <1>6, <1>f, <2>1, <2>2, <2>3, <2>4 DEF Claimed
<1>7. ASSUME NEW a \in Try, NEW p \in Place, Local(a, p) PROVE Attempts'
  BY <1>7, <1>f DEF Local, Alive
<1>8. ASSUME NEW a \in Try, NEW s \in {"completed", "failed"}, Over(a, s) PROVE Attempts'
  BY <1>8, <1>f DEF Over, Holds
<1>9. ASSUME NEW a \in Try, Fetched(a) PROVE Attempts'
  BY <1>9, <1>f DEF Fetched
<1>10. ASSUME NEW a \in Try, Revised(a) PROVE Attempts'
  BY <1>10, <1>f DEF Revised
<1>11. ASSUME NEW a \in Try, Chained(a) PROVE Attempts'
  BY <1>11, <1>f DEF Chained, Numbered, Shape, JobId
<1>12. ASSUME NEW a \in Try, Prepared(a) PROVE Attempts'
  BY <1>12, <1>f DEF Prepared
<1>13. ASSUME NEW a \in Try, Recorded(a) PROVE Attempts'
  BY <1>13, <1>f DEF Recorded
<1>14. ASSUME NEW a \in Try, Announced(a) PROVE Attempts'
  BY <1>14, <1>f DEF Announced, Holds
<1>15. ASSUME NEW a \in Try, Targeted(a) PROVE Attempts'
  BY <1>15, <1>f DEF Targeted
<1>16. ASSUME NEW a \in Try, Routed(a) PROVE Attempts'
  BY <1>16, <1>f DEF Routed
<1>17. ASSUME NEW a \in Try, PromotedAfter(a) PROVE Attempts'
  BY <1>17, <1>f DEF PromotedAfter
<1> QED
  BY <1>1, <1>2, <1>3, <1>4, <1>5, <1>6, <1>7, <1>8, <1>9, <1>10, <1>11, <1>12, <1>13,
     <1>14, <1>15, <1>16, <1>17 DEF StepKind

\* An attempt is of one job for good, so what was tried, or tried twice, remains so.
JobsKept ==
    \A a \in Try : tries[a].job # NoId => tries'[a].job = tries[a].job

LEMMA JobsKeptNext ==
    Shape /\ Attempts /\ StepKind => JobsKept
<1> SUFFICES ASSUME Shape, Attempts, StepKind PROVE JobsKept
  OBVIOUS
<1> USE IdSets DEF pointers, JobsKept, Ahead
<1>1. ASSUME Elsewhere PROVE JobsKept
  BY <1>1 DEF Elsewhere
<1>2. ASSUME Requested PROVE JobsKept
  BY <1>2 DEF Requested
<1>3. ASSUME Repointed PROVE JobsKept
  BY <1>3 DEF Repointed
<1>4. ASSUME Died PROVE JobsKept
  BY <1>4 DEF Died
<1>5. ASSUME NEW j \in JobId, Recovered(j) PROVE JobsKept
  BY <1>5 DEF Recovered
<1>6. ASSUME NEW j \in JobId, NEW a \in Try, Claimed(j, a) PROVE JobsKept
  BY <1>6 DEF Claimed
<1>7. ASSUME NEW a \in Try, NEW p \in Place, Local(a, p) PROVE JobsKept
  BY <1>7 DEF Local
<1>8. ASSUME NEW a \in Try, NEW s \in {"completed", "failed"}, Over(a, s) PROVE JobsKept
  BY <1>8 DEF Over
<1>9. ASSUME NEW a \in Try, Fetched(a) PROVE JobsKept
  BY <1>9 DEF Fetched
<1>10. ASSUME NEW a \in Try, Revised(a) PROVE JobsKept
  BY <1>10 DEF Revised
<1>11. ASSUME NEW a \in Try, Chained(a) PROVE JobsKept
  BY <1>11 DEF Chained
<1>12. ASSUME NEW a \in Try, Prepared(a) PROVE JobsKept
  BY <1>12 DEF Prepared
<1>13. ASSUME NEW a \in Try, Recorded(a) PROVE JobsKept
  BY <1>13 DEF Recorded
<1>14. ASSUME NEW a \in Try, Announced(a) PROVE JobsKept
  BY <1>14 DEF Announced
<1>15. ASSUME NEW a \in Try, Targeted(a) PROVE JobsKept
  BY <1>15 DEF Targeted
<1>16. ASSUME NEW a \in Try, Routed(a) PROVE JobsKept
  BY <1>16 DEF Routed
<1>17. ASSUME NEW a \in Try, PromotedAfter(a) PROVE JobsKept
  BY <1>17 DEF PromotedAfter
<1> QED
  BY <1>1, <1>2, <1>3, <1>4, <1>5, <1>6, <1>7, <1>8, <1>9, <1>10, <1>11, <1>12, <1>13,
     <1>14, <1>15, <1>16, <1>17 DEF StepKind

LEMMA KindsKept ==
    ASSUME Shape, Attempts, Numbered, StepKind
    PROVE  /\ \A j \in JobId : rows[j].status # "absent" => rows'[j].kind = rows[j].kind
           /\ \A a \in Try : tries[a].at # "unborn" => Row(a)'.kind = Row(a).kind
<1>1. \A j \in JobId : rows[j].status # "absent" => rows'[j].kind = rows[j].kind
  <2>1. queued + 1 \in JobId => rows[queued + 1].status = "absent"
    BY DEF Numbered, Shape
  <2>2. \A a \in Try : tries[a].at # "unborn" => tries[a].job \in JobId
    BY Fields
  <2> QED
    BY <2>1, <2>2 DEF StepKind, Elsewhere, Requested, Repointed, Died, Recovered, Claimed,
       Local, Over, Fetched, Revised, Chained, Prepared, Recorded, Announced, Targeted, Routed,
       PromotedAfter, OneRow, SameRow, NewRow, Holds, Row, Attempts
<1>2. ASSUME NEW a \in Try, tries[a].at # "unborn" PROVE Row(a)'.kind = Row(a).kind
  <2>1. tries[a].job \in JobId /\ tries'[a].job = tries[a].job
    BY <1>2, Fields, IdSets, JobsKeptNext DEF JobsKept
  <2> QED
    BY <1>1, <1>2, <2>1 DEF Attempts, Row
<1> QED
  BY <1>1, <1>2

LEMMA TriedKept ==
    ASSUME Shape, Attempts, StepKind, NEW j \in JobId
    PROVE  (Tried(j) => Tried(j)') /\ (TriedTwice(j) => TriedTwice(j)')
BY JobsKeptNext, IdSets DEF JobsKept, Tried, TriedTwice

LEMMA InOrderNext ==
    Shape /\ Attempts /\ Numbered /\ InOrder /\ StepKind => InOrder'
<1> SUFFICES ASSUME Shape, Attempts, Numbered, InOrder, StepKind PROVE InOrder'
  OBVIOUS
<1>f. /\ \A a \in Try : tries[a].at # "unborn" => tries[a].job \in JobId
      /\ \A a \in Try : tries[a].at \in Place
      /\ \A j \in JobId : rows[j].attempt \in Try \cup {NoId}
  BY Fields
<1>k. ASSUME NEW i \in JobId, NEW j \in JobId, i < j, Overtakes(j, i),
             Tried(j) \/ rows[j].status # "absent"
      PROVE  Overtakes(j, i)'
  <2>1. rows[j].status # "absent"
    BY <1>k, IdSets DEF Tried, Attempts
  <2>2. rows[i].status # "absent"
    BY <1>k, <2>1 DEF Numbered, Shape, JobId
  <2> QED
    BY <1>k, <2>1, <2>2, KindsKept DEF Overtakes
<1> USE IdSets DEF pointers, InOrder, Settled, Tried, OneRow, SameRow, NewRow, Ahead
<1>1. ASSUME Elsewhere PROVE InOrder'
  BY <1>1, <1>f, <1>k DEF Elsewhere
<1>2. ASSUME Requested PROVE InOrder'
  BY <1>2, <1>f, <1>k DEF Requested, JobId, Shape, Numbered
<1>3. ASSUME Repointed PROVE InOrder'
  BY <1>3, <1>f, <1>k DEF Repointed
<1>4. ASSUME Died PROVE InOrder'
  BY <1>4, <1>f, <1>k DEF Died
<1>5. ASSUME NEW j \in JobId, Recovered(j) PROVE InOrder'
  BY <1>5, <1>f, <1>k DEF Recovered
<1>6. ASSUME NEW j \in JobId, NEW a \in Try, Claimed(j, a) PROVE InOrder'
  <2>1. ASSUME NEW i \in JobId, i < j PROVE Settled(i) \/ Overtakes(j, i)
    <3>1. rows[i].status # "absent"
      BY <1>6, <2>1 DEF Claimed, Numbered, Shape, JobId
    <3> QED
      BY <1>6, <2>1, <3>1, Fields DEF Claimed
  <2>2. \A k \in JobId : Tried(k)' => k = j \/ Tried(k)
    BY <1>6 DEF Claimed
  <2>3. \A i \in JobId : Settled(i) => i # j
    BY <1>6 DEF Claimed
  <2>4. \A i \in JobId : Settled(i) => Settled(i)'
    BY <1>6, <2>3 DEF Claimed
  <2> QED
    BY <1>6, <1>k, <2>1, <2>2, <2>4 DEF InOrder, Claimed
<1>7. ASSUME NEW a \in Try, NEW p \in Place, Local(a, p) PROVE InOrder'
  BY <1>7, <1>f, <1>k DEF Local
<1>8. ASSUME NEW a \in Try, NEW s \in {"completed", "failed"}, Over(a, s) PROVE InOrder'
  BY <1>8, <1>f, <1>k DEF Over, Holds, Row
<1>9. ASSUME NEW a \in Try, Fetched(a) PROVE InOrder'
  BY <1>9, <1>f, <1>k DEF Fetched
<1>10. ASSUME NEW a \in Try, Revised(a) PROVE InOrder'
  BY <1>10, <1>f, <1>k DEF Revised
<1>11. ASSUME NEW a \in Try, Chained(a) PROVE InOrder'
  BY <1>11, <1>f, <1>k DEF Chained, JobId, Shape, Numbered
<1>12. ASSUME NEW a \in Try, Prepared(a) PROVE InOrder'
  BY <1>12, <1>f, <1>k DEF Prepared
<1>13. ASSUME NEW a \in Try, Recorded(a) PROVE InOrder'
  BY <1>13, <1>f, <1>k DEF Recorded
<1>14. ASSUME NEW a \in Try, Announced(a) PROVE InOrder'
  BY <1>14, <1>f, <1>k DEF Announced, Holds, Row
<1>15. ASSUME NEW a \in Try, Targeted(a) PROVE InOrder'
  BY <1>15, <1>f, <1>k DEF Targeted
<1>16. ASSUME NEW a \in Try, Routed(a) PROVE InOrder'
  BY <1>16, <1>f, <1>k DEF Routed
<1>17. ASSUME NEW a \in Try, PromotedAfter(a) PROVE InOrder'
  BY <1>17, <1>f, <1>k DEF PromotedAfter
<1> QED
  BY <1>1, <1>2, <1>3, <1>4, <1>5, <1>6, <1>7, <1>8, <1>9, <1>10, <1>11, <1>12, <1>13,
     <1>14, <1>15, <1>16, <1>17 DEF StepKind

LEMMA NamedNext ==
    Shape /\ Attempts /\ Numbered /\ Named /\ StepKind => Named'
<1> SUFFICES ASSUME Shape, Attempts, Numbered, Named, StepKind PROVE Named'
  OBVIOUS
<1>f. /\ \A a \in Try : tries[a].at # "unborn" => tries[a].job \in JobId
      /\ \A a \in Try : tries[a].at \in Place
      /\ \A j \in JobId : rows[j].attempt \in Try \cup {NoId}
  BY Fields
<1> USE IdSets DEF pointers, Named, OneRow, SameRow, NewRow, Ahead
<1>1. ASSUME Elsewhere PROVE Named'
  BY <1>1, <1>f DEF Elsewhere
<1>2. ASSUME Requested PROVE Named'
  BY <1>2, <1>f DEF Requested, JobId, Shape, Numbered
<1>3. ASSUME Repointed PROVE Named'
  BY <1>3, <1>f DEF Repointed
<1>4. ASSUME Died PROVE Named'
  BY <1>4, <1>f DEF Died
<1>5. ASSUME NEW j \in JobId, Recovered(j) PROVE Named'
  BY <1>5, <1>f DEF Recovered
<1>6. ASSUME NEW j \in JobId, NEW a \in Try, Claimed(j, a) PROVE Named'
  BY <1>6, <1>f DEF Claimed
<1>7. ASSUME NEW a \in Try, NEW p \in Place, Local(a, p) PROVE Named'
  BY <1>7, <1>f DEF Local
<1>8. ASSUME NEW a \in Try, NEW s \in {"completed", "failed"}, Over(a, s) PROVE Named'
  BY <1>8, <1>f DEF Over, Holds, Row
<1>9. ASSUME NEW a \in Try, Fetched(a) PROVE Named'
  BY <1>9, <1>f DEF Fetched
<1>10. ASSUME NEW a \in Try, Revised(a) PROVE Named'
  BY <1>10, <1>f DEF Revised
<1>11. ASSUME NEW a \in Try, Chained(a) PROVE Named'
  BY <1>11, <1>f DEF Chained, JobId, Shape, Numbered
<1>12. ASSUME NEW a \in Try, Prepared(a) PROVE Named'
  BY <1>12, <1>f DEF Prepared
<1>13. ASSUME NEW a \in Try, Recorded(a) PROVE Named'
  BY <1>13, <1>f DEF Recorded
<1>14. ASSUME NEW a \in Try, Announced(a) PROVE Named'
  BY <1>14, <1>f DEF Announced, Holds, Row
<1>15. ASSUME NEW a \in Try, Targeted(a) PROVE Named'
  BY <1>15, <1>f DEF Targeted
<1>16. ASSUME NEW a \in Try, Routed(a) PROVE Named'
  BY <1>16, <1>f DEF Routed
<1>17. ASSUME NEW a \in Try, PromotedAfter(a) PROVE Named'
  BY <1>17, <1>f DEF PromotedAfter
<1> QED
  BY <1>1, <1>2, <1>3, <1>4, <1>5, <1>6, <1>7, <1>8, <1>9, <1>10, <1>11, <1>12, <1>13,
     <1>14, <1>15, <1>16, <1>17 DEF StepKind

LEMMA OutlivesNext ==
    Shape /\ Attempts /\ Numbered /\ Named /\ Outlives /\ StepKind => Outlives'
<1> SUFFICES ASSUME Shape, Attempts, Numbered, Named, Outlives, StepKind PROVE Outlives'
  OBVIOUS
<1>f. /\ \A a \in Try : tries[a].at # "unborn" => tries[a].job \in JobId
      /\ \A a \in Try : tries[a].at \in Place
      /\ \A j \in JobId : rows[j].attempt \in Try \cup {NoId}
  BY Fields
<1>t. \A j \in JobId : TriedTwice(j) => TriedTwice(j)'
  BY TriedKept
<1> USE IdSets DEF pointers, Outlives, Alive, Settled, OneRow, SameRow, NewRow, Ahead
<1>1. ASSUME Elsewhere PROVE Outlives'
  BY <1>1, <1>f, <1>t DEF Elsewhere
<1>2. ASSUME Requested PROVE Outlives'
  BY <1>2, <1>f, <1>t DEF Requested, JobId, Shape, Numbered
<1>3. ASSUME Repointed PROVE Outlives'
  BY <1>3, <1>f, <1>t DEF Repointed
<1>4. ASSUME Died PROVE Outlives'
  BY <1>4, <1>f, <1>t DEF Died
<1>5. ASSUME NEW j \in JobId, Recovered(j) PROVE Outlives'
  BY <1>5, <1>f, <1>t DEF Recovered
<1>6. ASSUME NEW j \in JobId, NEW a \in Try, Claimed(j, a) PROVE Outlives'
  BY <1>6, <1>f, <1>t DEF Claimed
<1>7. ASSUME NEW a \in Try, NEW p \in Place, Local(a, p) PROVE Outlives'
  BY <1>7, <1>f, <1>t DEF Local, Building, Placing
<1>8. ASSUME NEW a \in Try, NEW s \in {"completed", "failed"}, Over(a, s) PROVE Outlives'
  BY <1>8, <1>f, <1>t DEF Over, Holds, Row, TriedTwice
<1>9. ASSUME NEW a \in Try, Fetched(a) PROVE Outlives'
  BY <1>9, <1>f, <1>t DEF Fetched
<1>10. ASSUME NEW a \in Try, Revised(a) PROVE Outlives'
  BY <1>10, <1>f, <1>t DEF Revised
<1>11. ASSUME NEW a \in Try, Chained(a) PROVE Outlives'
  BY <1>11, <1>f, <1>t DEF Chained, JobId, Shape, Numbered
<1>12. ASSUME NEW a \in Try, Prepared(a) PROVE Outlives'
  BY <1>12, <1>f, <1>t DEF Prepared
<1>13. ASSUME NEW a \in Try, Recorded(a) PROVE Outlives'
  BY <1>13, <1>f, <1>t DEF Recorded
<1>14. ASSUME NEW a \in Try, Announced(a) PROVE Outlives'
  BY <1>14, <1>f, <1>t DEF Announced, Holds, Row
<1>15. ASSUME NEW a \in Try, Targeted(a) PROVE Outlives'
  BY <1>15, <1>f, <1>t DEF Targeted
<1>16. ASSUME NEW a \in Try, Routed(a) PROVE Outlives'
  BY <1>16, <1>f, <1>t DEF Routed
<1>17. ASSUME NEW a \in Try, PromotedAfter(a) PROVE Outlives'
  BY <1>17, <1>f, <1>t DEF PromotedAfter
<1> QED
  BY <1>1, <1>2, <1>3, <1>4, <1>5, <1>6, <1>7, <1>8, <1>9, <1>10, <1>11, <1>12, <1>13,
     <1>14, <1>15, <1>16, <1>17 DEF StepKind

LEMMA DeliversNext ==
    Shape /\ Attempts /\ Numbered /\ Named /\ Delivers /\ StepKind => Delivers'
<1> SUFFICES ASSUME Shape, Attempts, Numbered, Named, Delivers, StepKind PROVE Delivers'
  OBVIOUS
<1>f. /\ \A a \in Try : tries[a].at # "unborn" => tries[a].job \in JobId
      /\ \A a \in Try : tries[a].at \in Place
      /\ \A j \in JobId : rows[j].attempt \in Try \cup {NoId}
  BY Fields
<1> USE IdSets DEF pointers, Delivers, Holds, Row, Importing, Building, Placing, Finishing,
           OneRow, SameRow, NewRow, Ahead
<1>1. ASSUME Elsewhere PROVE Delivers'
  BY <1>1, <1>f DEF Elsewhere
<1>2. ASSUME Requested PROVE Delivers'
  BY <1>2, <1>f DEF Requested, JobId, Shape, Numbered
<1>3. ASSUME Repointed PROVE Delivers'
  BY <1>3, <1>f DEF Repointed
<1>4. ASSUME Died PROVE Delivers'
  BY <1>4, <1>f DEF Died
<1>5. ASSUME NEW j \in JobId, Recovered(j) PROVE Delivers'
  BY <1>5, <1>f DEF Recovered
<1>6. ASSUME NEW j \in JobId, NEW a \in Try, Claimed(j, a) PROVE Delivers'
  BY <1>6, <1>f DEF Claimed, Named
<1>7. ASSUME NEW a \in Try, NEW p \in Place, Local(a, p) PROVE Delivers'
  BY <1>7, <1>f DEF Local, Alive
<1>8. ASSUME NEW a \in Try, NEW s \in {"completed", "failed"}, Over(a, s) PROVE Delivers'
  BY <1>8, <1>f DEF Over, Attempts
<1>9. ASSUME NEW a \in Try, Fetched(a) PROVE Delivers'
  BY <1>9, <1>f DEF Fetched
<1>10. ASSUME NEW a \in Try, Revised(a) PROVE Delivers'
  BY <1>10, <1>f DEF Revised, Attempts
<1>11. ASSUME NEW a \in Try, Chained(a) PROVE Delivers'
  BY <1>11, <1>f DEF Chained, JobId, Shape, Numbered, Attempts
<1>12. ASSUME NEW a \in Try, Prepared(a) PROVE Delivers'
  BY <1>12, <1>f DEF Prepared
<1>13. ASSUME NEW a \in Try, Recorded(a) PROVE Delivers'
  BY <1>13, <1>f DEF Recorded
<1>14. ASSUME NEW a \in Try, Announced(a) PROVE Delivers'
  BY <1>14, <1>f DEF Announced
<1>15. ASSUME NEW a \in Try, Targeted(a) PROVE Delivers'
  BY <1>15, <1>f DEF Targeted
<1>16. ASSUME NEW a \in Try, Routed(a) PROVE Delivers'
  BY <1>16, <1>f DEF Routed
<1>17. ASSUME NEW a \in Try, PromotedAfter(a) PROVE Delivers'
  BY <1>17, <1>f DEF PromotedAfter
<1> QED
  BY <1>1, <1>2, <1>3, <1>4, <1>5, <1>6, <1>7, <1>8, <1>9, <1>10, <1>11, <1>12, <1>13,
     <1>14, <1>15, <1>16, <1>17 DEF StepKind

LEMMA OlderKept ==
    ASSUME Shape, Attempts, StepKind
    PROVE  \A p \in JobId \cup {NoId} : OlderTwice(p) => OlderTwice(p)'
BY TriedKept DEF OlderTwice

\* Only an import that was tried twice records its revision after a later job's.
LEMMA SourceFollowsNext ==
    Shape /\ Attempts /\ Numbered /\ InOrder /\ Outlives /\ SourceFollows /\ StepKind
    => SourceFollows'
<1> SUFFICES ASSUME Shape, Attempts, Numbered, InOrder, Outlives, SourceFollows, StepKind
             PROVE  SourceFollows'
  OBVIOUS
<1>f. /\ \A a \in Try : tries[a].at # "unborn" => tries[a].job \in JobId
      /\ \A a \in Try : tries[a].job \in JobId \cup {NoId} /\ tries[a].revision.by \in Nat
      /\ \A j \in JobId : rows[j].parent \in JobId \cup {NoId}
      /\ source.by \in Nat
  BY Fields
<1>r. \A a \in Try : a \in recorded => tries[a].job \in JobId
  BY <1>f DEF Attempts
<1>o. \A p \in JobId \cup {NoId} : OlderTwice(p) => OlderTwice(p)'
  BY OlderKept
<1>t. \A j \in JobId : Tried(j) => Tried(j)'
  BY TriedKept
<1>i. \A a \in Try : tries[a].at \in {"revising", "chaining"} => Row(a).kind # "deploy"
  BY DEF Attempts, Importing
<1>k. \A p \in JobId : Tried(p) /\ rows[p].kind # "deploy" => rows'[p].kind # "deploy"
  BY KindsKept, IdSets DEF Tried, Attempts
<1> USE IdSets DEF pointers, SourceFollows, OneRow, SameRow, NewRow, Ahead, KeepsBuild, Row
<1>1. ASSUME Elsewhere PROVE SourceFollows'
  BY <1>1, <1>f, <1>r, <1>o, <1>t, <1>k DEF Elsewhere
<1>2. ASSUME Requested PROVE SourceFollows'
  <2>1. /\ rows[queued + 1].status = "absent" /\ queued + 1 \in JobId
        /\ \A b \in Try : tries[b].job # queued + 1
    <3>1. queued + 1 \in JobId /\ queued + 1 > queued
      BY <1>2 DEF Requested, Shape
    <3> QED
      BY <3>1 DEF Numbered, Attempts
  <2>2. \A b \in Try, p \in JobId : tries[b].job = p => Tried(p)
    BY DEF Tried
  <2> QED
    BY <1>2, <1>f, <1>r, <1>o, <1>t, <1>k, <2>1, <2>2 DEF Requested, Building, Placing
<1>3. ASSUME Repointed PROVE SourceFollows'
  BY <1>3, <1>f, <1>r, <1>o, <1>t, <1>k DEF Repointed
<1>4. ASSUME Died PROVE SourceFollows'
  BY <1>4, <1>f, <1>r, <1>o, <1>t, <1>k DEF Died, Building, Placing, Alive
<1>5. ASSUME NEW j \in JobId, Recovered(j) PROVE SourceFollows'
  <2>1. \A i \in JobId : rows'[i].parent = rows[i].parent
    BY <1>5, <1>f DEF Recovered, Holds
  <2> QED
    BY <1>5, <1>f, <1>r, <1>o, <1>t, <1>k, <2>1 DEF Recovered, Building, Placing
<1>6. ASSUME NEW j \in JobId, NEW a \in Try, Claimed(j, a) PROVE SourceFollows'
  BY <1>6, <1>f, <1>r, <1>o, <1>t, <1>k DEF Claimed, Building, Placing
<1>7. ASSUME NEW a \in Try, NEW p \in Place, Local(a, p) PROVE SourceFollows'
  BY <1>7, <1>f, <1>r, <1>o, <1>t, <1>k DEF Local, Building, Placing
<1>8. ASSUME NEW a \in Try, NEW s \in {"completed", "failed"}, Over(a, s) PROVE SourceFollows'
  <2>1. \A i \in JobId : rows'[i].parent = rows[i].parent
    BY <1>8, <1>f DEF Over, Holds
  <2> QED
    BY <1>8, <1>f, <1>r, <1>o, <1>t, <1>k, <2>1 DEF Over, Building, Placing
<1>9. ASSUME NEW a \in Try, Fetched(a) PROVE SourceFollows'
  BY <1>9, <1>f, <1>r, <1>o, <1>t, <1>k DEF Fetched, Building, Placing, Importing, Attempts
<1>10. ASSUME NEW a \in Try, Revised(a) PROVE SourceFollows'
  <2>1. ASSUME NEW p \in JobId, Tried(p), rows[p].kind # "deploy"
        PROVE  tries[a].job >= p \/ OlderTwice(p)
    <3>1. tries[a].job \in JobId /\ Alive(a)
      BY <1>10, <1>f DEF Revised, Alive
    <3>2. tries[a].job < p => TriedTwice(tries[a].job)
      BY <1>10, <2>1, <3>1 DEF InOrder, Outlives, Overtakes, Revised, Importing, Attempts, Row
    <3>3. tries[a].job \in Nat /\ p \in Nat
      BY <3>1 DEF JobId
    <3> QED
      BY <3>1, <3>2, <3>3 DEF OlderTwice
  <2>2. \A b \in Try, p \in JobId : tries[b].job = p => Tried(p)
    BY DEF Tried
  <2>3. source'.by = tries[a].job
    BY <1>10 DEF Revised
  <2>4. \A p \in JobId : p >= p
    BY DEF JobId
  <2> QED
    BY <1>10, <1>f, <1>i, <1>r, <1>o, <1>t, <1>k, <2>1, <2>2, <2>3, <2>4
       DEF Revised, Building, Placing
<1>11. ASSUME NEW a \in Try, Chained(a) PROVE SourceFollows'
  <2>1. /\ rows[queued + 1].status = "absent" /\ queued + 1 \in JobId
        /\ \A b \in Try : tries[b].job # queued + 1
    <3>1. queued + 1 \in JobId /\ queued + 1 > queued
      BY <1>11 DEF Chained, Shape
    <3> QED
      BY <3>1 DEF Numbered, Attempts
  <2>2. \A b \in Try, p \in JobId : tries[b].job = p => Tried(p)
    BY DEF Tried
  <2> QED
    BY <1>11, <1>f, <1>i, <1>r, <1>o, <1>t, <1>k, <2>1, <2>2 DEF Chained, Building, Placing
<1>12. ASSUME NEW a \in Try, Prepared(a) PROVE SourceFollows'
  BY <1>12, <1>f, <1>r, <1>o, <1>t, <1>k DEF Prepared, Building, Placing
<1>13. ASSUME NEW a \in Try, Recorded(a) PROVE SourceFollows'
  BY <1>13, <1>f, <1>r, <1>o, <1>t, <1>k DEF Recorded, Building, Placing
<1>14. ASSUME NEW a \in Try, Announced(a) PROVE SourceFollows'
  <2>1. \A i \in JobId : rows'[i].parent = rows[i].parent
    BY <1>14, <1>f DEF Announced, Holds
  <2> QED
    BY <1>14, <1>f, <1>r, <1>o, <1>t, <1>k, <2>1 DEF Announced, Building, Placing
<1>15. ASSUME NEW a \in Try, Targeted(a) PROVE SourceFollows'
  BY <1>15, <1>f, <1>r, <1>o, <1>t, <1>k DEF Targeted, Building, Placing
<1>16. ASSUME NEW a \in Try, Routed(a) PROVE SourceFollows'
  BY <1>16, <1>f, <1>r, <1>o, <1>t, <1>k DEF Routed, Building, Placing
<1>17. ASSUME NEW a \in Try, PromotedAfter(a) PROVE SourceFollows'
  BY <1>17, <1>f, <1>r, <1>o, <1>t, <1>k DEF PromotedAfter, Building, Placing
<1> QED
  BY <1>1, <1>2, <1>3, <1>4, <1>5, <1>6, <1>7, <1>8, <1>9, <1>10, <1>11, <1>12, <1>13,
     <1>14, <1>15, <1>16, <1>17 DEF StepKind

LEMMA PointedNext ==
    Shape /\ Attempts /\ Pointed /\ StepKind => Pointed'
<1> SUFFICES ASSUME Shape, Attempts, Pointed, StepKind PROVE Pointed'
  OBVIOUS
<1>f. /\ \A a \in Try : tries[a].at # "unborn" => tries[a].job \in JobId
      /\ \A a \in Try : tries[a].at \in Place
      /\ \A j \in JobId : rows[j].attempt \in Try \cup {NoId}
  BY Fields
<1>a. \A a \in Try : tries[a].at \in Finishing => a \in recorded
  BY DEF Attempts
<1> USE IdSets DEF pointers, Pointed, Finishing, OneRow, SameRow, NewRow
<1>1. ASSUME Elsewhere PROVE Pointed'
  BY <1>1, <1>f, <1>a DEF Elsewhere
<1>2. ASSUME Requested PROVE Pointed'
  BY <1>2, <1>f, <1>a DEF Requested
<1>3. ASSUME Repointed PROVE Pointed'
  BY <1>3, <1>f, <1>a DEF Repointed, Shape
<1>4. ASSUME Died PROVE Pointed'
  BY <1>4, <1>f, <1>a DEF Died
<1>5. ASSUME NEW j \in JobId, Recovered(j) PROVE Pointed'
  BY <1>5, <1>f, <1>a DEF Recovered
<1>6. ASSUME NEW j \in JobId, NEW a \in Try, Claimed(j, a) PROVE Pointed'
  BY <1>6, <1>f, <1>a DEF Claimed
<1>7. ASSUME NEW a \in Try, NEW p \in Place, Local(a, p) PROVE Pointed'
  BY <1>7, <1>f, <1>a DEF Local
<1>8. ASSUME NEW a \in Try, NEW s \in {"completed", "failed"}, Over(a, s) PROVE Pointed'
  BY <1>8, <1>f, <1>a DEF Over, Holds, Row
<1>9. ASSUME NEW a \in Try, Fetched(a) PROVE Pointed'
  BY <1>9, <1>f, <1>a DEF Fetched
<1>10. ASSUME NEW a \in Try, Revised(a) PROVE Pointed'
  BY <1>10, <1>f, <1>a DEF Revised
<1>11. ASSUME NEW a \in Try, Chained(a) PROVE Pointed'
  BY <1>11, <1>f, <1>a DEF Chained
<1>12. ASSUME NEW a \in Try, Prepared(a) PROVE Pointed'
  BY <1>12, <1>f, <1>a DEF Prepared
<1>13. ASSUME NEW a \in Try, Recorded(a) PROVE Pointed'
  BY <1>13, <1>f, <1>a DEF Recorded, Shape
<1>14. ASSUME NEW a \in Try, Announced(a) PROVE Pointed'
  BY <1>14, <1>f, <1>a DEF Announced, Holds
<1>15. ASSUME NEW a \in Try, Targeted(a) PROVE Pointed'
  BY <1>15, <1>f, <1>a DEF Targeted
<1>16. ASSUME NEW a \in Try, Routed(a) PROVE Pointed'
  BY <1>16, <1>f, <1>a DEF Routed
<1>17. ASSUME NEW a \in Try, PromotedAfter(a) PROVE Pointed'
  BY <1>17, <1>f, <1>a DEF PromotedAfter
<1> QED
  BY <1>1, <1>2, <1>3, <1>4, <1>5, <1>6, <1>7, <1>8, <1>9, <1>10, <1>11, <1>12, <1>13,
     <1>14, <1>15, <1>16, <1>17 DEF StepKind

\* A deploy's attempt that nothing disturbed is the only one of a deploy alive, and its
\* job is not settled.
Alone ==
    \A a, b \in Try : Alive(a) /\ Row(a).kind = "deploy" /\ Clean(a) =>
        /\ Alive(b) /\ Row(b).kind = "deploy" => a = b
        /\ ~Settled(tries[a].job)

LEMMA CleanIsAlone == Shape /\ Attempts /\ InOrder /\ Outlives => Alone
<1> SUFFICES ASSUME Shape, Attempts, InOrder, Outlives,
                    NEW a \in Try, NEW b \in Try, Alive(a), Row(a).kind = "deploy", Clean(a)
             PROVE  /\ Alive(b) /\ Row(b).kind = "deploy" => a = b
                    /\ ~Settled(tries[a].job)
  BY DEF Alone
<1>1. tries[a].job \in JobId /\ (Alive(b) => tries[b].job \in JobId)
  BY Fields DEF Alive
<1>2. \A j \in JobId : j <= tries[a].job => ~TriedTwice(j)
  BY <1>1 DEF Clean, JobId
<1>3. ~Settled(tries[a].job)
  BY <1>1, <1>2 DEF Outlives, JobId
<1>4. ASSUME Alive(b), Row(b).kind = "deploy", a # b PROVE FALSE
  <2>1. tries[a].job \in Nat /\ tries[b].job \in Nat
    BY <1>1, <1>4 DEF JobId
  <2>2. CASE tries[b].job = tries[a].job
    BY <1>1, <1>2, <1>4, <2>1, <2>2 DEF TriedTwice
  <2>3. CASE tries[b].job < tries[a].job
    <3>1. Settled(tries[b].job)
      BY <1>1, <1>4, <2>3 DEF InOrder, Tried, Overtakes, Row
    <3>2. TriedTwice(tries[b].job)
      BY <1>4, <3>1 DEF Outlives
    <3> QED
      BY <1>1, <1>2, <1>4, <2>1, <2>3, <3>2
  <2>4. CASE tries[a].job < tries[b].job
    BY <1>1, <1>3, <1>4, <2>4 DEF InOrder, Tried, Overtakes, Row
  <2> QED
    BY <2>1, <2>2, <2>3, <2>4
<1> QED
  BY <1>3, <1>4

\* What was disturbed stays so.
LEMMA CleanBefore ==
    ASSUME Shape, Attempts, StepKind, NEW a \in Try, tries[a].at # "unborn", Clean(a)'
    PROVE  Clean(a)
<1>1. tries[a].job \in JobId
  BY Fields
<1>2. tries'[a].job = tries[a].job
  BY <1>1, JobsKeptNext, IdSets DEF JobsKept
<1>3. \A j \in 1..tries[a].job : j \in JobId
  BY <1>1, BuildDeployAssumption DEF JobId
<1>4. \A j \in JobId : TriedTwice(j) => TriedTwice(j)'
  BY TriedKept
<1> QED
  BY <1>2, <1>3, <1>4 DEF Clean

LEMMA FirstAloneNext ==
    Shape /\ Attempts /\ Numbered /\ Pointed /\ Alone /\ FirstAlone /\ StepKind => FirstAlone'
<1> SUFFICES ASSUME Shape, Attempts, Numbered, Pointed, Alone, FirstAlone, StepKind
             PROVE  FirstAlone'
  OBVIOUS
<1>c. \A a \in Try : tries[a].at # "unborn" /\ Clean(a)' => Clean(a)
  BY CleanBefore
<1>d. \A a \in Try : (tries[a].at # "unborn" => Row(a)'.kind = Row(a).kind)
                    /\ (tries[a].at \in {"preparing"} \cup Building \cup Finishing
                        => Row(a).kind = "deploy")
                    /\ (tries[a].at \in Importing => Row(a).kind # "deploy")
  BY KindsKept DEF Attempts
<1> USE IdSets DEF pointers, FirstAlone, Alive, Ahead, KeepsBuild, Importing, Building,
           Placing, Finishing
<1>1. ASSUME Elsewhere PROVE FirstAlone'
  BY <1>1, <1>c, <1>d DEF Elsewhere
<1>2. ASSUME Requested PROVE FirstAlone'
  BY <1>2, <1>c, <1>d DEF Requested
<1>3. ASSUME Repointed PROVE FirstAlone'
  BY <1>3, <1>c, <1>d DEF Repointed, Pointed
<1>4. ASSUME Died PROVE FirstAlone'
  BY <1>4, <1>c, <1>d DEF Died
<1>5. ASSUME NEW j \in JobId, Recovered(j) PROVE FirstAlone'
  BY <1>5, <1>c, <1>d DEF Recovered
<1>6. ASSUME NEW j \in JobId, NEW a \in Try, Claimed(j, a) PROVE FirstAlone'
  BY <1>6, <1>c, <1>d DEF Claimed, Alone
<1>7. ASSUME NEW a \in Try, NEW p \in Place, Local(a, p) PROVE FirstAlone'
  BY <1>7, <1>c, <1>d DEF Local, Alone
<1>8. ASSUME NEW a \in Try, NEW s \in {"completed", "failed"}, Over(a, s) PROVE FirstAlone'
  BY <1>8, <1>c, <1>d DEF Over, Alone
<1>9. ASSUME NEW a \in Try, Fetched(a) PROVE FirstAlone'
  BY <1>9, <1>c, <1>d DEF Fetched, Alone
<1>10. ASSUME NEW a \in Try, Revised(a) PROVE FirstAlone'
  BY <1>10, <1>c, <1>d DEF Revised, Alone
<1>11. ASSUME NEW a \in Try, Chained(a) PROVE FirstAlone'
  BY <1>11, <1>c, <1>d DEF Chained, Alone
<1>12. ASSUME NEW a \in Try, Prepared(a) PROVE FirstAlone'
  <2>1. tries'[a].first /\ tries'[a].at = "building" => recorded = {}
    BY <1>12 DEF Prepared, Pointed
  <2>2. recorded = {} => stable = NoId /\ scheduler = NoId
    BY DEF Pointed
  <2>3. /\ UNCHANGED <<recorded, production, stable, scheduler>>
        /\ tries[a].at = "preparing" /\ tries'[a].at \in {"failing", "building"}
        /\ \A b \in Try : b # a => tries'[b] = tries[b]
    BY <1>12 DEF Prepared
  <2>4. ASSUME NEW b \in Try, b # a, Clean(b)'
        PROVE  tries[b].at \in {"unborn", "over"} \/ Row(b).kind # "deploy"
    BY <1>12, <2>3, <2>4, <1>c, <1>d DEF Alone
  <2> QED
    BY <1>d, <2>1, <2>2, <2>3, <2>4
<1>13. ASSUME NEW a \in Try, Recorded(a) PROVE FirstAlone'
  BY <1>13, <1>c, <1>d DEF Recorded, Alone, Pointed
<1>14. ASSUME NEW a \in Try, Announced(a) PROVE FirstAlone'
  BY <1>14, <1>c, <1>d DEF Announced, Alone
<1>15. ASSUME NEW a \in Try, Targeted(a) PROVE FirstAlone'
  BY <1>15, <1>c, <1>d DEF Targeted, Alone
<1>16. ASSUME NEW a \in Try, Routed(a) PROVE FirstAlone'
  BY <1>16, <1>c, <1>d DEF Routed, Alone
<1>17. ASSUME NEW a \in Try, PromotedAfter(a) PROVE FirstAlone'
  BY <1>17, <1>c, <1>d DEF PromotedAfter, Alone
<1> QED
  BY <1>1, <1>2, <1>3, <1>4, <1>5, <1>6, <1>7, <1>8, <1>9, <1>10, <1>11, <1>12, <1>13,
     <1>14, <1>15, <1>16, <1>17 DEF StepKind

\* Recorded Deployments stay, and stay the first ones they were.
FirstKept ==
    /\ recorded \subseteq recorded'
    /\ \A d \in recorded : tries'[d].first = tries[d].first
    /\ \A d \in recorded' : d \in recorded \/ Recorded(d)

LEMMA FirstKeptNext ==
    Shape /\ Attempts /\ StepKind => FirstKept
<1> SUFFICES ASSUME Shape, Attempts, StepKind PROVE FirstKept
  OBVIOUS
<1>r. /\ recorded \subseteq Try
      /\ \A a \in recorded : tries[a].at \notin {"unborn", "preparing"} \cup Importing
  BY DEF Shape, Attempts
<1> USE IdSets DEF pointers, FirstKept, Ahead, KeepsBuild
<1>1. ASSUME Elsewhere PROVE FirstKept
  BY <1>1, <1>r DEF Elsewhere
<1>2. ASSUME Requested PROVE FirstKept
  BY <1>2, <1>r DEF Requested
<1>3. ASSUME Repointed PROVE FirstKept
  BY <1>3, <1>r DEF Repointed
<1>4. ASSUME Died PROVE FirstKept
  BY <1>4, <1>r DEF Died
<1>5. ASSUME NEW j \in JobId, Recovered(j) PROVE FirstKept
  BY <1>5, <1>r DEF Recovered
<1>6. ASSUME NEW j \in JobId, NEW a \in Try, Claimed(j, a) PROVE FirstKept
  BY <1>6, <1>r DEF Claimed
<1>7. ASSUME NEW a \in Try, NEW p \in Place, Local(a, p) PROVE FirstKept
  BY <1>7, <1>r DEF Local
<1>8. ASSUME NEW a \in Try, NEW s \in {"completed", "failed"}, Over(a, s) PROVE FirstKept
  BY <1>8, <1>r DEF Over
<1>9. ASSUME NEW a \in Try, Fetched(a) PROVE FirstKept
  BY <1>9, <1>r DEF Fetched, Importing
<1>10. ASSUME NEW a \in Try, Revised(a) PROVE FirstKept
  BY <1>10, <1>r DEF Revised
<1>11. ASSUME NEW a \in Try, Chained(a) PROVE FirstKept
  BY <1>11, <1>r DEF Chained
<1>12. ASSUME NEW a \in Try, Prepared(a) PROVE FirstKept
  BY <1>12, <1>r DEF Prepared
<1>13. ASSUME NEW a \in Try, Recorded(a) PROVE FirstKept
  BY <1>13, <1>r DEF Recorded
<1>14. ASSUME NEW a \in Try, Announced(a) PROVE FirstKept
  BY <1>14, <1>r DEF Announced
<1>15. ASSUME NEW a \in Try, Targeted(a) PROVE FirstKept
  BY <1>15, <1>r DEF Targeted
<1>16. ASSUME NEW a \in Try, Routed(a) PROVE FirstKept
  BY <1>16, <1>r DEF Routed
<1>17. ASSUME NEW a \in Try, PromotedAfter(a) PROVE FirstKept
  BY <1>17, <1>r DEF PromotedAfter
<1> QED
  BY <1>1, <1>2, <1>3, <1>4, <1>5, <1>6, <1>7, <1>8, <1>9, <1>10, <1>11, <1>12, <1>13,
     <1>14, <1>15, <1>16, <1>17 DEF StepKind

\* A row is completed by an attempt of its own.
CompletedBy ==
    \A j \in JobId : rows'[j].status = "completed" =>
        \/ rows[j].status = "completed"
        \/ \E a \in Try : tries[a].job = j /\ Over(a, "completed")

LEMMA CompletedByNext ==
    Shape /\ Attempts /\ Numbered /\ StepKind => CompletedBy
<1> SUFFICES ASSUME Shape, Attempts, Numbered, StepKind PROVE CompletedBy
  OBVIOUS
<1>f. /\ \A a \in Try : tries[a].at # "unborn" => tries[a].job \in JobId
      /\ \A a \in Try : tries[a].at \in Place
      /\ \A j \in JobId : rows[j].attempt \in Try \cup {NoId}
  BY Fields
<1> USE IdSets DEF pointers, CompletedBy, OneRow, NewRow
<1>1. ASSUME Elsewhere PROVE CompletedBy
  BY <1>1, <1>f DEF Elsewhere
<1>2. ASSUME Requested PROVE CompletedBy
  BY <1>2, <1>f DEF Requested
<1>3. ASSUME Repointed PROVE CompletedBy
  BY <1>3, <1>f DEF Repointed
<1>4. ASSUME Died PROVE CompletedBy
  BY <1>4, <1>f DEF Died
<1>5. ASSUME NEW j \in JobId, Recovered(j) PROVE CompletedBy
  BY <1>5, <1>f DEF Recovered
<1>6. ASSUME NEW j \in JobId, NEW a \in Try, Claimed(j, a) PROVE CompletedBy
  BY <1>6, <1>f DEF Claimed
<1>7. ASSUME NEW a \in Try, NEW p \in Place, Local(a, p) PROVE CompletedBy
  BY <1>7, <1>f DEF Local
<1>8. ASSUME NEW a \in Try, NEW s \in {"completed", "failed"}, Over(a, s) PROVE CompletedBy
  BY <1>8, <1>f DEF Over, Holds
<1>9. ASSUME NEW a \in Try, Fetched(a) PROVE CompletedBy
  BY <1>9, <1>f DEF Fetched
<1>10. ASSUME NEW a \in Try, Revised(a) PROVE CompletedBy
  BY <1>10, <1>f DEF Revised
<1>11. ASSUME NEW a \in Try, Chained(a) PROVE CompletedBy
  BY <1>11, <1>f DEF Chained
<1>12. ASSUME NEW a \in Try, Prepared(a) PROVE CompletedBy
  BY <1>12, <1>f DEF Prepared
<1>13. ASSUME NEW a \in Try, Recorded(a) PROVE CompletedBy
  BY <1>13, <1>f DEF Recorded
<1>14. ASSUME NEW a \in Try, Announced(a) PROVE CompletedBy
  BY <1>14, <1>f DEF Announced, Holds
<1>15. ASSUME NEW a \in Try, Targeted(a) PROVE CompletedBy
  BY <1>15, <1>f DEF Targeted
<1>16. ASSUME NEW a \in Try, Routed(a) PROVE CompletedBy
  BY <1>16, <1>f DEF Routed
<1>17. ASSUME NEW a \in Try, PromotedAfter(a) PROVE CompletedBy
  BY <1>17, <1>f DEF PromotedAfter
<1> QED
  BY <1>1, <1>2, <1>3, <1>4, <1>5, <1>6, <1>7, <1>8, <1>9, <1>10, <1>11, <1>12, <1>13,
     <1>14, <1>15, <1>16, <1>17 DEF StepKind

\* The pointers agree when the first deploy completes, since it was alone; later steps move
\* all three or none.
LEMMA FirstDoneNext ==
    Shape /\ Attempts /\ Attempts' /\ Numbered /\ Pointed /\ Alone /\ Alone'
    /\ FirstAlone /\ FirstDone /\ StepKind => FirstDone'
<1> SUFFICES ASSUME Shape, Attempts, Attempts', Numbered, Pointed, Alone, Alone', FirstAlone,
                    FirstDone, StepKind, NEW d \in Try, d \in recorded', FirstDeploys' = {d},
                    Clean(d)', Row(d)'.status = "completed"
             PROVE  /\ stable' # NoId /\ stable' = production'
                    /\ HasSchedules => scheduler' = production'
  BY DEF FirstDone
<1> USE IdSets
<1>1. ~Alive(d)'
  <2>1. Attempts' /\ FirstDeploys' = {d} /\ d \in recorded' => Row(d)'.kind = "deploy"
    BY DEF Attempts
  <2> QED
    BY <2>1 DEF Alone, Settled, Row
<1>2. d \in recorded
  <2>1. d \notin recorded => Recorded(d)
    BY FirstKeptNext DEF FirstKept
  <2>2. Recorded(d) => Alive(d)'
    BY DEF Recorded, Ahead, Alive
  <2> QED
    BY <1>1, <2>1, <2>2
<1>3. tries[d].at # "unborn" /\ tries[d].job \in JobId /\ tries'[d].job = tries[d].job
  <2>1. tries[d].at # "unborn"
    BY <1>2 DEF Attempts
  <2> QED
    BY <2>1, Fields, JobsKeptNext DEF JobsKept
<1>4. Clean(d)
  BY <1>3, CleanBefore
<1>5. FirstDeploys = {d} /\ tries[d].first
  BY <1>2, FirstKeptNext DEF FirstKept, FirstDeploys, Shape
<1>6. CASE Row(d).status = "completed"
  <2>1. stable # NoId /\ stable = production /\ (HasSchedules => scheduler = production)
    BY <1>2, <1>4, <1>5, <1>6 DEF FirstDone
  <2>2. ~Alive(d)
    BY <1>2, <1>4, <1>6 DEF Alone, Settled, Row, Attempts
  <2>3. ASSUME NEW a \in Try, Targeted(a) PROVE ~tries[a].first
    <3>1. a \in recorded /\ Alive(a)
      BY <2>3 DEF Targeted, Attempts, Finishing, Alive
    <3> QED
      BY <1>5, <2>2, <3>1 DEF FirstDeploys
  <2>4. recorded \subseteq Try
    BY DEF Shape
  <2> QED
    BY <2>1, <2>3, <2>4
       DEF StepKind, pointers, Elsewhere, Requested, Repointed, Died, Recovered, Claimed, Local,
           Over, Fetched, Revised, Chained, Prepared, Recorded, Announced, Targeted, Routed,
           PromotedAfter
<1>7. CASE Row(d).status # "completed"
  <2>1. PICK a \in Try : tries[a].job = tries[d].job /\ Over(a, "completed")
    BY <1>3, <1>7, CompletedByNext DEF CompletedBy, Row
  <2>2. ~TriedTwice(tries[d].job)
    BY <1>3, <1>4 DEF Clean, JobId
  <2>3. a = d
    BY <2>1, <2>2 DEF TriedTwice
  <2>4. tries[d].at = "settling" /\ UNCHANGED pointers
    BY <2>1, <2>3 DEF Over
  <2> QED
    BY <1>4, <1>5, <2>4 DEF FirstAlone, pointers
<1> QED
  BY <1>6, <1>7

-----------------------------------------------------------------------------
(***************************************************************************)
(* Ports and processes                                                     *)
(***************************************************************************)
\* A port changes only while its attempt looks for one.
PortsKept ==
    \A a \in Try : tries'[a].port = tries[a].port
                   \/ tries[a].at \in {"unborn", "scanning", "probing"}

\* What happens to a process: it is started, it binds a port no one holds, or it goes, and
\* if it was listening that is remembered unless nothing was recorded for it.
Starts(a) == tries[a].at = "starting" /\ tries'[a].at = "owning" /\ proc'[a] = "started"
Binds(a) ==
    /\ proc[a] = "started" /\ proc'[a] = "listening" /\ Holder(tries[a].port) = {}
    /\ \A b \in Try : b # a => proc'[b] = proc[b]
Stops(a) ==
    /\ proc'[a] \in {"none", "started"}
    /\ proc'[a] = "started" => proc[a] = "listening"
    /\ proc[a] = "listening" => a \in lapsed' \/ (a \notin recorded /\ tries[a].at = "over")
ProcStep ==
    /\ lapsed \subseteq lapsed'
    /\ \A a \in Try : proc'[a] = proc[a] \/ Starts(a) \/ Binds(a) \/ Stops(a)

LEMMA HostSteps ==
    Shape /\ [DeployNext]_deployVars => PortsKept /\ ProcStep
<1> SUFFICES ASSUME Shape, [DeployNext]_deployVars PROVE PortsKept /\ ProcStep
  OBVIOUS
<1>0. /\ proc \in [Try -> {"none", "started", "listening"}]
      /\ tries \in [Try -> TryType]
  BY DEF Shape, HostShape
<1>t. \A b \in Try : tries[b] \in TryType
  BY <1>0
<1> USE DEF deployVars, tableVars, pointers, hostVars
<1>1. ASSUME NEW chain \in BOOLEAN, NEW promote \in BOOLEAN, UploadSource(chain, promote)
      PROVE PortsKept /\ ProcStep
  BY <1>1 DEF UploadSource, PortsKept, ProcStep
<1>2. ASSUME NEW chain \in BOOLEAN, NEW promote \in BOOLEAN, NEW confirmed \in BOOLEAN,
             SyncSource(chain, promote, confirmed)
      PROVE PortsKept /\ ProcStep
  BY <1>2 DEF SyncSource, PortsKept, ProcStep
<1>3. ASSUME NEW promote \in BOOLEAN, NEW confirmed \in BOOLEAN, RequestDeploy(promote, confirmed)
      PROVE PortsKept /\ ProcStep
  BY <1>3 DEF RequestDeploy, PortsKept, ProcStep
<1>4. ASSUME NEW a \in Try, PromoteDeployment(a) PROVE PortsKept /\ ProcStep
  BY <1>4 DEF PromoteDeployment, PortsKept, ProcStep
<1>5. ASSUME ReconcileAgentRoutes PROVE PortsKept /\ ProcStep
  BY <1>5 DEF ReconcileAgentRoutes, PortsKept, ProcStep
<1>6. ASSUME WorkerDies PROVE PortsKept /\ ProcStep
  <2>1. PortsKept
    BY <1>6, EndsTry DEF WorkerDies, PortsKept
  <2> QED
    BY <1>6, <2>1 DEF WorkerDies, ProcStep
<1>7. ASSUME NEW j \in JobId, RecoverStaleJob(j) PROVE PortsKept /\ ProcStep
  BY <1>7 DEF RecoverStaleJob, PortsKept, ProcStep
<1>8. ASSUME NEW j \in JobId, NEW a \in Try, Claim(j, a) PROVE PortsKept /\ ProcStep
  <2>1. PortsKept
    BY <1>8, <1>0, <1>t DEF Claim, PortsKept, TryType, NoTry
  <2> QED
    BY <1>8, <2>1 DEF Claim, ProcStep
<1>9. ASSUME NEW a \in Try, ThrowIfAborted(a) PROVE PortsKept /\ ProcStep
  <2>1. PICK p \in Place : Goes(a, p)
    BY <1>9 DEF ThrowIfAborted, Place, Importing, Building, Placing, Finishing
  <2>2. PortsKept
    BY <2>1, GoesAhead DEF Ahead, KeepsPort, PortsKept
  <2> QED
    BY <1>9, <2>2 DEF ThrowIfAborted, ProcStep
<1>10. ASSUME NEW a \in Try, HandlerThrows(a) PROVE PortsKept /\ ProcStep
  <2>1. PortsKept
    BY <1>10, FailsAhead DEF HandlerThrows, Ahead, KeepsPort, PortsKept
  <2> QED
    BY <1>10, <2>1 DEF HandlerThrows, ProcStep
<1>11. ASSUME NEW a \in Try, CompleteJob(a) PROVE PortsKept /\ ProcStep
  <2>1. PortsKept
    BY <1>11, <1>0, EndsTry DEF CompleteJob, PortsKept
  <2> QED
    BY <1>11, <2>1 DEF CompleteJob, ProcStep
<1>12. ASSUME NEW a \in Try, NEW stops \in BOOLEAN, FailJob(a, stops)
      PROVE PortsKept /\ ProcStep
  <2>1. PortsKept
    BY <1>12, <1>0, EndsTry DEF FailJob, PortsKept
  <2> QED
    BY <1>12, <2>1, <1>0 DEF FailJob, StopStartedProcess, ProcStep, Stops
<1>13. ASSUME NEW a \in Try, FetchSource(a) PROVE PortsKept /\ ProcStep
  <2>1. PortsKept
    BY <1>13, <1>0, <1>t DEF FetchSource, PortsKept, TryType
  <2> QED
    BY <1>13, <2>1 DEF FetchSource, ProcStep
<1>14. ASSUME NEW a \in Try, RecordSourceRevision(a) PROVE PortsKept /\ ProcStep
  <2>1. PICK p \in Place : Goes(a, p)
    BY <1>14 DEF RecordSourceRevision, Place, Importing, Building, Placing, Finishing
  <2>2. PortsKept
    BY <2>1, GoesAhead DEF Ahead, KeepsPort, PortsKept
  <2> QED
    BY <1>14, <2>2 DEF RecordSourceRevision, ProcStep
<1>15. ASSUME NEW a \in Try, EnqueueDeploy(a) PROVE PortsKept /\ ProcStep
  <2>1. PICK p \in Place : Goes(a, p)
    BY <1>15 DEF EnqueueDeploy, Place, Importing, Building, Placing, Finishing
  <2>2. PortsKept
    BY <2>1, GoesAhead DEF Ahead, KeepsPort, PortsKept
  <2> QED
    BY <1>15, <2>2 DEF EnqueueDeploy, ProcStep
<1>16. ASSUME NEW a \in Try, PrepareDeploy(a) PROVE PortsKept /\ ProcStep
  <2>1. PortsKept
    BY <1>16, <1>0, <1>t DEF PrepareDeploy, PortsKept, TryType, Goes
  <2> QED
    BY <1>16, <2>1 DEF PrepareDeploy, ProcStep
<1>17. ASSUME NEW a \in Try, BuildRelease(a) PROVE PortsKept /\ ProcStep
  <2>1. PortsKept
    BY <1>17, <1>0, <1>t DEF BuildRelease, PortsKept, TryType
  <2> QED
    BY <1>17, <2>1 DEF BuildRelease, ProcStep
<1>18. ASSUME NEW a \in Try, ScanPorts(a) PROVE PortsKept /\ ProcStep
  <2>1. PortsKept
    BY <1>18, <1>0, <1>t DEF ScanPorts, PortsKept, TryType, Fails
  <2> QED
    BY <1>18, <2>1 DEF ScanPorts, ProcStep
<1>19. ASSUME NEW a \in Try, NEW free \in BOOLEAN, ProbePort(a, free)
      PROVE PortsKept /\ ProcStep
  <2>1. PortsKept
    BY <1>19, <1>0, <1>t DEF ProbePort, PortsKept, TryType
  <2> QED
    BY <1>19, <2>1 DEF ProbePort, ProcStep
<1>20. ASSUME NEW a \in Try, StartProcess(a) PROVE PortsKept /\ ProcStep
  <2>1. Ahead(a, "owning") /\ KeepsPort(a)
    BY <1>20, GoesAhead DEF StartProcess, Place, Building
  <2> QED
    BY <1>20, <2>1, <1>0 DEF StartProcess, Ahead, KeepsPort, PortsKept, ProcStep, Starts
<1>21. ASSUME NEW a \in Try, VerifyPortOwnership(a) PROVE PortsKept /\ ProcStep
  <2>1. PICK p \in Place : Goes(a, p)
    BY <1>21 DEF VerifyPortOwnership, Place, Importing, Building, Placing, Finishing
  <2>2. PortsKept
    BY <2>1, GoesAhead DEF Ahead, KeepsPort, PortsKept
  <2> QED
    BY <1>21, <2>2 DEF VerifyPortOwnership, ProcStep
<1>22. ASSUME NEW a \in Try, WaitForHttpHealth(a) PROVE PortsKept /\ ProcStep
  <2>1. PICK p \in Place : Goes(a, p)
    BY <1>22 DEF WaitForHttpHealth, Place, Importing, Building, Placing, Finishing
  <2>2. PortsKept
    BY <2>1, GoesAhead DEF Ahead, KeepsPort, PortsKept
  <2> QED
    BY <1>22, <2>2 DEF WaitForHttpHealth, ProcStep
<1>23. ASSUME NEW a \in Try, RecordDeployment(a) PROVE PortsKept /\ ProcStep
  <2>1. PICK p \in Place : Goes(a, p)
    BY <1>23 DEF RecordDeployment, Place, Importing, Building, Placing, Finishing
  <2>2. PortsKept
    BY <2>1, GoesAhead DEF Ahead, KeepsPort, PortsKept
  <2> QED
    BY <1>23, <2>2 DEF RecordDeployment, ProcStep
<1>24. ASSUME NEW a \in Try, ReplaceJobPayload(a) PROVE PortsKept /\ ProcStep
  <2>1. PICK p \in Place : Goes(a, p)
    BY <1>24 DEF ReplaceJobPayload, Place, Importing, Building, Placing, Finishing
  <2>2. PortsKept
    BY <2>1, GoesAhead DEF Ahead, KeepsPort, PortsKept
  <2> QED
    BY <1>24, <2>2 DEF ReplaceJobPayload, ProcStep
<1>25. ASSUME NEW a \in Try, TargetSchedules(a) PROVE PortsKept /\ ProcStep
  <2>1. PICK p \in Place : Goes(a, p)
    BY <1>25 DEF TargetSchedules, Place, Importing, Building, Placing, Finishing
  <2>2. PortsKept
    BY <2>1, GoesAhead DEF Ahead, KeepsPort, PortsKept
  <2> QED
    BY <1>25, <2>2 DEF TargetSchedules, ProcStep
<1>26. ASSUME NEW a \in Try, EnsureDeploymentRoutes(a) PROVE PortsKept /\ ProcStep
  <2>1. PICK p \in Place : Goes(a, p)
    BY <1>26 DEF EnsureDeploymentRoutes, Place, Importing, Building, Placing, Finishing
  <2>2. PortsKept
    BY <2>1, GoesAhead DEF Ahead, KeepsPort, PortsKept
  <2> QED
    BY <1>26, <2>2 DEF EnsureDeploymentRoutes, ProcStep
<1>27. ASSUME NEW a \in Try, PromoteAfterDeploy(a) PROVE PortsKept /\ ProcStep
  <2>1. PortsKept
    BY <1>27, <1>0, <1>t DEF PromoteAfterDeploy, PortsKept, TryType
  <2> QED
    BY <1>27, <2>1 DEF PromoteAfterDeploy, ProcStep
<1>28. ASSUME NEW a \in Try, ProcessBinds(a) PROVE PortsKept /\ ProcStep
  BY <1>28, <1>0 DEF ProcessBinds, PortsKept, ProcStep, Binds
<1>29. ASSUME NEW a \in Try, ReapOrphan(a) PROVE PortsKept /\ ProcStep
  BY <1>29, <1>0 DEF ReapOrphan, PortsKept, ProcStep, Stops
<1>30. ASSUME NEW a \in Try, NEW as \in {"started", "none"}, ProcessLapses(a, as)
      PROVE PortsKept /\ ProcStep
  BY <1>30, <1>0 DEF ProcessLapses, PortsKept, ProcStep, Stops
<1>99. CASE UNCHANGED deployVars
  BY <1>99 DEF PortsKept, ProcStep
<1> QED
  BY <1>99, <1>1, <1>2, <1>3, <1>4, <1>5, <1>6, <1>7, <1>8, <1>9, <1>10, <1>11, <1>12,
     <1>13, <1>14, <1>15, <1>16, <1>17, <1>18, <1>19, <1>20, <1>21, <1>22, <1>23, <1>24,
     <1>25, <1>26, <1>27, <1>28, <1>29, <1>30
    DEF DeployNext, RequestArrives, ImportStep, DeployStep, ProcessStep

\* Where an attempt stood before: one that has not started a process yet had none before, and
\* one that is past the proof of ownership was there or has just given it.
Early == {"unborn", "preparing"} \cup Importing \cup Placing
Passed(a) == tries[a].at \in {"answering", "recording"} \/ a \in recorded
Progress ==
    \A a \in Try : /\ tries'[a].at \in Early => tries[a].at \in Early
                   /\ Passed(a)' => Passed(a) \/ (tries[a].at = "owning" /\ proc[a] = "listening")

LEMMA ProgressNext ==
    Shape /\ StepKind => Progress
<1> SUFFICES ASSUME Shape, StepKind PROVE Progress
  OBVIOUS
<1> USE IdSets DEF pointers, Progress, Early, Passed, Importing, Placing, Ahead
<1>1. ASSUME Elsewhere PROVE Progress
  BY <1>1 DEF Elsewhere
<1>2. ASSUME Requested PROVE Progress
  BY <1>2 DEF Requested
<1>3. ASSUME Repointed PROVE Progress
  BY <1>3 DEF Repointed
<1>4. ASSUME Died PROVE Progress
  BY <1>4 DEF Died, Alive
<1>5. ASSUME NEW j \in JobId, Recovered(j) PROVE Progress
  BY <1>5 DEF Recovered
<1>6. ASSUME NEW j \in JobId, NEW a \in Try, Claimed(j, a) PROVE Progress
  BY <1>6 DEF Claimed
<1>7. ASSUME NEW a \in Try, NEW p \in Place, Local(a, p) PROVE Progress
  BY <1>7 DEF Local
<1>8. ASSUME NEW a \in Try, NEW s \in {"completed", "failed"}, Over(a, s) PROVE Progress
  BY <1>8 DEF Over
<1>9. ASSUME NEW a \in Try, Fetched(a) PROVE Progress
  BY <1>9 DEF Fetched
<1>10. ASSUME NEW a \in Try, Revised(a) PROVE Progress
  BY <1>10 DEF Revised
<1>11. ASSUME NEW a \in Try, Chained(a) PROVE Progress
  BY <1>11 DEF Chained
<1>12. ASSUME NEW a \in Try, Prepared(a) PROVE Progress
  BY <1>12 DEF Prepared
<1>13. ASSUME NEW a \in Try, Recorded(a) PROVE Progress
  BY <1>13 DEF Recorded
<1>14. ASSUME NEW a \in Try, Announced(a) PROVE Progress
  BY <1>14 DEF Announced
<1>15. ASSUME NEW a \in Try, Targeted(a) PROVE Progress
  BY <1>15 DEF Targeted
<1>16. ASSUME NEW a \in Try, Routed(a) PROVE Progress
  BY <1>16 DEF Routed
<1>17. ASSUME NEW a \in Try, PromotedAfter(a) PROVE Progress
  BY <1>17 DEF PromotedAfter
<1> QED
  BY <1>1, <1>2, <1>3, <1>4, <1>5, <1>6, <1>7, <1>8, <1>9, <1>10, <1>11, <1>12, <1>13,
     <1>14, <1>15, <1>16, <1>17 DEF StepKind

LEMMA PortsNext ==
    Attempts /\ OneHolder /\ NotStarted /\ Proven /\ PortsKept /\ ProcStep /\ Progress
    => OneHolder' /\ NotStarted' /\ Proven'
<1> SUFFICES ASSUME Attempts, OneHolder, NotStarted, Proven, PortsKept, ProcStep, Progress
             PROVE  OneHolder' /\ NotStarted' /\ Proven'
  OBVIOUS
<1>1. \A a \in Try : tries[a].at \in Early => proc[a] = "none"
  BY DEF NotStarted, Early
<1>2. \A a \in Try : proc[a] # "none" => tries'[a].port = tries[a].port
  BY <1>1 DEF PortsKept, Early, Placing
<1>3. \A a \in Try : proc'[a] = "listening" => proc[a] = "listening" \/ Binds(a)
  BY DEF ProcStep, Starts, Stops
<1>4. OneHolder'
  <2> SUFFICES ASSUME NEW d \in Try, NEW e \in Try, proc'[d] = "listening",
                      proc'[e] = "listening", tries'[d].port = tries'[e].port, d # e
               PROVE  FALSE
    BY DEF OneHolder
  <2>1. tries'[d].port = tries[d].port /\ tries'[e].port = tries[e].port
    BY <1>2, <1>3 DEF Binds
  <2>2. ~Binds(d)
    BY <2>1 DEF Binds, Holder
  <2>3. ~Binds(e)
    BY <2>1 DEF Binds, Holder
  <2> QED
    BY <1>3, <2>1, <2>2, <2>3 DEF OneHolder
<1>5. NotStarted'
  <2> SUFFICES ASSUME NEW a \in Try, tries'[a].at \in Early PROVE proc'[a] = "none"
    BY DEF NotStarted, Early
  <2>1. proc[a] = "none"
    BY <1>1 DEF Progress
  <2>2. ~Starts(a)
    BY DEF Starts, Early, Importing, Placing
  <2> QED
    BY <2>1, <2>2 DEF ProcStep, Binds, Stops
<1>6. Proven'
  <2> SUFFICES ASSUME NEW a \in Try, Passed(a)' PROVE proc'[a] = "listening" \/ a \in lapsed'
    BY DEF Proven, Passed
  <2>1. \/ a \in lapsed
        \/ proc[a] = "listening" /\ (Passed(a) \/ tries[a].at = "owning")
    BY DEF Progress, Proven, Passed
  <2>2. proc[a] = "listening" => ~Starts(a) /\ ~Binds(a)
    BY <1>1 DEF Starts, Binds, Early, Placing
  <2>3. (Passed(a) \/ tries[a].at = "owning") /\ Stops(a) /\ proc[a] = "listening"
        => a \in lapsed'
    BY DEF Passed, Stops
  <2> QED
    BY <2>1, <2>2, <2>3 DEF ProcStep
<1> QED
  BY <1>4, <1>5, <1>6

-----------------------------------------------------------------------------
(***************************************************************************)
(* The invariant and what follows from it                                  *)
(***************************************************************************)
LEMMA InitHolds == DeployInit => DeployInv
<1> SUFFICES ASSUME DeployInit PROVE DeployInv
  OBVIOUS
<1> USE IdSets, BuildDeployAssumption
<1>1. NoRow \in RowType /\ NoTry \in TryType /\ source \in RevisionType
  BY DEF DeployInit, NoRow, NoTry, RowType, TryType, RevisionType, NoRevision, Place
<1>2. /\ \A j \in JobId : /\ rows[j].status = "absent" /\ rows[j].kind = "none"
                          /\ rows[j].parent = NoId /\ rows[j].deployment = NoId
      /\ \A a \in Try : tries[a].at = "unborn" /\ tries[a].job = NoId /\ ~tries[a].first
  BY DEF DeployInit, NoRow, NoTry
<1>3. HostShape
  BY <1>2 DEF DeployInit, HostShape
<1>4. Shape
  BY <1>1, <1>3 DEF DeployInit, Shape
<1>5. Attempts /\ Numbered
  BY <1>2 DEF DeployInit, Attempts, Numbered, JobId, Importing, Building, Placing, Finishing
<1>6. OneHolder /\ NotStarted /\ Proven
  BY <1>2 DEF DeployInit, OneHolder, NotStarted, Proven
<1>7. InOrder /\ Outlives /\ Named /\ Delivers
  BY <1>2 DEF InOrder, Tried, Outlives, Alive, Named, Delivers, Finishing
<1>8. SourceFollows /\ Pointed
  BY <1>2 DEF DeployInit, SourceFollows, Pointed, Building, Placing
<1>9. FirstAlone /\ FirstDone
  BY <1>2 DEF DeployInit, FirstAlone, FirstDone
<1> QED
  BY <1>4, <1>5, <1>6, <1>7, <1>8, <1>9 DEF DeployInv

LEMMA InvNext == DeployInv /\ [DeployNext]_deployVars => DeployInv'
<1> SUFFICES ASSUME DeployInv, [DeployNext]_deployVars PROVE DeployInv'
  OBVIOUS
<1>0. /\ Shape /\ Attempts /\ Numbered /\ OneHolder /\ NotStarted /\ Proven /\ InOrder /\ Outlives
      /\ Named /\ Delivers /\ SourceFollows /\ Pointed /\ FirstAlone /\ FirstDone
  BY DEF DeployInv
<1>1. StepKind /\ HostShape'
  BY <1>0, StepKinds
<1>2. Shape' /\ Attempts' /\ Numbered'
  BY <1>0, <1>1, ShapeNext, AttemptsNext, NumberedNext
<1>3. PortsKept /\ ProcStep /\ Progress
  BY <1>0, <1>1, HostSteps, ProgressNext
<1>4. OneHolder' /\ NotStarted' /\ Proven'
  BY <1>0, <1>3, PortsNext
<1>5. InOrder' /\ Outlives' /\ Named' /\ Delivers' /\ SourceFollows' /\ Pointed'
  BY <1>0, <1>1, InOrderNext, OutlivesNext, NamedNext, DeliversNext, SourceFollowsNext, PointedNext
<1>6. Alone
  BY <1>0, CleanIsAlone
<1>7. Alone'
  BY <1>2, <1>5, CleanIsAlone, PTL
<1>8. FirstAlone' /\ FirstDone'
  BY <1>0, <1>1, <1>2, <1>6, <1>7, FirstAloneNext, FirstDoneNext
<1> QED
  BY <1>2, <1>4, <1>5, <1>8 DEF DeployInv

\* The inductive invariant holds of every deploy, whatever is asked for, fails or is tried again.
THEOREM DeployInvariant == DeploySpec => []DeployInv
BY InitHolds, InvNext, PTL DEF DeploySpec

\* The tables keep their shape, and no pointer or job names a Deployment that has no row.
THEOREM DeployTypeCorrect == DeploySpec => []DeployTypeOK
<1>1. DeployInv => DeployTypeOK
  <2> SUFFICES ASSUME DeployInv PROVE DeployTypeOK
    OBVIOUS
  <2>0. Shape /\ Attempts /\ Pointed /\ HostShape
    BY DEF DeployInv, Shape
  <2>1. \A j \in JobId : rows[j] \in
          [kind : {"none", "upload", "sync", "deploy"}, chain : BOOLEAN, promote : BOOLEAN,
           confirmed : BOOLEAN, drifting : BOOLEAN, parent : JobId \cup {NoId},
           status : {"absent", "queued", "running", "completed", "failed"},
           attempt : Try \cup {NoId}, deployment : recorded \cup {NoId}]
    BY <2>0 DEF Shape, Pointed, RowType
  <2>2. rows = [j \in JobId |-> rows[j]]
    BY <2>0 DEF Shape
  <2>3. \A a \in Try : tries[a] \in TryType
    BY <2>0 DEF Shape
  <2>4. \A a \in Try : /\ tries[a].port \in Ports \cup {NoId}
                       /\ tries[a].at = "unborn" <=> tries[a].job = NoId
    BY <2>0, <2>3 DEF Attempts, TryType
  <2>5. source.origin \in {"none", "git-sync", "upload"} /\ source.by \in JobId \cup {NoId}
    BY <2>0 DEF Shape, RevisionType
  <2>6. {production, stable, scheduler} \subseteq recorded \cup {NoId}
    BY <2>0 DEF Pointed
  <2>7. rows \in [JobId ->
          [kind : {"none", "upload", "sync", "deploy"}, chain : BOOLEAN, promote : BOOLEAN,
           confirmed : BOOLEAN, drifting : BOOLEAN, parent : JobId \cup {NoId},
           status : {"absent", "queued", "running", "completed", "failed"},
           attempt : Try \cup {NoId}, deployment : recorded \cup {NoId}]]
    BY <2>1, <2>2
  <2> QED
    BY <2>0, <2>4, <2>5, <2>6, <2>7 DEF DeployTypeOK, Shape, HostShape
<1> QED
  BY <1>1, DeployInvariant, PTL

\* However many attempts find one port free, two Deployments are recorded on it only if one of
\* them has stopped listening: each has proved its ownership, and a port has one holder.
THEOREM NoForeignTrafficCorrect == DeploySpec => []NoForeignTraffic
<1>1. DeployInv => NoForeignTraffic
  BY DEF DeployInv, Shape, OneHolder, Proven, NoForeignTraffic
<1> QED
  BY <1>1, DeployInvariant, PTL

\* A completed deploy names the Deployment of the attempt that completed it, built from a source
\* no older than the import that asked for it, unless an older import was attempted twice.
THEOREM JobDeliversCorrect == DeploySpec => []JobDelivers
<1>1. DeployInv => JobDelivers
  <2> SUFFICES ASSUME DeployInv, NEW j \in JobId, rows[j].kind = "deploy",
                      rows[j].status = "completed"
               PROVE  /\ rows[j].deployment = rows[j].attempt
                      /\ rows[j].deployment \in recorded
                      /\ \/ tries[rows[j].deployment].revision.by >= rows[j].parent
                         \/ \E i \in JobId : i < rows[j].parent /\ TriedTwice(i)
    BY DEF JobDelivers
  <2>0. Shape /\ Attempts /\ Delivers /\ Named /\ SourceFollows
    BY DEF DeployInv
  <2>1. rows[j].deployment = rows[j].attempt /\ rows[j].deployment \in recorded
    BY <2>0 DEF Delivers
  <2> DEFINE d == rows[j].deployment
             p == rows[j].parent
  <2>2. d \in Try /\ d \in recorded /\ tries[d].job = j
    BY <2>0, <2>1 DEF Named
  <2>3. tries[d].revision.by \in Nat /\ p \in JobId \cup {NoId}
    BY <2>0, <2>2, Fields
  <2>4. CASE p \in JobId
    <3>1. Row(d).parent = p
      BY <2>2 DEF Row
    <3>2. tries[d].revision.by >= p \/ OlderTwice(p)
      BY <2>0, <2>2, <2>4, <3>1 DEF SourceFollows
    <3> QED
      BY <2>1, <3>2 DEF OlderTwice
  <2>5. CASE p = NoId
    BY <2>1, <2>3, <2>5 DEF NoId
  <2> QED
    BY <2>3, <2>4, <2>5
<1> QED
  BY <1>1, DeployInvariant, PTL

\* Once the first deploy has completed with no job up to it tried twice, the project's
\* Deployment, its stable route and its scheduler target name one Deployment for good.
THEOREM PointersAgreeCorrect == DeploySpec => []PointersAgree
<1>1. DeployInv => PointersAgree
  BY DEF DeployInv, Shape, FirstDone, PointersAgree, FirstDeploys, Undisturbed, Clean
<1> QED
  BY <1>1, DeployInvariant, PTL


=============================================================================
