---------------------------- MODULE ImageBuilds -----------------------------
(***************************************************************************)
(* Image builds of one project: the create and cancel handlers, and the    *)
(* maintenance task that executes the oldest queued build.                 *)
(*                                                                         *)
(* The task's lease lasts one maintenance interval and a build up to half  *)
(* an hour, so the runners of two replicas overlap.  A digest is the       *)
(* number of the push that made it; Harbor holds the last push of the      *)
(* image's tag, whoever pushed it.                                         *)
(***************************************************************************)
EXTENDS Naturals, FiniteSets

CONSTANTS
    BuildCallers,   \* callers of the create handler
    BuildRunners,   \* replicas running the dispatcher task
    BuildKeys,      \* idempotency keys
    BuildSizes,     \* what a request asks for, in one dimension
    SizeLimit,      \* build_cpu_limit, build_memory_gib_limit, build_time_limit_seconds
    ActiveLimit,    \* activeBuildLimit of the project
    MaxBuilds,      \* bound: builds created
    MaxPushes,      \* bound: images pushed
    NoKey, NoBuild

BuildStatuses == {"queued", "building", "succeeded", "failed", "cancelled"}
CheckStates == {"pending", "succeeded", "passed", "signed", "failed", "skipped"}
BuildRecords ==
    [status : BuildStatuses, key : BuildKeys \cup {NoKey}, cancelKey : BOOLEAN, digest : Nat,
     sbom : CheckStates, scan : CheckStates, signature : CheckStates]

ASSUME BuildsAssumption == MaxBuilds \in Nat /\ NoBuild \notin BuildRecords

VARIABLES
    builds,     \* build number -> record or NoBuild
    creating,   \* caller -> the create handler it is in
    runner,     \* replica -> the build it runs
    harbor,     \* the artifact under the tag: digest (0: none) and scan
    pushes,     \* images pushed so far
    signed      \* history: digests that passed the scan and were signed

buildVars == <<builds, creating, runner, harbor, pushes, signed>>

Ids == 1..MaxBuilds
Running(pc, b) == [pc |-> pc, build |-> b, outcome |-> "none", digest |-> 0]
RunnerIdle == Running("idle", 0)
Exists(b) == builds[b] # NoBuild

activeImageBuildStatus(s) == s \in {"queued", "building"}

BuildsInit ==
    /\ builds = [b \in Ids |-> NoBuild]
    /\ creating = [c \in BuildCallers |-> [pc |-> "idle", key |-> NoKey]]
    /\ runner = [w \in BuildRunners |-> RunnerIdle]
    /\ harbor = [digest |-> 0, scan |-> "passed"]
    /\ pushes = 0
    /\ signed = {}

---------------------------------------------------------------------------
\* createBuild.  The policy of the project decides first, and then the key.
admitImageBuildPolicy(allowed, size) == allowed /\ size <= SizeLimit

findImageBuildByIdempotencyKeyHash(key) == {b \in Ids : Exists(b) /\ builds[b].key = key}

imageBuildIdempotencyResult(key) == key # NoKey /\ findImageBuildByIdempotencyKeyHash(key) # {}

exceededActiveBuildLimit ==
    Cardinality({b \in Ids : Exists(b) /\ activeImageBuildStatus(builds[b].status)}) >= ActiveLimit

CreateAdmit(c) ==
    /\ creating[c].pc = "idle"
    /\ \E key \in BuildKeys \cup {NoKey}, allowed \in BOOLEAN, size \in BuildSizes :
          /\ admitImageBuildPolicy(allowed, size)
          /\ ~imageBuildIdempotencyResult(key)
          /\ creating' = [creating EXCEPT ![c] = [pc |-> "admit", key |-> key]]
    /\ UNCHANGED <<builds, runner, harbor, pushes, signed>>

\* The count of active builds, a list of its own.
CreateCount(c) ==
    /\ creating[c].pc = "admit"
    /\ creating' = [creating EXCEPT ![c] =
          IF exceededActiveBuildLimit THEN [pc |-> "idle", key |-> NoKey]
                                      ELSE [@ EXCEPT !.pc = "create"]]
    /\ UNCHANGED <<builds, runner, harbor, pushes, signed>>

newImageBuildRecord(key) ==
    [status |-> "queued", key |-> key, cancelKey |-> FALSE, digest |-> 0,
     sbom |-> "pending", scan |-> "pending", signature |-> "pending"]

CreateBuild(c) ==
    /\ creating[c].pc = "create"
    /\ \E b \in Ids :
          /\ ~Exists(b) /\ \A a \in 1..(b - 1) : Exists(a)
          /\ builds' = [builds EXCEPT ![b] = newImageBuildRecord(creating[c].key)]
    /\ creating' = [creating EXCEPT ![c] = [pc |-> "idle", key |-> NoKey]]
    /\ UNCHANGED <<runner, harbor, pushes, signed>>

\* The build a request with this key has already cancelled.
imageBuildCancelIdempotencyResult(b, keyed) == keyed /\ builds[b].cancelKey

\* cancelProjectBuild: whatever the build's status, unless the key of the
\* request has cancelled it before.
CancelBuild(b, keyed) ==
    /\ Exists(b)
    /\ ~imageBuildCancelIdempotencyResult(b, keyed)
    /\ builds' = [builds EXCEPT ![b].status = "cancelled", ![b].cancelKey = keyed \/ @]
    /\ UNCHANGED <<creating, runner, harbor, pushes, signed>>

---------------------------------------------------------------------------
\* As if every build that has not ended were a candidate.
UnfinishedBuilds == {b \in Ids : Exists(b) /\ builds[b].status \notin {"succeeded", "failed"}}

\* oldestQueuedBuild: ids are given in order of creation.
queuedBuilds == {b \in Ids : Exists(b) /\ builds[b].status = "queued"}

RunPick(w) ==
    /\ runner[w] = RunnerIdle
    /\ \E b \in queuedBuilds : /\ \A a \in queuedBuilds : b <= a
                              /\ runner' = [runner EXCEPT ![w] = Running("mark", b)]
    /\ UNCHANGED <<builds, creating, harbor, pushes, signed>>

\* runImageBuild marks the build it was handed, from the list it was read in.
RunMark(w) ==
    /\ runner[w].pc = "mark"
    /\ builds' = [builds EXCEPT ![runner[w].build].status = "building"]
    /\ runner' = [runner EXCEPT ![w].pc = "execute"]
    /\ UNCHANGED <<creating, harbor, pushes, signed>>

\* The executor's steps before anything is pushed: the input, the staged
\* context, the build itself; or the time the build may take runs out.
RunUnbuilt(w) ==
    /\ runner[w].pc = "execute"
    /\ runner' = [runner EXCEPT ![w].pc = "record", ![w].outcome = "error"]
    /\ UNCHANGED <<builds, creating, harbor, pushes, signed>>

\* Execute from the push on: an image is under the tag whatever comes after,
\* the SBOM or the signature may fail, and a failed scan is no error.  Push,
\* inspect, syft and trivy each resolve the tag in the docker daemon of the
\* replica, where a push to the registry does not move it; a replica runs its
\* maintenance tasks one after another, so all four see the image just built.
\* Replicas that share a daemon are left out.
RunExecute(w) ==
    /\ runner[w].pc = "execute"
    /\ pushes < MaxPushes
    /\ pushes' = pushes + 1
    /\ \E outcome \in {"error", "unsigned", "scanFailed", "passed"}, scan \in {"passed", "failed"} :
          /\ runner' = [runner EXCEPT ![w].pc = "record", ![w].outcome = outcome,
                                      ![w].digest = pushes']
          /\ harbor' = [digest |-> pushes', scan |-> scan]
          /\ signed' = IF outcome = "passed" THEN signed \cup {pushes'} ELSE signed
    /\ UNCHANGED <<builds, creating>>

\* buildResultUpdate; the record it starts from is the one picked, whose
\* checks were pending.
buildResultUpdate(build, outcome, digest) ==
    CASE outcome = "error" ->
            [build EXCEPT !.status = "failed", !.sbom = "failed", !.scan = "failed", !.signature = "failed"]
      [] outcome = "unsigned" ->
            [build EXCEPT !.status = "failed", !.sbom = "succeeded", !.scan = "failed", !.signature = "failed"]
      [] outcome = "scanFailed" ->
            [build EXCEPT !.status = "failed", !.digest = digest, !.sbom = "succeeded",
                          !.scan = "failed", !.signature = "skipped"]
      [] outcome = "passed" ->
            [build EXCEPT !.status = "succeeded", !.digest = digest, !.sbom = "succeeded",
                          !.scan = "passed", !.signature = "signed"]

RunRecord(w) ==
    /\ runner[w].pc = "record"
    /\ builds' = [builds EXCEPT ![runner[w].build] = buildResultUpdate(@, runner[w].outcome, runner[w].digest)]
    /\ runner' = [runner EXCEPT ![w] = RunnerIdle]
    /\ UNCHANGED <<creating, harbor, pushes, signed>>

\* The replica stops, or a write of the task fails.
RunStop(w) ==
    /\ runner[w] # RunnerIdle
    /\ runner' = [runner EXCEPT ![w] = RunnerIdle]
    /\ UNCHANGED <<builds, creating, harbor, pushes, signed>>

\* Someone pushes to the tag, or deletes it, past the platform.
HarborChanges ==
    /\ \/ /\ pushes < MaxPushes
          /\ pushes' = pushes + 1
          /\ \E scan \in {"passed", "failed"} : harbor' = [digest |-> pushes', scan |-> scan]
       \/ /\ harbor.digest # 0
          /\ harbor' = [harbor EXCEPT !.digest = 0]
          /\ UNCHANGED pushes
    /\ UNCHANGED <<builds, creating, runner, signed>>

BuildsNext ==
    \/ \E c \in BuildCallers : CreateAdmit(c) \/ CreateCount(c) \/ CreateBuild(c)
    \/ \E b \in Ids, keyed \in BOOLEAN : CancelBuild(b, keyed)
    \/ \E w \in BuildRunners :
          RunPick(w) \/ RunMark(w) \/ RunUnbuilt(w) \/ RunExecute(w) \/ RunRecord(w) \/ RunStop(w)
    \/ HarborChanges

---------------------------------------------------------------------------
BuildsTypeOK ==
    /\ \A b \in Ids : Exists(b) => /\ builds[b].status \in BuildStatuses
                                   /\ builds[b].digest \in 0..pushes
    /\ \A w \in BuildRunners : runner[w] # RunnerIdle => runner[w].build \in Ids
    /\ signed \subseteq 1..pushes

\* Cancelled, and in no runner's hands.
CancelledFree(b) ==
    /\ Exists(b) /\ builds[b].status = "cancelled"
    /\ \A w \in BuildRunners : runner[w].build # b

\* A build that is cancelled while no runner has it is left alone for good: no request and no
\* runner changes its status again, and no runner picks it up (cancelProjectBuild, oldestQueuedBuild).
CancelKept == [][\A b \in Ids : CancelledFree(b) => CancelledFree(b)']_buildVars

\* Cancelling a build ends it (image-build.md, IMG-012: "Build cancellation
\* terminates build resources and releases quota"): no later step makes it
\* active or finished.
CancelFinal ==
    [][\A b \in Ids : (Exists(b) /\ builds[b].status = "cancelled")
          => builds'[b].status = "cancelled"]_buildVars
=============================================================================
