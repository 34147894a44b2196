------------------------- MODULE DispatchManifests -------------------------
(* From an admitted job to Kubernetes objects: the dispatcher of             *)
(* workload-service rewrites the job's resources (storage, data plane,       *)
(* placement, accelerator, network, streaming, GPU claims), turns them into  *)
(* manifests (through Volcano if the job asks for a gang), creates these one *)
(* by one, and rolls back by label when one fails.  A resource is reduced to *)
(* what the steps look at and to the set of things they put into its pods.   *)
EXTENDS Integers, Sequences, FiniteSets
LOCAL INSTANCE FiniteSetsExt

CONSTANTS DispatchJobs,
          DispatchShapes,   \* shape -> what a job of it was admitted with
          NoOwner

VARIABLES admitted,    \* job -> its shape
          dispatched,  \* job -> waiting, running or over
          kube,        \* objects in the namespace
          dispatching, \* the dispatcher: job and manifests left to create
          usurped      \* history: jobs one of whose names another object had

manifestVars == <<admitted, dispatched, kube, dispatching, usurped>>

LOCAL Shape(j) == DispatchShapes[admitted[j]]

-----------------------------------------------------------------------------
(* Resources.  label is the job label of its pods, puts what was injected    *)
(* into them, pin the value of a node selector of its own, replicas (or the  *)
(* parallelism) and completions are -1 if not given.                         *)

PodKinds == {"Pod", "Deployment", "Job", "VCJob"}

(* podSpecPaths takes a VCJob for a Job, and finds no pod spec in it.         *)
podSpecPaths(r) == r.kind \in PodKinds \ {"VCJob"}

LOCAL Put(r, what) == [r EXCEPT !.puts = @ \cup {what}]
LOCAL All(rs) == {rs[i] : i \in DOMAIN rs}
LOCAL Each(rs, F(_)) == [i \in DOMAIN rs |-> F(rs[i])]

(* Storage mounts and scratch space go into every pod, and an init container  *)
(* that fills the space if there is something to stage in; a mount path that  *)
(* is in use, and a job without pods, are errors.                             *)
ensureStorageMountInContainer(r) == r.kind \notin PodKinds \/ ~r.pathUsed
injectStorageMountsIntoResource(r) == IF r.kind \in PodKinds THEN Put(r, "mount") ELSE r
ensureDataPlaneStageInInitContainer(job, r) == IF job.stage THEN Put(r, "stageIn") ELSE r
injectDataPlaneIntoResource(job, r) ==
    IF r.kind \in PodKinds THEN ensureDataPlaneStageInInitContainer(job, Put(r, "scratch")) ELSE r

prepareStorageMountDispatchResources(job, rs) ==
    IF job.mount THEN Each(rs, injectStorageMountsIntoResource) ELSE rs

prepareDataPlaneDispatchResources(job, rs) ==
    IF job.scratch THEN Each(rs, LAMBDA r : injectDataPlaneIntoResource(job, r)) ELSE rs

StorageRefused(job, rs) ==
    /\ job.mount \/ job.scratch
    /\ \/ \A r \in All(rs) : r.kind \notin PodKinds
       \/ \E r \in All(rs) : ~ensureStorageMountInContainer(r)

(* Labels of the placement profile overwrite the manifest's.                  *)
preparePlacementDispatchResources(job, rs) ==
    Each(rs, LAMBDA r : IF job.placed THEN [r EXCEPT !.label = "placement"] ELSE r)

(* The accelerator profile's node selector may not contradict the manifest's. *)
mergeAcceleratorNodeSelector(job, r) ==
    r.kind \in PodKinds /\ job.selector # "" => r.pin \in {"", job.selector}

prepareAcceleratorDispatchResources(job, rs) ==
    Each(rs, LAMBDA r : IF job.selector # "" /\ r.kind \in PodKinds
                          THEN Put([r EXCEPT !.pin = job.selector], "selector") ELSE r)

prepareNetworkDispatchResources(job, rs) ==
    Each(rs, LAMBDA r : IF job.network /\ r.kind \in PodKinds THEN Put(r, "network") ELSE r)

(* A streaming session needs the sidecar's image; a pod that brings its own   *)
(* sidecar is left alone.                                                     *)
streamSidecarConfigFromJob(job) == job.image

prepareStreamingDispatchResources(job, rs) ==
    Each(rs, LAMBDA r : IF job.streaming /\ podSpecPaths(r) /\ ~r.selkies
                          THEN Put(r, "sidecar") ELSE r)

-----------------------------------------------------------------------------
(* GPU claims                                                                *)

draValid(job) ==
    /\ job.gpus >= 0 /\ job.sm \in 0 .. 100      \* 0: not given
    /\ job.claim # "" => job.gpus >= 1
draEnabled(job) == job.gpus > 0 \/ job.claim # ""
jobRequestsDRA(job) == draValid(job) /\ draEnabled(job)

resourceNeedsTemplateDRA(r) == podSpecPaths(r) /\ r.gpu /\ ~r.claims

sharedClaimTemplateName(job) == <<"gpu-shared", job.gpus, job.sm>>

(* The job's claim by name, or a template that jobs of the same size share.   *)
draClaimName(job, rs) ==
    CASE job.claim # "" -> <<job.claim>>
      [] job.claim = "" /\ \E r \in All(rs) : resourceNeedsTemplateDRA(r) -> sharedClaimTemplateName(job)
      [] OTHER -> << >>

(* The claim takes the place of the GPU request in every container there is,  *)
(* the sidecar among them.                                                    *)
injectContainerDRAClaims(r) ==
    [r EXCEPT !.gpu = FALSE,
              !.puts = @ \cup {"claim"} \cup (IF "sidecar" \in @ THEN {"sidecarClaim"} ELSE {})]

injectDRAIntoResources(job, rs) ==
    IF draEnabled(job) /\ draClaimName(job, rs) # << >>
      THEN Each(rs, LAMBDA r : IF resourceNeedsTemplateDRA(r) THEN injectContainerDRAClaims(r) ELSE r)
      ELSE rs

-----------------------------------------------------------------------------
(* Manifests: an object, and the objects to create if that fails.            *)

LOCAL Manifest(o) == [object |-> o, fallback |-> << >>]

(* Objects carry the labels of the job, and so do their pods.                 *)
dispatchLabels(j) == [owner |-> j, limit |-> Shape(j).limit > 0]

(* The runtime limit caps the deadline of pods and batch Jobs.                *)
applyDispatchRuntimeLimit(j, r) ==
    LET limit == Shape(j).limit IN
    IF limit > 0 /\ r.kind \in {"Pod", "Job"} /\ (r.deadline = 0 \/ r.deadline > limit)
      THEN limit ELSE r.deadline

(* Claims need the default scheduler; otherwise the job names one.            *)
dispatchSchedulerName(job, kind) ==
    CASE jobRequestsDRA(job) -> "default"
      [] ~jobRequestsDRA(job) /\ job.scheduler # "" -> job.scheduler
      [] OTHER -> IF kind = "VCJob" THEN "volcano" ELSE "default"

(* Pods are told the priority class, and the queue if there is one.           *)
applyDispatchScheduling(job, r) ==
    [r EXCEPT !.puts = @ \cup {"priority"} \cup (IF job.queue THEN {"queue"} ELSE {})]

(* How many pods a resource stands for in a gang ...                          *)
batchJobReplicas(r) ==
    IF r.replicas > 0 THEN r.replicas ELSE IF r.completions > 0 THEN r.completions ELSE 1
nativeReplicaCount(r) == IF r.kind = "Deployment" /\ r.replicas > 0 THEN r.replicas ELSE 1

(* ... and how many Kubernetes makes of it.                                   *)
ReplicasMade(r) == IF r.kind # "Pod" /\ r.replicas >= 0 THEN r.replicas ELSE 1

DispatchedObject(j, kind, name) ==
    [scheduler |-> dispatchSchedulerName(Shape(j), kind),
     owner |-> dispatchLabels(j).owner, limit |-> dispatchLabels(j).limit,
     kind |-> kind, name |-> name, group |-> NoOwner, min |-> 0, deadline |-> 0,
     templates |-> {}]

(* A pod template, the nth made from resource r.                              *)
LOCAL Template(r, nth, pods) ==
    [source |-> r.name, nth |-> nth, pods |-> pods, label |-> r.label, puts |-> r.puts]

(* They win over those of the manifest and of placement.                      *)
mergePodTemplateLabels(j, r) == [r EXCEPT !.label = dispatchLabels(j).owner]

prepareDispatchManifestWithGroup(j, r, group) ==
    IF r.kind \in PodKinds
      THEN [DispatchedObject(j, r.kind, r.name) EXCEPT
              !.group = group, !.deadline = applyDispatchRuntimeLimit(j, r),
              !.templates = {Template(applyDispatchScheduling(Shape(j), mergePodTemplateLabels(j, r)),
                                      1, ReplicasMade(r))}]
      ELSE DispatchedObject(j, r.kind, r.name)

prepareDispatchManifest(j, r) == prepareDispatchManifestWithGroup(j, r, NoOwner)

buildResourceClaimTemplateManifest(job) ==
    [scheduler |-> "", owner |-> NoOwner, limit |-> FALSE, kind |-> "ResourceClaimTemplate",
     name |-> sharedClaimTemplateName(job), group |-> NoOwner, min |-> 0, deadline |-> 0,
     templates |-> {}]

draPrefix(job, rs) ==
    IF draEnabled(job) /\ job.claim = "" /\ draClaimName(job, rs) # << >>
      THEN <<Manifest(buildResourceClaimTemplateManifest(job))>> ELSE << >>

shouldSynthesizeVolcano(job) == job.scheduler = "volcano" /\ ~jobRequestsDRA(job)

LOCAL Total(rs) == MapThenSumSet(LAMBDA i : rs[i].replicas, DOMAIN rs)

(* A batch Job as a task, its template labelled; a deadline is dropped.       *)
volcanoTaskFromBatchJob(j, r) ==
    [applyDispatchScheduling(Shape(j), mergePodTemplateLabels(j, r)) EXCEPT
        !.deadline = 0, !.replicas = batchJobReplicas(r)]

(* One VCJob for all the batch Jobs, with every replica required.             *)
synthesizedVCJob(j, tasks) ==
    [DispatchedObject(j, "VCJob", j) EXCEPT !.min = Total(tasks),
                                  !.templates = {Template(r, 1, r.replicas) : r \in All(tasks)}]

synthesizedPodGroupWithMinMember(j, n) ==
    [DispatchedObject(j, "PodGroup", j) EXCEPT !.min = IF n < 1 THEN 1 ELSE n]

synthesizedPodGroupForTasks(j, tasks) == synthesizedPodGroupWithMinMember(j, Total(tasks))

synthesizedPodGroup(j, native) ==
    synthesizedPodGroupWithMinMember(j,
        MapThenSumSet(LAMBDA i : nativeReplicaCount(native[i]), DOMAIN native))

(* A fallback pod has the name of its Job if that has one replica.            *)
fallbackPodForTask(j, tasks, i, k) ==
    LET r == tasks[i] IN
    [DispatchedObject(j, "Pod", IF r.replicas = 1 THEN r.name ELSE <<j, i, k>>) EXCEPT
        !.group = j, !.templates = {Template(r, k, 1)}]

FallbackOncePerTask(j, tasks) ==
    [i \in DOMAIN tasks |-> fallbackPodForTask(j, tasks, i, 1)]

fallbackPodsForTasks(j, tasks) ==
    LET before(i) == MapThenSumSet(LAMBDA m : tasks[m].replicas, {m \in DOMAIN tasks : m < i})
        taskOf(n) == CHOOSE i \in DOMAIN tasks : before(i) < n /\ n <= before(i) + tasks[i].replicas
    IN  [n \in 1 .. Total(tasks) |-> fallbackPodForTask(j, tasks, taskOf(n), n - before(taskOf(n)))]

synthesizedVCJobFallbackManifests(j, tasks) ==
    <<synthesizedPodGroupForTasks(j, tasks)>> \o fallbackPodsForTasks(j, tasks)

(* Batch Jobs become tasks, pods and deployments join the group, and anything *)
(* else, a VCJob of the user's own included, is created as it is.             *)
prepareVolcanoDispatchManifests(j, rs) ==
    LET tasks == Each(SelectSeq(rs, LAMBDA r : r.kind = "Job"), LAMBDA r : volcanoTaskFromBatchJob(j, r))
        native == SelectSeq(rs, LAMBDA r : r.kind \in {"Pod", "Deployment"})
        extras == SelectSeq(rs, LAMBDA r : r.kind \notin {"Job", "Pod", "Deployment"})
        gang == IF tasks # << >>
                  THEN <<[object |-> synthesizedVCJob(j, tasks),
                          fallback |-> synthesizedVCJobFallbackManifests(j, tasks)]>>
                ELSE IF native # << >> THEN <<Manifest(synthesizedPodGroup(j, native))>>
                ELSE << >>
    IN  Each(extras, LAMBDA r : Manifest(prepareDispatchManifest(j, r)))
        \o gang
        \o Each(native, LAMBDA r : Manifest(prepareDispatchManifestWithGroup(j, r, j)))

(* The resources as the seven steps leave them.                               *)
prepareResources(job) ==
    LET mounts == prepareDataPlaneDispatchResources(job,
                      prepareStorageMountDispatchResources(job, job.resources))
        profiles == prepareNetworkDispatchResources(job,
                      prepareAcceleratorDispatchResources(job,
                        preparePlacementDispatchResources(job, mounts)))
    IN  prepareStreamingDispatchResources(job, profiles)

prepareError(job) ==
    \/ StorageRefused(job, job.resources)
    \/ \E r \in All(job.resources) : r.unsafe \/ ~mergeAcceleratorNodeSelector(job, r)
    \/ job.streaming /\ ~streamSidecarConfigFromJob(job)
    \/ ~draValid(job)

prepareDispatchManifests(j) ==
    LET job == Shape(j)
        rs == prepareResources(job)
        final == injectDRAIntoResources(job, rs)
    IN  draPrefix(job, rs) \o
        (IF shouldSynthesizeVolcano(job)
           THEN prepareVolcanoDispatchManifests(j, final)
           ELSE Each(final, LAMBDA r : Manifest(prepareDispatchManifest(j, r))))
-----------------------------------------------------------------------------
(* The dispatcher                                                            *)

LOCAL Resting == [pc |-> "idle", job |-> NoOwner, todo |-> << >>]

ManifestInit ==
    /\ admitted \in [DispatchJobs -> DOMAIN DispatchShapes]
    /\ dispatched = [j \in DispatchJobs |-> "waiting"]
    /\ kube = {}
    /\ dispatching = Resting
    /\ usurped = {}

(* Cleanup deletes by the job label, kind by kind, and goes on after an       *)
(* error; claim templates are not among the kinds.  left: kinds whose listing *)
(* or deletion failed.                                                        *)
CleanupKinds == PodKinds \cup {"StatefulSet", "Service", "PodGroup", "ConfigMap", "Secret", "Ingress"}

CleanupJobResources(j, left) ==
    kube' = {o \in kube : o.owner # j \/ o.kind \notin CleanupKinds \ left}

DispatchPrepare(j) ==
    /\ dispatching = Resting /\ dispatched[j] = "waiting"
    /\ dispatching' = [pc |-> IF prepareError(Shape(j)) THEN "refused" ELSE "create", job |-> j,
                       todo |-> IF prepareError(Shape(j)) THEN << >> ELSE prepareDispatchManifests(j)]
    /\ UNCHANGED <<admitted, dispatched, kube, usurped>>

(* An object that exists is taken for the one to be created.                  *)
ignoreAlreadyExists(o) == \E x \in kube : x.kind = o.kind /\ x.name = o.name
CreateByJSON(o) == IF ignoreAlreadyExists(o) THEN UNCHANGED kube ELSE kube' = kube \cup {o}

createdDispatchResource ==
    /\ dispatching.pc = "create" /\ dispatching.todo # << >>
    /\ LET o == Head(dispatching.todo).object
           other == {x \in kube : x.kind = o.kind /\ x.name = o.name /\ x.owner # o.owner}
       IN  /\ CreateByJSON(o)
           /\ usurped' = IF other = {} THEN usurped ELSE usurped \cup {dispatching.job}
    /\ dispatching' = [dispatching EXCEPT !.todo = Tail(@)]
    /\ UNCHANGED <<admitted, dispatched>>

(* Any error, a lost answer too, sends the dispatcher to the fallback.        *)
createDispatchManifest ==
    /\ dispatching.pc = "create" /\ dispatching.todo # << >>
    /\ LET m == Head(dispatching.todo) IN
       /\ UNCHANGED kube \/ CreateByJSON(m.object)
       /\ dispatching' = IF m.fallback # << >>
                           THEN [dispatching EXCEPT !.todo = Each(m.fallback, Manifest) \o Tail(@)]
                           ELSE [dispatching EXCEPT !.pc = "failed", !.todo = << >>]
    /\ UNCHANGED <<admitted, dispatched, usurped>>

(* Rollback ignores what cleanup reports.  The error decides whether the job  *)
(* is over or waits for another attempt.                                      *)
rollbackDispatch(left) ==
    LET j == dispatching.job IN
    /\ dispatching.pc \in {"refused", "failed"}
    /\ CleanupJobResources(j, left)
    /\ \E again \in BOOLEAN :
          /\ dispatching.pc = "refused" => ~again
          /\ dispatched' = [dispatched EXCEPT ![j] = IF again THEN "waiting" ELSE "over"]
    /\ dispatching' = Resting
    /\ UNCHANGED <<admitted, usurped>>

markDispatchedJobRunning ==
    /\ dispatching.pc = "create" /\ dispatching.todo = << >>
    /\ dispatched' = [dispatched EXCEPT ![dispatching.job] = "running"]
    /\ dispatching' = Resting
    /\ UNCHANGED <<admitted, kube, usurped>>

(* The process stops; its successor finds the job waiting.                    *)
DispatcherStops ==
    /\ dispatching # Resting
    /\ dispatching' = Resting
    /\ UNCHANGED <<admitted, dispatched, kube, usurped>>

(* A finished job's reaper, or an eviction, cleans up after it.               *)
JobEnds(j, left) ==
    /\ dispatched[j] = "running"
    /\ dispatched' = [dispatched EXCEPT ![j] = "over"]
    /\ CleanupJobResources(j, left)
    /\ UNCHANGED <<admitted, dispatching, usurped>>

LOCAL Left == {{}, {"Pod"}, {"VCJob", "PodGroup"}}

ManifestNext ==
    \/ \E j \in DispatchJobs : DispatchPrepare(j)
    \/ createdDispatchResource
    \/ createDispatchManifest
    \/ \E left \in Left : rollbackDispatch(left)
    \/ markDispatchedJobRunning
    \/ DispatcherStops
    \/ \E j \in DispatchJobs, left \in Left : JobEnds(j, left)

-----------------------------------------------------------------------------
ManifestTypeOK ==
    /\ admitted \in [DispatchJobs -> DOMAIN DispatchShapes]
    /\ dispatched \in [DispatchJobs -> {"waiting", "running", "over"}]
    /\ usurped \subseteq DispatchJobs
    /\ dispatching.pc \in {"idle", "refused", "create", "failed"}
    /\ dispatching.job \in DispatchJobs \cup {NoOwner}
    /\ \A x, y \in kube : x.kind = y.kind /\ x.name = y.name => x = y
    /\ \A o \in kube : o.owner \in DispatchJobs \cup {NoOwner}

LOCAL PodsOf(templates) == MapThenSumSet(LAMBDA t : t.pods, templates)
LOCAL Joining(group) ==
    MapThenSumSet(LAMBDA o : PodsOf(o.templates), {o \in kube : o.group = group})

(* What the steps of preparation owe the pods of one resource.                *)
LOCAL Owed(job, r) ==
    LET side == job.streaming /\ ~r.selkies /\ r.kind # "VCJob"
        claim == job.gpus > 0 /\ r.gpu /\ ~r.claims /\ r.kind # "VCJob"
        these == [priority |-> TRUE, queue |-> job.queue,
                  mount |-> job.mount, scratch |-> job.scratch, stageIn |-> job.scratch /\ job.stage,
                  selector |-> job.selector # "",
                  network |-> job.network, sidecar |-> side, claim |-> claim,
                  sidecarClaim |-> side /\ claim]
    IN  {k \in DOMAIN these : these[k]}

(* A job is marked running only when it can run whole and can be taken down   *)
(* again: every resource with pods is in the cluster in some form, be it as a *)
(* task of the VCJob or, after that could not be created, as fallback pods;   *)
(* its pods carry the job's label and, for a limited job, the label that the  *)
(* runtime reaper looks for, whatever labels placement or the manifest gave   *)
(* them (outside Volcano, a deadline within the limit too); they have         *)
(* everything the job was admitted with; group members are scheduled by       *)
(* Volcano, and no group of the job waits for more members than will join it, *)
(* unless the job runs as a VCJob beside what is left of a fallback or has a  *)
(* Deployment without replicas, which nativeReplicaCount counts as one.  Jobs *)
(* with a name that another object had are excepted: CreateByJSON takes that  *)
(* object for theirs.                                                         *)
DispatchedWhole ==
    \A j \in DispatchJobs : dispatched[j] = "running" /\ j \notin usurped =>
        LET job == Shape(j)
            mine == {o \in kube : o.owner = j}
        IN  /\ \A o \in mine :
                  /\ o.limit = (job.limit > 0)
                  /\ (o.limit /\ ~shouldSynthesizeVolcano(job) /\ o.kind \in {"Pod", "Job"})
                        => o.deadline \in 1 .. job.limit
                  /\ o.group # NoOwner => o.scheduler = "volcano"
            /\ \A r \in All(job.resources) :
                  IF r.kind \in PodKinds
                    THEN LET made == {t \in UNION {o.templates : o \in mine} : t.source = r.name} IN
                         /\ PodsOf(made) >= ReplicasMade(r)
                         /\ \A t \in made : t.label = j /\ Owed(job, r) \subseteq t.puts
                    ELSE \E o \in mine : o.kind = r.kind /\ o.name = r.name
            /\ \/ \E o \in mine : o.kind = "VCJob" /\ o.name = j
               \/ \E r \in All(job.resources) : r.kind = "Deployment" /\ r.replicas = 0
               \/ \A o \in mine : o.kind = "PodGroup" => o.min <= Joining(o.name)
=============================================================================
