------------------------------ MODULE Admission ------------------------------
(***************************************************************************)
(* What the scheduler decides about a submitted job: the review of         *)
(* schedulerquota/admission*.go, as operators on the request and on the    *)
(* records the review reads.  No state lives here.                         *)
(*                                                                         *)
(* GPU demand is counted in hundredths of a GPU, because a request may ask *)
(* for a percentage of the streaming multiprocessors of one.  A name that  *)
(* is not given is None, a number that is not given is 0 where the code    *)
(* treats both alike.                                                      *)
(***************************************************************************)
EXTENDS Integers, Sequences, FiniteSets, FiniteSetsExt

CONSTANTS
    Week,   \* length of a week on the model's clock
    Grace,  \* planWindowGracePeriod
    None    \* what is not given: unlike every name, number and record

ASSUME AdmissionAssumption ==
    /\ Grace \in Nat
    /\ None \notin {"no_active_plan", "validity_ended", "window_closed"}

Dims == {"gpu", "cpu", "mem"}

LOCAL SumOver(s, Op(_)) == MapThenSumSet(LAMBDA i : Op(s[i]), DOMAIN s)

LOCAL MaxOver(s, Op(_)) == Max({0} \cup {Op(s[i]) : i \in DOMAIN s})

-----------------------------------------------------------------------------
(* When a plan is open.                                                    *)

\* admissionWeekWindowsContain: a window within the week holds its start and
\* not its end; a plan without windows is always open.
WeekWindowsContain(windows, t) ==
    \/ windows = {}
    \/ \E w \in windows : /\ 0 <= w[1] /\ w[1] < w[2] /\ w[2] <= Week
                          /\ w[1] <= t % Week /\ t % Week < w[2]

\* planValidityExpired: both ends of the validity are part of it.
ValidityExpired(plan, t) == t < plan.from \/ t > plan.until

\* admissionPlanActive
PlanActive(plan, t) == ~ValidityExpired(plan, t) /\ WeekWindowsContain(plan.windows, t)

\* Mutant: the grace period is added to the time and not taken from it.
EvictionReasonEarly(plan, t) ==
    CASE plan = None                                         -> "no_active_plan"
      [] plan # None /\ ValidityExpired(plan, t)             -> "validity_ended"
      [] plan # None /\ ~ValidityExpired(plan, t)
           /\ ~WeekWindowsContain(plan.windows, t + Grace)   -> "window_closed"
      [] OTHER                                               -> None

\* planWindowEvictionReason: validity at this moment, the week at the moment
\* one grace period ago.
EvictionReason(plan, t) ==
    CASE plan = None                                         -> "no_active_plan"
      [] plan # None /\ ValidityExpired(plan, t)             -> "validity_ended"
      [] plan # None /\ ~ValidityExpired(plan, t)
           /\ ~WeekWindowsContain(plan.windows, t - Grace)   -> "window_closed"
      [] OTHER                                               -> None

-----------------------------------------------------------------------------
(* Resources of a manifest.                                                *)

\* A limit counts; a request counts where there is no limit.
ContainerDemand(c, d) == IF c.limits[d] > 0 THEN c.limits[d] ELSE c.requests[d]

\* Containers run together, init containers one after the other before them.
PodDemand(pod, d) ==
    Max({SumOver(pod.containers, LAMBDA c : ContainerDemand(c, d)),
         MaxOver(pod.inits, LAMBDA c : ContainerDemand(c, d))})

\* admissionExtractPodSpec: the pod template of a Pod, Deployment or Job.
HasPodSpec(o) == o.kind \in {"Pod", "Deployment", "Job"} /\ o.template # None

\* admissionResourcePodSpecs: all pod templates; the tasks of a Volcano job
\* come before a template.
PodSpecs(o) ==
    IF o.kind = "Job" /\ o.tasks # {} THEN o.tasks
    ELSE IF HasPodSpec(o) THEN {o.template} ELSE {}

\* gpuFraction over a ResourceClaim.
ClaimGPU(claim) ==
    IF claim.count < 1 THEN 0
    ELSE claim.count * (IF claim.sm \in 1..100 THEN claim.sm ELSE 100)

\* admissionPayloadGPU, admissionPayloadCPU and admissionPayloadMemory
PayloadDemand(o, d) ==
    IF o.kind \in {"ResourceClaim", "ResourceClaimTemplate"}
    THEN IF d = "gpu" THEN ClaimGPU(o.claim) ELSE 0
    ELSE IF HasPodSpec(o) THEN PodDemand(o.template, d) * o.replicas ELSE 0

SMPercentage(req) == IF req.sm = None THEN 100 ELSE req.sm

\* admissionResourceFloorFromRequest: at least what the manifests ask for,
\* and for GPUs at least what a claim over gpu_count would get.
ResourceFloor(req) ==
    [d \in Dims |->
        LET payload == SumOver(req.objects, LAMBDA o : PayloadDemand(o, d))
        IN  IF d = "gpu" /\ req.gpuCount > 0
            THEN Max({payload, req.gpuCount * SMPercentage(req)}) ELSE payload]

\* validateAdmissionResourceAccounting
AccountingValid(req) ==
    /\ \A d \in Dims : req.required[d] >= 0
    /\ req.gpuCount >= 0
    /\ req.sm # None => req.sm \in 1..100

\* rejectUnsupportedAdmissionKind, and the runtime socket and Secret rules
\* that are also applied before the review.
KindPolicy(req) ==
    LET objects == {req.objects[i] : i \in DOMAIN req.objects}
    IN  CASE \E o \in objects : \E p \in PodSpecs(o) : p.socket -> "socket"
          [] \E o \in objects : o.kind = "Secret"               -> "secret"
          [] \E o \in objects : o.kind \in {"CronJob", "DaemonSet", "StatefulSet",
                                            "ReplicaSet", "ReplicationController"} -> "kind"
          [] OTHER                                              -> "ok"

\* enforceAdmissionResourceFloor
FloorPolicy(req) ==
    IF ~AccountingValid(req) \/ KindPolicy(req) # "ok"
       \/ \E d \in Dims : req.required[d] < ResourceFloor(req)[d]
    THEN "floor" ELSE "ok"

-----------------------------------------------------------------------------
(* Images.                                                                 *)

\* allowedImageReferences: the images of enabled rules that are not deleted,
\* of this project or of every project.
AllowedImages(rules, project) ==
    {r.image : r \in {x \in rules : x.project \in {project, "*"} /\ ~x.deleted /\ x.enabled}}

\* admissionImagesFromRequest
RequestImages(req) ==
    UNION {p.images : p \in UNION {PodSpecs(req.objects[i]) : i \in DOMAIN req.objects}}

\* enforceAdmissionImageAllowList
ImagePolicy(req, checked, rules) ==
    IF checked /\ ~(RequestImages(req) \subseteq AllowedImages(rules, req.project))
    THEN "image" ELSE "ok"

-----------------------------------------------------------------------------
(* Access, queue and profiles.                                             *)

\* requireAdmissionProjectAccess: the project is personal, or the user is a
\* member with a role, or in the owning group.
AccessPolicy(project, user) ==
    IF user \in {project.personal} \cup project.members \cup project.ownerGroup
    THEN "ok" ELSE "access"

\* admissionQueueAllowed: a plan lists queue ids; a queue is named by its id
\* or by the name its record has now.
QueuePolicy(plan, queues, name) ==
    IF \E q \in plan.queues : q = name \/ (q \in DOMAIN queues /\ queues[q].name = name)
    THEN "ok" ELSE "queue"

\* admissionQueueByName: None when no record is there (an id a plan still
\* lists is enough to pass QueuePolicy).
QueueByName(queues, name) ==
    IF name \in DOMAIN queues THEN queues[name]
    ELSE IF \E q \in DOMAIN queues : queues[q].name = name
         THEN queues[CHOOSE q \in DOMAIN queues : queues[q].name = name] ELSE None

\* resolveAdmissionPlacementProfile and resolveAdmissionNetworkProfile: a
\* profile that is asked for has to be there and enabled.
PlacementPolicy(profiles, name) ==
    IF name # None /\ (name \notin DOMAIN profiles \/ ~profiles[name].enabled)
    THEN "placement" ELSE "ok"

NetworkPolicy(profiles, name) ==
    IF name # None /\ (name \notin DOMAIN profiles \/ ~profiles[name].enabled)
    THEN "network" ELSE "ok"

\* resolveAdmissionAcceleratorProfile, up to its defaults.
AcceleratorPolicy(profiles, req) ==
    IF /\ req.accelerator # None
       /\ \/ req.accelerator \notin DOMAIN profiles
          \/ ~profiles[req.accelerator].enabled
          \/ LET class == profiles[req.accelerator].class
             IN  class # None /\ req.device \notin {None, class}
    THEN "accelerator" ELSE "ok"

\* applyAcceleratorProfileDeviceClass and applyAcceleratorProfileMPSDefaults:
\* the request as the later rules see it.
WithAccelerator(profiles, req) ==
    IF req.accelerator = None THEN req
    ELSE LET p == profiles[req.accelerator]
         IN  [req EXCEPT !.device = IF @ = None THEN p.class ELSE @,
                         !.sm     = IF @ = None THEN p.sm ELSE @,
                         !.pinned = @ \/ p.pinned]

-----------------------------------------------------------------------------
(* GPU classes and sharing by MPS.                                         *)

DeviceOf(r) == IF r.device = None THEN "gpu.nvidia.com" ELSE r.device

AsksGPU(req) == req.required["gpu"] > 0 \/ req.gpuCount > 0

\* enforceAdmissionDeviceClass, and the class the later rules and the job see:
\* none where no GPU is asked for.
DevicePolicy(plan, req) ==
    IF AsksGPU(req) /\ DeviceOf(req) \notin plan.models THEN "device" ELSE "ok"

WithDevice(req) == [req EXCEPT !.device = IF AsksGPU(req) THEN DeviceOf(req) ELSE None]

\* admissionMPSRequested and admissionJobMPSRequested
MPSRequested(r) == (r.sm # None /\ r.sm < 100) \/ r.pinned

\* minPositive: 0 stands for no cap.
MinPositive(a, b) == IF a <= 0 THEN b ELSE IF b <= 0 \/ a < b THEN a ELSE b

\* admissionHasCrossProjectMPS: a job of another project shares this class.
CrossProjectMPS(req, active) ==
    \E j \in active : j.project # req.project /\ MPSRequested(j) /\ DeviceOf(j) = DeviceOf(req)

\* enforceAdmissionMPSPolicy: the plan's rule on sharing with a named project.
MPSSharePolicy(plan, req) ==
    IF /\ req.sm # None /\ req.sm < 100
       /\ \/ plan.mpsForbidden
          \/ req.share \notin {None, req.project} /\ ~plan.cross
    THEN "mps" ELSE "ok"

\* Mutant: the queue alone may permit sharing with another project.
MPSPolicyEither(project, plan, queue, req, active) ==
    LET cap == MinPositive(plan.cap, IF queue = None THEN 0 ELSE queue.cap)
    IN  IF /\ MPSRequested(req)
           /\ \/ ~plan.mps \/ (queue # None /\ ~queue.mps)
              \/ project.highSecurity
              \/ cap > 0 /\ SMPercentage(req) > cap
              \/ ~(plan.cross \/ queue = None \/ queue.cross) /\ CrossProjectMPS(req, active)
        THEN "mps" ELSE "ok"

\* enforceAdmissionMPSPlanQueuePolicy: plan, queue and project all have to
\* permit it, the tighter cap counts, and sharing needs plan and queue.
MPSPolicy(project, plan, queue, req, active) ==
    LET cap == MinPositive(plan.cap, IF queue = None THEN 0 ELSE queue.cap)
    IN  IF /\ MPSRequested(req)
           /\ \/ ~plan.mps \/ (queue # None /\ ~queue.mps)
              \/ project.highSecurity
              \/ cap > 0 /\ SMPercentage(req) > cap
              \/ ~(plan.cross /\ (queue = None \/ queue.cross)) /\ CrossProjectMPS(req, active)
        THEN "mps" ELSE "ok"

-----------------------------------------------------------------------------
(* Usage.                                                                  *)

\* activeAdmissionStatuses and queuedAdmissionStatuses
QueuedStatuses == {"submitted", "waiting_infra", "queued"}

CountedStatuses == QueuedStatuses \cup {"running"}

\* admissionUsageForJobs, over jobs with status: what one project and one
\* user hold, and how much is streamed platform-wide.
Usage(jobs, project, user) ==
    LET active == {j \in jobs : j.status \in CountedStatuses}
        ofProject == {j \in active : j.project = project}
        ofUser == {j \in ofProject : j.user = user}
        Total(S) == [d \in Dims |-> MapThenSumSet(LAMBDA j : j.required[d], S)]
        streams == {j \in active : j.streaming}
    IN  [project  |-> Total(ofProject),
         user     |-> Total(ofUser),
         running  |-> Cardinality({j \in ofUser : j.status = "running"}),
         queued   |-> Cardinality({j \in ofUser : j.status \in QueuedStatuses}),
         sessions |-> Cardinality(streams),
         bitrate  |-> MapThenSumSet(LAMBDA j : j.bitrate, streams)]

\* enforceAdmissionStreaming; caps are positive (applyAdmissionStreamConfig).
StreamPolicy(req, usage, caps) ==
    IF /\ req.streaming
       /\ \/ req.bitrate > caps.bitrate
          \/ usage.sessions >= caps.sessions
          \/ usage.bitrate + req.bitrate > caps.egress
    THEN "stream" ELSE "ok"

\* enforceAdmissionJobLimits; 0 is no limit.
JobLimitPolicy(project, usage) ==
    IF \/ project.maxRunning > 0 /\ usage.running >= project.maxRunning
       \/ project.maxQueued > 0 /\ usage.queued >= project.maxQueued
    THEN "jobs" ELSE "ok"

QuotaExceeded(used, requested, limit) == limit > 0 /\ used + requested > limit

\* enforceAdmissionQuota
QuotaPolicy(plan, req, usage) ==
    IF \E d \in Dims : QuotaExceeded(usage.project[d], req.required[d], plan.limit[d])
    THEN "quota" ELSE "ok"

\* enforceAdmissionUserQuota; a user without a quota record is not limited.
UserQuotaPolicy(quotas, req, usage) ==
    IF /\ <<req.project, req.user>> \in DOMAIN quotas
       /\ \E d \in Dims : QuotaExceeded(usage.user[d], req.required[d],
                                        quotas[<<req.project, req.user>>][d])
    THEN "quota" ELSE "ok"

-----------------------------------------------------------------------------

\* The first rule that does not pass, or "ok".
FirstDenial(rules) ==
    IF \A i \in DOMAIN rules : rules[i] = "ok" THEN "ok"
    ELSE rules[Min({i \in DOMAIN rules : rules[i] # "ok"})]

==============================================================================
