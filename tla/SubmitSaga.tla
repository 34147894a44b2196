----------------------------- MODULE SubmitSaga -----------------------------
(***************************************************************************)
(* Submitting jobs against a catalog of queues and plans that changes      *)
(* meanwhile: submitJob of the workload service with the admission review  *)
(* it asks the scheduler for, and the scheduler's handlers for queues,     *)
(* plans and plan bindings.                                                *)
(*                                                                         *)
(* A handler takes its reads and writes one after the other, and other     *)
(* handlers run in between; width is how many handlers this behaviour lets *)
(* overlap.  Reserve and commit are one step here (Reservation and         *)
(* JobLifecycle have them apart); what happens to a job after it was       *)
(* created is reduced to what usage counts.  A listing of the record store *)
(* that fails in the middle gives what it read so far, and no error.       *)
(***************************************************************************)
EXTENDS Admission

CONSTANTS
    Handlers,       \* request handlers
    MaxWidth,       \* at most so many of them overlap
    Projects,       \* project ids
    QueueIds,       \* queue ids
    PlanIds,        \* plan ids
    QueueRecords,   \* queue records an administrator may write
    PlanRecords,    \* plan records an administrator may write
    ProfileRecords, \* accelerator, network and placement profiles likewise
    InitQueues,     \* the catalog at the start: queues,
    InitPlans,      \*   plans,
    InitProjects,   \*   projects
    InitProfiles,   \*   and the profiles every start seeds
    UserQuotas,     \* user quotas: <<project, user>> to limits
    Caps,           \* streaming caps of the configuration
    ImageRules,     \* allow-list rules; the check is on when there are any
    Requests,       \* submissions a client may send
    Times,          \* moments at which a review or a reaper runs
    MaxJobs,        \* bound: jobs created
    MaxChanges,     \* bound: catalog changes and reaper passes begun, plus width
    MaxFaults       \* bound: calls that fail, plus width

VARIABLES
    width,      \* handlers that may overlap
    queues,     \* queue records, by id
    plans,      \* plan records, by id
    projects,   \* project records; plan is the bound plan id or None
    profiles,   \* accelerator, network and placement profiles, by kind and name
    jobs,       \* job records
    quota,      \* ids of the jobs that hold a committed reservation
    h,          \* local state of every handler
    changes,    \* catalog changes and reaper passes begun
    faults,     \* calls that failed
    excused     \* history: the projects a pass of the reaper may evict

vars == <<width, queues, plans, projects, profiles, jobs, quota, h, changes, faults, excused>>

\* The fields of a request, and of a plan record with the queue ids it lists.
RequestFields ==
    {"user", "project", "key", "queue", "required", "gpuCount", "sm", "pinned", "share",
     "device", "accelerator", "network", "placement", "streaming", "bitrate", "objects"}

PlanShapes ==
    [from : Int, until : Int, windows : SUBSET (Int \X Int), queues : SUBSET QueueIds,
     limit : [Dims -> Int], models : SUBSET STRING, mpsForbidden : BOOLEAN, mps : BOOLEAN,
     cross : BOOLEAN, cap : Int]

ASSUME HandlersAssumption == IsFiniteSet(Handlers)

ASSUME TimesAssumption == Times \subseteq Int

\* A request that was decoded has every field, a plan record is no missing one,
\* and the catalog at the start is consistent.
ASSUME RecordsAssumption ==
    /\ \A r \in Requests : DOMAIN r = RequestFields
    /\ None \notin PlanShapes /\ PlanRecords \subseteq PlanShapes

ASSUME CatalogAssumption ==
    /\ \A l \in DOMAIN InitPlans :
         InitPlans[l] \in PlanShapes /\ InitPlans[l].queues \subseteq DOMAIN InitQueues
    /\ DOMAIN InitProjects = Projects
    /\ \A p \in Projects : /\ "plan" \in DOMAIN InitProjects[p]
                           /\ InitProjects[p].plan \in DOMAIN InitPlans \cup {None}

\* A handler that has answered; until then it has the request it serves and
\* what it has read.
Idle == [pc |-> "idle"]

HandlerPcs == {"idle", "check", "context", "usage", "preempt", "reserve", "create",
               "writePlan", "dropQueue", "bind", "unbind", "reap", "evict"}

Init ==
    /\ width \in 1..MaxWidth
    /\ queues = InitQueues
    /\ plans = InitPlans
    /\ projects = InitProjects
    /\ profiles = InitProfiles
    /\ jobs = {}
    /\ quota = {}
    /\ h = [x \in Handlers |-> Idle]
    /\ changes = 0
    /\ faults = 0
    /\ excused = [x \in Handlers |-> {}]

\* A handler that may start: the bound on overlap is not reached.
Free(x) ==
    /\ h[x].pc = "idle"
    /\ Cardinality({y \in Handlers : h[y].pc # "idle"}) < width

Becomes(x, local) == h' = [h EXCEPT ![x] = local]

Catalog == <<queues, plans, projects, profiles>>

PutRecord(f, k, v) == [i \in DOMAIN f \cup {k} |-> IF i = k THEN v ELSE f[i]]

DropRecord(f, k) == [i \in DOMAIN f \ {k} |-> f[i]]

-----------------------------------------------------------------------------
(* Submissions.                                                            *)

\* sought is history: the lookup of the idempotency key went through all jobs.
Submission(pc, r, retried, sought) ==
    [pc |-> pc, req |-> r, retried |-> retried, sought |-> sought]

\* What a submission that passed the review goes on with; complete says
\* whether the review saw every job.
Reviewed(l, pc, complete) ==
    [pc |-> pc, req |-> l.req, plan |-> l.plan, queue |-> l.queue, seen |-> l.seen,
     complete |-> complete, sought |-> l.sought]

\* The jobs List may give: all of them, or after an error those it has read by
\* then, in the order of their creation.
Listings == {{j \in jobs : j.id <= n} : n \in 0..Cardinality(jobs)}

\* A listing that is not complete is a call that failed.
Listed(listed) ==
    /\ listed \in Listings
    /\ listed # jobs => faults + width <= MaxFaults
    /\ faults' = IF listed = jobs THEN faults ELSE faults + 1

\* buildSubmittedJob, requireProjectAccess and decoding: a request that is
\* well formed gets a job id and goes on.
SubmitStart(x) ==
    /\ Free(x)
    /\ Cardinality(jobs) < MaxJobs
    /\ \E r \in Requests :
        Becomes(x, Submission("check", r, FALSE, FALSE))
    /\ UNCHANGED <<width, Catalog, jobs, quota, changes, faults>>

SameKey(j, r) == r.key # None /\ j.key = r.key /\ j.user = r.user

\* Mutant: the lookup is by key and project, and misses.
SubmitCheckMissing(x) ==
    /\ h[x].pc = "check"
    /\ Becomes(x, Submission("context", h[x].req, FALSE, TRUE))
    /\ UNCHANGED <<width, Catalog, jobs, quota, changes, faults>>

\* submitJobIdempotencyResult: the same key with the same fingerprint
\* answers with the job that is there, with another one a conflict; a job that
\* the listing does not show is none.
SubmitCheck(x) ==
    /\ h[x].pc = "check"
    /\ LET r == h[x].req
       IN  \/ r.key = None /\ Becomes(x, Submission("context", r, FALSE, TRUE)) /\ UNCHANGED faults
          \/ /\ r.key # None
             /\ \E listed \in Listings :
                 /\ Listed(listed)
                 /\ IF \E j \in listed : SameKey(j, r)
                    THEN Becomes(x, Idle)
                    ELSE Becomes(x, Submission("context", r, FALSE, listed = jobs))
    /\ UNCHANGED <<width, Catalog, jobs, quota, changes>>

\* The first half of evaluateSubmitAdmission at moment t: project, plan,
\* access, queue, images and profiles.  The plan and the queue are kept.
SubmitContext(x) ==
    /\ h[x].pc = "context"
    /\ \E t \in Times :
        LET r == h[x].req
            project == projects[r.project]
            planOk == project.plan \in DOMAIN plans /\ PlanActive(plans[project.plan], t)
            plan == plans[project.plan]
            verdict == FirstDenial(
                << KindPolicy(r),
                   IF planOk THEN "ok" ELSE "plan",
                   AccessPolicy(project, r.user),
                   IF planOk THEN QueuePolicy(plan, queues, r.queue) ELSE "queue",
                   ImagePolicy(r, ImageRules # {}, ImageRules),
                   PlacementPolicy(profiles.placement, r.placement),
                   AcceleratorPolicy(profiles.accelerator, r) >>)
        IN  \/ verdict # "ok" /\ Becomes(x, Idle)
            \/ /\ verdict = "ok"
               /\ Becomes(x, [pc |-> "usage", req |-> r, retried |-> h[x].retried,
                              sought |-> h[x].sought, project |-> project, plan |-> plan,
                              queue |-> QueueByName(queues, r.queue),
                              seen |-> WithAccelerator(profiles.accelerator, r)])
    /\ UNCHANGED <<width, Catalog, jobs, quota, changes, faults>>

\* Mutant: usage is counted for running jobs only.
UsagePoliciesRunning(x, listed) ==
    LET l == h[x]
        r == l.seen
        dev == WithDevice(r)
        usage == Usage({j \in listed : j.status = "running"}, r.project, r.user)
        active == {j \in listed : j.status \in CountedStatuses}
    IN  FirstDenial(
            << DevicePolicy(l.plan, r), MPSSharePolicy(l.plan, dev),
               MPSPolicy(l.project, l.plan, l.queue, dev, active),
               NetworkPolicy(profiles.network, r.network), FloorPolicy(r),
               StreamPolicy(r, usage, Caps), JobLimitPolicy(l.project, usage),
               QuotaPolicy(l.plan, r, usage), UserQuotaPolicy(UserQuotas, r, usage) >>)

\* enforceAdmissionProfilePolicies and applyAdmissionUsagePolicies
UsagePolicies(x, listed) ==
    LET l == h[x]
        r == l.seen
        dev == WithDevice(r)
        usage == Usage(listed, r.project, r.user)
        active == {j \in listed : j.status \in CountedStatuses}
    IN  FirstDenial(
            << DevicePolicy(l.plan, r), MPSSharePolicy(l.plan, dev),
               MPSPolicy(l.project, l.plan, l.queue, dev, active),
               NetworkPolicy(profiles.network, r.network), FloorPolicy(r),
               StreamPolicy(r, usage, Caps), JobLimitPolicy(l.project, usage),
               QuotaPolicy(l.plan, r, usage), UserQuotaPolicy(UserQuotas, r, usage) >>)

\* shouldAutoPreemptAdmissionDenial and schedulerPreemptionPayload: only a
\* quota is worth a preemption, once, for a queue with a priority and for a
\* GPU or CPU demand.
ShouldPreempt(x, verdict) ==
    /\ verdict = "quota" /\ ~h[x].retried
    /\ h[x].queue # None /\ h[x].queue.priority > 0
    /\ h[x].req.required["gpu"] > 0 \/ h[x].req.required["cpu"] > 0

\* The second half of the review, over the jobs ListWorkloadJobs gives.  A
\* review that cannot be asked for at all is an error.
SubmitUsage(x) ==
    /\ h[x].pc = "usage"
    /\ \E listed \in Listings :
        LET verdict == UsagePolicies(x, listed)
        IN  /\ Listed(listed)
            /\ \/ verdict = "ok"
                  /\ Becomes(x, Reviewed(h[x], "reserve", listed = jobs))
               \/ verdict # "ok" /\ ShouldPreempt(x, verdict)
                  /\ Becomes(x, [pc |-> "preempt", req |-> h[x].req, queue |-> h[x].queue,
                                 sought |-> h[x].sought])
               \/ verdict # "ok" /\ ~ShouldPreempt(x, verdict) /\ Becomes(x, Idle)
    /\ UNCHANGED <<width, Catalog, jobs, quota, changes>>

\* Jobs a preemption may end for a request of this priority.
Victims(r, priority) ==
    {j \in jobs : j.status = "running" /\ j.preemptible /\ j.priority < priority}

\* autoPreemptAndRetryAdmission: a completed preemption has ended jobs and
\* given their quota back, and the review is asked again; any other outcome
\* answers the first denial.
SubmitPreempt(x) ==
    /\ h[x].pc = "preempt"
    /\ \/ /\ Becomes(x, Idle)
          /\ UNCHANGED <<jobs, quota>>
       \/ \E V \in SUBSET Victims(h[x].req, h[x].queue.priority) \ {{}} :
            /\ jobs' = (jobs \ V) \cup {[j EXCEPT !.status = "preempted"] : j \in V}
            /\ quota' = quota \ {j.id : j \in V}
            /\ Becomes(x, Submission("context", h[x].req, TRUE, h[x].sought))
    /\ UNCHANGED <<width, Catalog, changes, faults>>

\* reserveAndCommitSubmittedJobQuota; an error leaves nothing that is held
\* (what a lost answer leaves is JobLifecycle's subject).
SubmitReserve(x) ==
    /\ h[x].pc = "reserve"
    /\ \/ /\ Becomes(x, Reviewed(h[x], "create", h[x].complete))
          /\ UNCHANGED faults
       \/ /\ faults + width <= MaxFaults
          /\ faults' = faults + 1
          /\ Becomes(x, Idle)
    /\ UNCHANGED <<width, Catalog, jobs, quota, changes>>

\* applyAdmissionReview: the record of the submitted job.  limit, cross,
\* complete and sought are history: what the submission went by.
NewJob(x, id) ==
    LET l == h[x]
        r == l.seen
        dev == WithDevice(r)
    IN  [id |-> id, key |-> l.req.key, print |-> l.req, user |-> r.user, project |-> r.project,
         status |-> "submitted", required |-> r.required, device |-> dev.device, sm |-> r.sm,
         pinned |-> r.pinned, streaming |-> r.streaming, bitrate |-> r.bitrate,
         priority |-> IF l.queue = None THEN 0 ELSE l.queue.priority,
         preemptible |-> l.queue # None /\ l.queue.preemptible,
         limit |-> l.plan.limit, complete |-> l.complete, sought |-> l.sought,
         cross |-> l.plan.cross /\ (l.queue = None \/ l.queue.cross)]

\* CreateSubmittedJobWithEvent, or its rollback: the reservation is released.
SubmitCreate(x) ==
    /\ h[x].pc = "create"
    /\ \/ LET j == NewJob(x, Cardinality(jobs) + 1)
          IN  /\ jobs' = jobs \cup {j}
              /\ quota' = quota \cup {j.id}
              /\ Becomes(x, Idle)
              /\ UNCHANGED faults
       \/ /\ faults + width <= MaxFaults
          /\ faults' = faults + 1
          /\ Becomes(x, Idle)
          /\ UNCHANGED <<jobs, quota>>
    /\ UNCHANGED <<width, Catalog, changes>>

-----------------------------------------------------------------------------
(* What happens to jobs meanwhile.                                         *)

\* The dispatcher starts a job; a running job ends and gives its quota back.
JobProgress(j) ==
    \/ /\ j.status = "submitted"
       /\ jobs' = (jobs \ {j}) \cup {[j EXCEPT !.status = "running"]}
       /\ UNCHANGED quota
    \/ /\ j.status = "running"
       /\ jobs' = (jobs \ {j}) \cup {[j EXCEPT !.status = "completed"]}
       /\ quota' = quota \ {j.id}

Environment ==
    /\ \E j \in jobs : JobProgress(j)
    /\ UNCHANGED <<width, Catalog, h, changes, faults>>

-----------------------------------------------------------------------------
(* The catalog.  A change that reads before it writes does so in two steps.*)

Change(x) == Free(x) /\ changes + width <= MaxChanges /\ changes' = changes + 1

\* createQueue: an id that is taken is a conflict.
CreateQueue(x) ==
    /\ Change(x)
    /\ \E q \in QueueIds \ DOMAIN queues, r \in QueueRecords : queues' = PutRecord(queues, q, r)
    /\ UNCHANGED <<width, plans, projects, profiles, jobs, quota, h, faults>>

\* updateQueue: another name changes what the queue is called from then on.
UpdateQueue(x) ==
    /\ Change(x)
    /\ \E q \in DOMAIN queues, r \in QueueRecords : queues' = PutRecord(queues, q, r)
    /\ UNCHANGED <<width, plans, projects, profiles, jobs, quota, h, faults>>

\* MissingQueues found none, and the plan is to be written next.
QueuesChecked(x, p, r) ==
    /\ r.queues \subseteq DOMAIN queues
    /\ Becomes(x, [pc |-> "writePlan", id |-> p, plan |-> r,
                   fresh |-> p \notin DOMAIN plans])

\* createPlan, updatePlan and bindPlanQueues, first half: every queue id has
\* to be there.
CreatePlan(x) ==
    /\ Change(x)
    /\ \E p \in PlanIds \ DOMAIN plans, r \in PlanRecords : QueuesChecked(x, p, r)
    /\ UNCHANGED <<width, Catalog, jobs, quota, faults>>

UpdatePlan(x) ==
    /\ Change(x)
    /\ \E p \in DOMAIN plans, r \in PlanRecords : QueuesChecked(x, p, r)
    /\ UNCHANGED <<width, Catalog, jobs, quota, faults>>

BindPlanQueues(x) ==
    /\ Change(x)
    /\ \E p \in DOMAIN plans, Q \in SUBSET QueueIds :
        QueuesChecked(x, p, [plans[p] EXCEPT !.queues = Q])
    /\ UNCHANGED <<width, Catalog, jobs, quota, faults>>

\* Second half: the record is written, unless a new id is taken or an old
\* one is gone by now.
WritePlan(x) ==
    /\ h[x].pc = "writePlan"
    /\ LET ok == h[x].fresh = (h[x].id \notin DOMAIN plans)
       IN  /\ plans' = IF ok THEN PutRecord(plans, h[x].id, h[x].plan) ELSE plans
           /\ Becomes(x, Idle)
    /\ UNCHANGED <<width, queues, projects, profiles, jobs, quota, changes, faults>>

\* deleteQueueWithEvent: the plans are listed outside of the transaction that
\* deletes the queue and writes their shorter lists; a listing that fails
\* gives some of them or none.
ReadPlansOf(x) ==
    /\ Change(x)
    /\ \E q \in DOMAIN queues, read \in SUBSET DOMAIN plans :
        LET listing == {p \in read : q \in plans[p].queues}
        IN  /\ read # DOMAIN plans => faults + width <= MaxFaults
            /\ faults' = IF read = DOMAIN plans THEN faults ELSE faults + 1
            /\ Becomes(x, [pc |-> "dropQueue", id |-> q,
                           lists |-> [p \in listing |-> plans[p].queues \ {q}]])
    /\ UNCHANGED <<width, Catalog, jobs, quota>>

\* Mutant: the plans keep the id of the deleted queue.
DropQueueOnly(x) ==
    /\ h[x].pc = "dropQueue"
    /\ queues' = DropRecord(queues, h[x].id)
    /\ Becomes(x, Idle)
    /\ UNCHANGED <<width, plans, projects, profiles, jobs, quota, changes, faults>>

DropQueue(x) ==
    /\ h[x].pc = "dropQueue"
    /\ LET l == h[x].lists
       IN  IF h[x].id \in DOMAIN queues
           THEN /\ queues' = DropRecord(queues, h[x].id)
                /\ plans' = [p \in DOMAIN plans |-> IF p \in DOMAIN l
                                                   THEN [plans[p] EXCEPT !.queues = l[p]]
                                                   ELSE plans[p]]
           ELSE UNCHANGED <<queues, plans>>
    /\ Becomes(x, Idle)
    /\ UNCHANGED <<width, projects, profiles, jobs, quota, changes, faults>>

\* bindPlanToProject: the plan is looked up, and then the owner of the
\* project is asked to write the binding.
CheckBinding(x) ==
    /\ Change(x)
    /\ \E p \in Projects, l \in DOMAIN plans :
        Becomes(x, [pc |-> "bind", project |-> p, id |-> l])
    /\ UNCHANGED <<width, Catalog, jobs, quota, faults>>

\* bindProjectPlan at its owner, or a call that fails.
Bind(x) ==
    /\ h[x].pc = "bind"
    /\ \/ /\ projects' = [projects EXCEPT ![h[x].project].plan = h[x].id]
          /\ Becomes(x, Idle)
          /\ UNCHANGED faults
       \/ /\ faults + width <= MaxFaults
          /\ faults' = faults + 1
          /\ Becomes(x, Idle)
          /\ UNCHANGED projects
    /\ UNCHANGED <<width, queues, plans, profiles, jobs, quota, changes>>

\* deletePlanWithEvent; the bindings are cleared afterwards.
DeletePlan(x) ==
    /\ Change(x)
    /\ \E l \in DOMAIN plans :
        /\ plans' = DropRecord(plans, l)
        /\ Becomes(x, [pc |-> "unbind", id |-> l])
    /\ UNCHANGED <<width, queues, projects, profiles, jobs, quota, faults>>

\* unbindPlanFromProjects and clearProjectsPlan: a failure is only logged.
Unbind(x) ==
    /\ h[x].pc = "unbind"
    /\ \/ /\ projects' = [p \in Projects |-> IF projects[p].plan = h[x].id
                                             THEN [projects[p] EXCEPT !.plan = None]
                                             ELSE projects[p]]
          /\ UNCHANGED faults
       \/ /\ faults + width <= MaxFaults
          /\ faults' = faults + 1
          /\ UNCHANGED projects
    /\ Becomes(x, Idle)
    /\ UNCHANGED <<width, queues, plans, profiles, jobs, quota, changes>>

\* An update of a profile that is not there creates it.
ProfileChange(x, kind) ==
    /\ Change(x)
    /\ \/ \E p \in ProfileRecords[kind] :
            profiles' = [profiles EXCEPT ![kind] = PutRecord(@, p.name, p)]
       \/ \E n \in DOMAIN profiles[kind] :
            profiles' = [profiles EXCEPT ![kind] = DropRecord(@, n)]
    /\ UNCHANGED <<width, queues, plans, projects, jobs, quota, h, faults>>

\* createAcceleratorProfile, updateAcceleratorProfile, deleteAcceleratorProfile
AcceleratorProfile(x) == ProfileChange(x, "accelerator")

\* createNetworkProfile, updateNetworkProfile, deleteNetworkProfile
NetworkProfile(x) == ProfileChange(x, "network")

\* createPlacementProfile, updatePlacementProfile, deletePlacementProfile
PlacementProfile(x) == ProfileChange(x, "placement")

\* seedDefaultAcceleratorProfiles and its siblings, at every start of the
\* service: a default that is missing is created, one that is there is kept.
SeedProfiles ==
    /\ profiles' = [k \in DOMAIN profiles |->
                      [n \in DOMAIN profiles[k] \cup DOMAIN InitProfiles[k] |->
                          IF n \in DOMAIN profiles[k] THEN profiles[k][n] ELSE InitProfiles[k][n]]]
    /\ UNCHANGED <<width, queues, plans, projects, jobs, quota, h, changes, faults>>

-----------------------------------------------------------------------------
(* The reaper of plan windows.                                             *)

\* What a pass holds: the moment it began and the projects it has not seen
\* yet, with the plans they were bound to when they were listed.
Pass(now, left) == [pc |-> "reap", now |-> now, left |-> left]

\* reapExpiredPlanWindowsWithReader lists the projects.
ReapStart(x) ==
    /\ Change(x)
    /\ \E t \in Times : Becomes(x, Pass(t, [p \in Projects |-> projects[p].plan]))
    /\ UNCHANGED <<width, Catalog, jobs, quota, faults>>

\* planWindowEvictionReason of the next project: the plan is read now, the
\* binding was read with the listing.  A read that fails finds no plan.
ReapProject(x) ==
    /\ h[x].pc = "reap"
    /\ \E p \in DOMAIN h[x].left, missed \in BOOLEAN :
        LET id == h[x].left[p]
            plan == IF id \in DOMAIN plans /\ ~missed THEN plans[id] ELSE None
            rest == DropRecord(h[x].left, p)
        IN  /\ missed => id # None /\ faults + width <= MaxFaults
            /\ faults' = IF missed THEN faults + 1 ELSE faults
            /\ Becomes(x, IF EvictionReason(plan, h[x].now) = None
                          THEN Pass(h[x].now, rest)
                          ELSE [pc |-> "evict", now |-> h[x].now, left |-> rest,
                                project |-> p, missed |-> missed])
    /\ UNCHANGED <<width, Catalog, jobs, quota, changes>>

\* evictProjectJobs: jobs of the project that have pods, as far as namespaces
\* and pods can be listed and the owner of the jobs agrees.
ReapEvict(x) ==
    /\ h[x].pc = "evict"
    /\ \E E \in SUBSET {j \in jobs : j.project = h[x].project /\ j.status = "running"} :
        /\ jobs' = (jobs \ E) \cup {[j EXCEPT !.status = "evicted"] : j \in E}
        /\ quota' = quota \ {j.id : j \in E}
    /\ Becomes(x, Pass(h[x].now, h[x].left))
    /\ UNCHANGED <<width, Catalog, changes, faults>>

\* The last project is done, the listing was cut short, or the process ends.
ReapEnd(x) ==
    /\ h[x].pc = "reap"
    /\ Becomes(x, Idle)
    /\ UNCHANGED <<width, Catalog, jobs, quota, changes, faults>>

Reap(x) == ReapProject(x) \/ ReapEvict(x) \/ ReapEnd(x)

\* The plan of a project is open by the rule of admission, for the whole of
\* the grace period that ends at t.
OpenUntil(p, t) ==
    /\ projects[p].plan \in DOMAIN plans
    /\ \A u \in (t - Grace)..t : PlanActive(plans[projects[p].plan], u)

\* History: since the pass of x began, the project was bound anew or its plan
\* was not open.
Excuse ==
    excused' = [x \in Handlers |->
        IF h'[x].pc \in {"reap", "evict"}
        THEN excused[x] \cup {p \in Projects : \/ projects'[p].plan # projects[p].plan
                                              \/ ~OpenUntil(p, h[x].now)'}
        ELSE {}]

-----------------------------------------------------------------------------

Submit(x) ==
    \/ SubmitCheck(x) \/ SubmitContext(x) \/ SubmitUsage(x) \/ SubmitPreempt(x)
    \/ SubmitReserve(x) \/ SubmitCreate(x)

Finish(x) == WritePlan(x) \/ DropQueue(x) \/ Bind(x) \/ Unbind(x)

Begin(x) ==
    \/ SubmitStart(x) \/ CreateQueue(x) \/ UpdateQueue(x) \/ ReadPlansOf(x)
    \/ CreatePlan(x) \/ UpdatePlan(x) \/ BindPlanQueues(x) \/ DeletePlan(x) \/ CheckBinding(x)
    \/ AcceleratorProfile(x) \/ NetworkProfile(x) \/ PlacementProfile(x) \/ ReapStart(x)

Next ==
    /\ \/ Environment \/ SeedProfiles
       \/ \E x \in Handlers : Begin(x) \/ Submit(x) \/ Finish(x) \/ Reap(x)
    /\ Excuse

Spec == Init /\ [][Next]_vars

-----------------------------------------------------------------------------
(* Properties.                                                             *)

\* Handlers are in one of their steps, ids are unique, and only jobs that
\* count as usage hold quota.
TypeOK ==
    /\ width \in 1..MaxWidth
    /\ DOMAIN queues \subseteq QueueIds /\ DOMAIN plans \subseteq PlanIds
    /\ \A x \in Handlers : h[x].pc \in HandlerPcs
    /\ \A i, j \in jobs : i.id = j.id => i = j
    /\ quota = {j.id : j \in {i \in jobs : i.status \in CountedStatuses}}

\* A job that was just created, alone and after a complete listing, fits:
\* the project does not use more than the plan it was reviewed by permits.
QuotaKept ==
    [][\A j \in jobs' : j.id \notin {i.id : i \in jobs} /\ j.complete /\ width = 1 =>
          \A d \in Dims : j.limit[d] > 0 => Usage(jobs', j.project, j.user).project[d] <= j.limit[d]]_vars

\* The service description promises the same without conditions: "every
\* resource consumption must reserve before dispatch, eliminating TOCTOU".
QuotaAlwaysKept ==
    [][\A j \in jobs' : j.id \notin {i.id : i \in jobs} /\ j.complete =>
          \A d \in Dims : j.limit[d] > 0 => Usage(jobs', j.project, j.user).project[d] <= j.limit[d]]_vars

\* Submissions that do not overlap keep what the review relies on, whatever
\* happens to the jobs and the catalog in between: an idempotency key of a user
\* stands for one job, unless the lookup of a later one was cut short (List
\* gives no error, so a retry may then create the job again), and after
\* complete listings jobs of two projects share GPUs of one class by MPS only
\* if the later one was permitted to by plan and queue.
SerialSubmissions ==
    width = 1 =>
        /\ \A i, j \in jobs :
            i.key # None /\ i.key = j.key /\ i.user = j.user /\ i.id < j.id => ~j.sought
        /\ \A i, j \in jobs :
            /\ i.id < j.id /\ i.project # j.project
            /\ {i.status, j.status} \subseteq CountedStatuses
            /\ MPSRequested(i) /\ MPSRequested(j) /\ DeviceOf(i) = DeviceOf(j)
            /\ j.complete
            => j.cross

\* While nothing is under way, with no overlap and no failed call, plans list
\* queues that exist and projects are bound to plans that exist: the checks
\* before a write and the cascades after a delete are complete.
CatalogConsistent ==
    (width = 1 /\ faults = 0 /\ \A x \in Handlers : h[x].pc = "idle") =>
        /\ \A p \in DOMAIN plans : plans[p].queues \subseteq DOMAIN queues
        /\ \A p \in Projects : projects[p].plan \in DOMAIN plans \cup {None}

\* A pass of the reaper decides to evict the jobs of a project only if, at some
\* moment since the pass listed the projects, the project was bound anew or its
\* plan was not open for the whole grace period by the rule admission goes by,
\* or if its plan could not be read (GetPlan does not tell a failed read from a
\* plan that is gone): the stale binding, the plan read later and the grace of
\* the window never evict a project that admission would have let submit all
\* along.
EvictionEarned ==
    \A x \in Handlers :
        h[x].pc = "evict" => h[x].missed \/ h[x].project \in excused[x]

\* The comment on planWindowEvictionReason: it "returns an eviction reason
\* for a project, or "" when its plan is active".
ActivePlanNotEvicted ==
    \A p \in DOMAIN plans, t \in Times :
        PlanActive(plans[p], t) => EvictionReason(plans[p], t) = None

==============================================================================
