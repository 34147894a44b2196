---------------------------- MODULE JobLifecycle ----------------------------
(***************************************************************************)
(* The life of a job, from the quota reservation its submission makes to   *)
(* the release of that quota after the job has ended.                      *)
(*                                                                         *)
(* Everything that writes a job record or its Kubernetes objects is here,  *)
(* and runs concurrently with everything else:                             *)
(*   - the submit handler of each job (workload, job_submit.go);           *)
(*   - the maintenance goroutine of each workload replica, which runs the  *)
(*     dispatcher, the status reconciler, the runtime reaper and the idle  *)
(*     reaper one after the other;                                         *)
(*   - the plan-window reaper of each scheduler replica, which calls the   *)
(*     eviction contract of the workload service;                          *)
(*   - preemption requests in the scheduler, which call the preemption     *)
(*     contract of the workload service;                                   *)
(*   - Kubernetes.                                                         *)
(* A step is one access to the record store, to Kubernetes or to the other *)
(* service.  What a handler has read stays in its local state, so that a   *)
(* write may rest on a record that has changed since.                      *)
(***************************************************************************)
EXTENDS Naturals, FiniteSets, JobStatus

CONSTANTS
    Jobs,           \* job ids
    NoJob,          \* the job a process has in hand when it has none
    Replicas,       \* replicas of the workload service
    PlanReapers,    \* replicas of the scheduler service
    Preemptors,     \* preemption requests in the scheduler
    Priority,       \* priority_value of each job
    MaxJobsPerRun,  \* dispatcherMaxJobsPerRun
    RetryMax,       \* dispatcherRetryMaxAttempts
    MaxFaults       \* bound on crashes, lost messages and failed writes

Actors == Replicas \cup PlanReapers \cup Preemptors

ASSUME JobsAssumption == NoJob \notin Jobs /\ Priority \in [Jobs -> Nat]
ASSUME ActorsAssumption == /\ Replicas \cap PlanReapers = {}
                           /\ Replicas \cap Preemptors = {}
                           /\ PlanReapers \cap Preemptors = {}
ASSUME BoundsAssumption == /\ MaxJobsPerRun \in Nat \ {0}
                           /\ RetryMax \in Nat \ {0}
                           /\ MaxFaults \in Nat

VARIABLES
    sub,        \* where the submit handler of a job is
    status,     \* status of the job record
    retry,      \* retry_count of the job record
    due,        \* next_retry_at of the job record has passed
    aged,       \* the job record is older than staleJobGracePeriod
    objects,    \* Kubernetes objects that carry the job's label
    res,        \* state of the job's quota reservation
    inflight,   \* jobs with a release request on its way to the scheduler
    loc,        \* local state of every replica, reaper and request
    ended,      \* history: jobs that have had a terminal status
    rolledBack, \* history: jobs whose submission was rolled back
    lost,       \* history: jobs a fault has cost a release
    faults      \* number of faults so far

vars == <<sub, status, retry, due, aged, objects, res, inflight, loc,
          ended, rolledBack, lost, faults>>

record == <<status, retry, due, aged>>

SubmitStates == {"idle", "reserved", "committed", "done"}

Steps == {"idle", "loop", "mark", "defer", "fail", "rollbackFail",
          "rollbackDefer", "apply", "podSet", "guard", "markFailed",
          "evictMark", "evictCleanup", "preempt", "preemptMark", "release"}

Tasks == {"none", "dispatcher", "reconciler", "runtime", "idle", "stale",
          "evict", "preempt"}

\* The local state of a process: its next step, the task it runs, the jobs
\* still to do, the job in hand, the records as it listed them, and what it
\* has seen of the job in hand in Kubernetes.
Local == [pc : Steps, task : Tasks, todo : SUBSET Jobs, job : Jobs \cup {NoJob},
          status : [Jobs -> JobStatuses], retry : [Jobs -> Nat],
          seen : JobStatuses]

Idle == [pc |-> "idle", task |-> "none", todo |-> {}, job |-> NoJob,
         status |-> [j \in Jobs |-> "absent"], retry |-> [j \in Jobs |-> 0],
         seen |-> "absent"]

Init ==
    /\ sub = [j \in Jobs |-> "idle"]
    /\ status = [j \in Jobs |-> "absent"]
    /\ retry = [j \in Jobs |-> 0]
    /\ due = [j \in Jobs |-> FALSE]
    /\ aged = [j \in Jobs |-> FALSE]
    /\ objects = [j \in Jobs |-> "absent"]
    /\ res = [j \in Jobs |-> "none"]
    /\ inflight = {}
    /\ loc = [a \in Actors |-> Idle]
    /\ ended = {}
    /\ rolledBack = {}
    /\ lost = {}
    /\ faults = 0

-----------------------------------------------------------------------------
(* Helpers.                                                                *)

Fault == faults < MaxFaults /\ faults' = faults + 1

\* store.Update of the status: unconditional, whatever the record holds.
SetStatus(j, s) ==
    /\ status' = [status EXCEPT ![j] = s]
    /\ ended' = IF s \in TerminalStatuses THEN ended \cup {j} ELSE ended

Goto(a, step) == loc' = [loc EXCEPT ![a].pc = step]

Stop(a) == loc' = [loc EXCEPT ![a] = Idle]

\* Back to the head of the loop, for the next job.
Continue(a) ==
    loc' = [loc EXCEPT ![a] = [loc[a] EXCEPT !.pc = "loop", !.job = NoJob, !.seen = "absent"]]

\* Process a begins task t with the given jobs to go through.
Begin(a, t, jobs) ==
    /\ loc[a].pc = "idle"
    /\ loc' = [loc EXCEPT ![a] = [Idle EXCEPT !.pc = "loop", !.task = t, !.todo = jobs]]

\* The same, and the process keeps what it has listed: the statuses or the
\* retry counts.
BeginListed(a, t, jobs, statuses, retries) ==
    /\ loc[a].pc = "idle"
    /\ loc' = [loc EXCEPT ![a] = [Idle EXCEPT !.pc = "loop", !.task = t, !.todo = jobs,
                                  !.status = statuses, !.retry = retries]]

\* At the head of the loop of task t, j is a job still to do.
AtHead(a, t, j) == loc[a].pc = "loop" /\ loc[a].task = t /\ j \in loc[a].todo

\* Take job j in hand and go on with the given step.
Take(a, j, step) ==
    loc' = [loc EXCEPT ![a] = [loc[a] EXCEPT !.pc = step, !.job = j,
                               !.todo = loc[a].todo \ {j}]]

\* Pass over job j.
Skip(a, j) == loc' = [loc EXCEPT ![a].todo = loc[a].todo \ {j}]

\* CleanupJobResources: the objects are deleted and terminate in their own
\* time.
Cleanup(j) ==
    objects' = [objects EXCEPT ![j] = IF @ = "absent" THEN @ ELSE "terminating"]

\* Some deletion failed: the objects may be gone or may stay.
CleanupError(j) == Cleanup(j) \/ UNCHANGED objects

-----------------------------------------------------------------------------
(* The submit handler, from the admitted request on.                       *)

\* Mutant: the reservation is taken for committed.
SubmitReserveUncommitted(j) ==
    /\ sub[j] = "idle"
    /\ res' = [res EXCEPT ![j] = "reserved"]
    /\ sub' = [sub EXCEPT ![j] = "committed"]
    /\ UNCHANGED <<record, objects, inflight, loc, ended, rolledBack, lost, faults>>

SubmitReserve(j) ==
    /\ sub[j] = "idle"
    /\ res' = [res EXCEPT ![j] = "reserved"]
    /\ sub' = [sub EXCEPT ![j] = "reserved"]
    /\ UNCHANGED <<record, objects, inflight, loc, ended, rolledBack, lost, faults>>

\* The reservation is made but the answer never arrives: the handler knows
\* no id to release and gives up.
SubmitReserveLost(j) ==
    /\ sub[j] = "idle"
    /\ Fault
    /\ res' = [res EXCEPT ![j] = "reserved"]
    /\ sub' = [sub EXCEPT ![j] = "done"]
    /\ lost' = lost \cup {j}
    /\ UNCHANGED <<record, objects, inflight, loc, ended, rolledBack>>

SubmitCommit(j) ==
    /\ sub[j] = "reserved"
    /\ res' = [res EXCEPT ![j] = "committed"]
    /\ sub' = [sub EXCEPT ![j] = "committed"]
    /\ UNCHANGED <<record, objects, inflight, loc, ended, rolledBack, lost, faults>>

\* The commit fails, or its answer is lost: the handler asks for a release.
\* A commit that is still being served then may write after the release has
\* (see Reservation), and the quota stays committed.
SubmitCommitError(j) ==
    /\ sub[j] = "reserved"
    /\ Fault
    /\ \/ /\ \E s \in {"reserved", "committed"} : res' = [res EXCEPT ![j] = s]
          /\ inflight' = inflight \cup {j}
          /\ UNCHANGED lost
       \/ /\ res' = [res EXCEPT ![j] = "committed"]
          /\ lost' = lost \cup {j}
          /\ UNCHANGED inflight
    /\ sub' = [sub EXCEPT ![j] = "done"]
    /\ rolledBack' = rolledBack \cup {j}
    /\ UNCHANGED <<record, objects, loc, ended>>

SubmitCreate(j) ==
    /\ sub[j] = "committed"
    /\ SetStatus(j, "submitted")
    /\ sub' = [sub EXCEPT ![j] = "done"]
    /\ UNCHANGED <<retry, due, aged, objects, res, inflight, loc, rolledBack, lost, faults>>

\* CreateSubmittedJobWithEvent fails and the handler asks for a release.  The
\* record is there all the same when only the acknowledgement of the commit
\* was lost.
SubmitCreateError(j) ==
    /\ sub[j] = "committed"
    /\ Fault
    /\ SetStatus(j, "submitted") \/ UNCHANGED <<status, ended>>
    /\ sub' = [sub EXCEPT ![j] = "done"]
    /\ inflight' = inflight \cup {j}
    /\ rolledBack' = rolledBack \cup {j}
    /\ UNCHANGED <<retry, due, aged, objects, res, loc, lost>>

\* The process dies between two steps of the handler.
SubmitCrash(j) ==
    /\ sub[j] \in {"reserved", "committed"}
    /\ Fault
    /\ sub' = [sub EXCEPT ![j] = "done"]
    /\ lost' = lost \cup {j}
    /\ UNCHANGED <<record, objects, res, inflight, loc, ended, rolledBack>>

Submit(j) ==
    \/ SubmitReserve(j) \/ SubmitReserveLost(j) \/ SubmitCommit(j)
    \/ SubmitCommitError(j) \/ SubmitCreate(j) \/ SubmitCreateError(j)
    \/ SubmitCrash(j)

-----------------------------------------------------------------------------
(* The dispatcher of a workload replica.                                   *)

DispatchCandidates ==
    {j \in Jobs : \/ status[j] = "submitted"
                  \/ status[j] = "waiting_infra" /\ due[j]}

\* The first MaxJobsPerRun candidates in the order of their priority.
StartDispatcher(r) ==
    \E jobs \in SUBSET DispatchCandidates :
        /\ \/ jobs = DispatchCandidates
           \/ Cardinality(jobs) = MaxJobsPerRun
        /\ Cardinality(jobs) <= MaxJobsPerRun
        /\ \A j \in jobs, k \in DispatchCandidates \ jobs : Priority[j] >= Priority[k]
        /\ BeginListed(r, "dispatcher", jobs, Idle.status, retry)
        /\ UNCHANGED <<sub, record, objects, res, inflight, ended, rolledBack, lost, faults>>

DispatchNext(r, j) ==
    AtHead(r, "dispatcher", j) /\ \A k \in loc[r].todo : Priority[j] >= Priority[k]

\* The record has no namespace or no usable resources, or a plan is refused
\* for good: the job fails before anything is created.
DispatchReject(r) ==
    /\ \E j \in Jobs : DispatchNext(r, j) /\ Take(r, j, "fail")
    /\ UNCHANGED <<sub, record, objects, res, inflight, ended, rolledBack, lost, faults>>

\* No cluster, no namespace, or no storage or data-plane plan for now.
DispatchUnavailable(r) ==
    /\ \E j \in Jobs : DispatchNext(r, j) /\ Take(r, j, "defer")
    /\ UNCHANGED <<sub, record, objects, res, inflight, ended, rolledBack, lost, faults>>

\* Every manifest is created; one that exists already counts as created.
DispatchCreate(r) ==
    /\ \E j \in Jobs, o \in {"unscheduled", "queued"} :
        /\ DispatchNext(r, j)
        /\ Take(r, j, "mark")
        /\ objects' = [objects EXCEPT ![j] = IF @ = "absent" THEN o ELSE @]
    /\ UNCHANGED <<sub, record, res, inflight, ended, rolledBack, lost, faults>>

\* prepareDispatchManifests refuses the job: a resource of a kind or with a pod
\* spec that is not allowed, or a plan that does not fit.  What is rolled back
\* then is left from an earlier attempt.
DispatchPrepareError(r) ==
    /\ \E j \in Jobs : DispatchNext(r, j) /\ Take(r, j, "rollbackFail")
    /\ UNCHANGED <<sub, record, objects, res, inflight, ended, rolledBack, lost, faults>>

\* A manifest cannot be created, for good or for now, after others may have been.
DispatchCreateError(r) ==
    /\ \E j \in Jobs, o \in {"absent", "unscheduled", "queued"} :
        /\ DispatchNext(r, j)
        /\ \E step \in {"rollbackFail", "rollbackDefer"} : Take(r, j, step)
        /\ objects' = [objects EXCEPT ![j] = IF @ = "absent" THEN o ELSE @]
    /\ UNCHANGED <<sub, record, res, inflight, ended, rolledBack, lost, faults>>

\* rollbackDispatch: an error of the cleanup is only logged.
DispatchRollback(r) ==
    /\ \/ loc[r].pc = "rollbackFail"  /\ Goto(r, "fail")
       \/ loc[r].pc = "rollbackDefer" /\ Goto(r, "defer")
    /\ CleanupError(loc[r].job)
    /\ UNCHANGED <<sub, record, res, inflight, ended, rolledBack, lost, faults>>

\* Mutant: the last retry is one too many.
DispatchDeferOnceMore(r) ==
    LET j == loc[r].job
        n == loc[r].retry[j] + 1
    IN  /\ loc[r].pc = "defer"
        /\ n <= RetryMax
        /\ SetStatus(j, "waiting_infra")
        /\ retry' = [retry EXCEPT ![j] = n]
        /\ due' = [due EXCEPT ![j] = FALSE]
        /\ Continue(r)
        /\ UNCHANGED <<sub, aged, objects, res, inflight, rolledBack, lost, faults>>

\* Mutant: retry_count is not stored.
DispatchDeferUncounted(r) ==
    /\ loc[r].pc = "defer"
    /\ loc[r].retry[loc[r].job] + 1 < RetryMax
    /\ SetStatus(loc[r].job, "waiting_infra")
    /\ due' = [due EXCEPT ![loc[r].job] = FALSE]
    /\ Continue(r)
    /\ UNCHANGED <<sub, retry, aged, objects, res, inflight, rolledBack, lost, faults>>

\* deferDispatchForInfrastructure counts on from the listed record.
DispatchDefer(r) ==
    LET j == loc[r].job
        n == loc[r].retry[j] + 1
    IN  /\ loc[r].pc = "defer"
        /\ n < RetryMax
        /\ SetStatus(j, "waiting_infra")
        /\ retry' = [retry EXCEPT ![j] = n]
        /\ due' = [due EXCEPT ![j] = FALSE]
        /\ Continue(r)
        /\ UNCHANGED <<sub, aged, objects, res, inflight, rolledBack, lost, faults>>

DispatchRetriesExhausted(r) ==
    /\ loc[r].pc = "defer"
    /\ loc[r].retry[loc[r].job] + 1 >= RetryMax
    /\ Goto(r, "fail")
    /\ UNCHANGED <<sub, record, objects, res, inflight, ended, rolledBack, lost, faults>>

\* Mutant: the quota of a job that could not be dispatched is not released.
DispatchFailKeepsQuota(r) ==
    /\ loc[r].pc = "fail"
    /\ SetStatus(loc[r].job, "failed")
    /\ Continue(r)
    /\ UNCHANGED <<sub, retry, due, aged, objects, res, inflight, rolledBack, lost, faults>>

\* failDispatchedJob
DispatchFail(r) ==
    /\ loc[r].pc = "fail"
    /\ SetStatus(loc[r].job, "failed")
    /\ Goto(r, "release")
    /\ UNCHANGED <<sub, retry, due, aged, objects, res, inflight, rolledBack, lost, faults>>

\* The record could not be read before it was marked, so there is no
\* reservation id to release.
DispatchFailUnread(r) ==
    /\ loc[r].pc = "fail"
    /\ Fault
    /\ SetStatus(loc[r].job, "failed")
    /\ lost' = lost \cup {loc[r].job}
    /\ Continue(r)
    /\ UNCHANGED <<sub, retry, due, aged, objects, res, inflight, rolledBack>>

DispatchMarkRunning(r) ==
    /\ loc[r].pc = "mark"
    /\ SetStatus(loc[r].job, "running")
    /\ Continue(r)
    /\ UNCHANGED <<sub, retry, due, aged, objects, res, inflight, rolledBack, lost, faults>>

Dispatch(r) ==
    \/ DispatchReject(r) \/ DispatchUnavailable(r) \/ DispatchPrepareError(r)
    \/ DispatchCreate(r) \/ DispatchCreateError(r) \/ DispatchRollback(r) \/ DispatchDefer(r)
    \/ DispatchRetriesExhausted(r) \/ DispatchFail(r) \/ DispatchMarkRunning(r)

-----------------------------------------------------------------------------
(* The status reconciler of a workload replica.                            *)

StartReconciler(r) ==
    /\ BeginListed(r, "reconciler", {j \in Jobs : status[j] \in LiveStatuses},
                   status, Idle.retry)
    /\ UNCHANGED <<sub, record, objects, res, inflight, ended, rolledBack, lost, faults>>

\* NativeJobLifecycle finds no object: the record stays as it is.
ReconcileNotFound(r) ==
    /\ \E j \in Jobs : /\ AtHead(r, "reconciler", j)
                       /\ Lifecycle(objects[j]) = {}
                       /\ Skip(r, j)
    /\ UNCHANGED <<sub, record, objects, res, inflight, ended, rolledBack, lost, faults>>

ReconcileObserve(r) ==
    /\ \E j \in Jobs : /\ AtHead(r, "reconciler", j)
                       /\ \E s \in Lifecycle(objects[j]) :
                            loc' = [loc EXCEPT ![r] =
                                      [loc[r] EXCEPT !.pc = "apply", !.job = j, !.seen = s,
                                                     !.todo = loc[r].todo \ {j}]]
    /\ UNCHANGED <<sub, record, objects, res, inflight, ended, rolledBack, lost, faults>>

\* An error of the Kubernetes API ends the whole run.
ReconcileAbort(r) ==
    /\ \E j \in Jobs : AtHead(r, "reconciler", j)
    /\ Stop(r)
    /\ UNCHANGED <<sub, record, objects, res, inflight, ended, rolledBack, lost, faults>>

\* Mutant: the quota is released whatever status was seen.
ReconcileApplyReleases(r) ==
    /\ loc[r].pc = "apply"
    /\ IF loc[r].seen # loc[r].status[loc[r].job]
       THEN SetStatus(loc[r].job, loc[r].seen)
       ELSE UNCHANGED <<status, ended>>
    /\ Goto(r, "release")
    /\ UNCHANGED <<sub, retry, due, aged, objects, res, inflight, rolledBack, lost, faults>>

\* ApplyLifecycleObservation writes the status that was seen, when it differs
\* from the one that was listed.
ReconcileApply(r) ==
    /\ loc[r].pc = "apply"
    /\ IF loc[r].seen # loc[r].status[loc[r].job]
       THEN SetStatus(loc[r].job, loc[r].seen)
       ELSE UNCHANGED <<status, ended>>
    /\ IF loc[r].seen \in {"completed", "failed"} THEN Goto(r, "release") ELSE Continue(r)
    /\ UNCHANGED <<sub, retry, due, aged, objects, res, inflight, rolledBack, lost, faults>>

Reconcile(r) ==
    \/ ReconcileNotFound(r) \/ ReconcileObserve(r) \/ ReconcileAbort(r)
    \/ ReconcileApply(r)

-----------------------------------------------------------------------------
(* The runtime reaper and the idle reaper of a workload replica.           *)

\* ListRuntimeLimited, reduced to the jobs whose limit has run out.
StartRuntimeReaper(r) ==
    /\ \E jobs \in SUBSET {j \in Jobs : objects[j] # "absent"} : Begin(r, "runtime", jobs)
    /\ UNCHANGED <<sub, record, objects, res, inflight, ended, rolledBack, lost, faults>>

\* The interactive pods whose last activity is too long ago.
StartIdleReaper(r) ==
    /\ \E jobs \in SUBSET {j \in Jobs : HasPods(objects[j])} : Begin(r, "idle", jobs)
    /\ UNCHANGED <<sub, record, objects, res, inflight, ended, rolledBack, lost, faults>>

ReapCleanup(r) ==
    /\ \E j \in Jobs, t \in {"runtime", "idle"} :
        /\ AtHead(r, t, j)
        /\ \/ Cleanup(j)      /\ Take(r, j, "guard")
           \/ CleanupError(j) /\ Skip(r, j)
    /\ UNCHANGED <<sub, record, res, inflight, ended, rolledBack, lost, faults>>

\* existingJobPodSet: the pods are listed before the stale records are.
StaleListPods(r) ==
    /\ loc[r].pc = "loop" /\ loc[r].task = "idle" /\ loc[r].todo = {}
    /\ loc' = [loc EXCEPT ![r] = [Idle EXCEPT !.pc = "podSet", !.task = "stale",
                                  !.todo = {j \in Jobs : HasPods(objects[j])}]]
    /\ UNCHANGED <<sub, record, objects, res, inflight, ended, rolledBack, lost, faults>>

\* ListStaleJobCandidates, without the jobs that had a pod.
StaleListRecords(r) ==
    /\ loc[r].pc = "podSet"
    /\ loc' = [loc EXCEPT ![r] = [Idle EXCEPT !.pc = "loop", !.task = "stale",
                                  !.todo = {j \in Jobs : /\ status[j] \in StaleStatuses
                                                         /\ aged[j]
                                                         /\ j \notin loc[r].todo}]]
    /\ UNCHANGED <<sub, record, objects, res, inflight, ended, rolledBack, lost, faults>>

StaleNext(r) ==
    /\ \E j \in Jobs : AtHead(r, "stale", j) /\ Take(r, j, "guard")
    /\ UNCHANGED <<sub, record, objects, res, inflight, ended, rolledBack, lost, faults>>

\* Mutant: a job whose objects were deleted is failed whatever its status.
ReapGuardDropped(r) ==
    /\ loc[r].pc = "guard"
    /\ IF status[loc[r].job] # "absent" THEN Goto(r, "markFailed") ELSE Continue(r)
    /\ UNCHANGED <<sub, record, objects, res, inflight, ended, rolledBack, lost, faults>>

\* The read of markJobFailed and MarkFailedIfActive.
ReapGuard(r) ==
    /\ loc[r].pc = "guard"
    /\ IF status[loc[r].job] \in ActiveStatuses THEN Goto(r, "markFailed") ELSE Continue(r)
    /\ UNCHANGED <<sub, record, objects, res, inflight, ended, rolledBack, lost, faults>>

\* The write of MarkFailedIfActive.
ReapMarkFailed(r) ==
    /\ loc[r].pc = "markFailed"
    /\ SetStatus(loc[r].job, "failed")
    /\ Goto(r, "release")
    /\ UNCHANGED <<sub, retry, due, aged, objects, res, inflight, rolledBack, lost, faults>>

Reap(r) ==
    \/ ReapCleanup(r) \/ StaleListPods(r) \/ StaleListRecords(r) \/ StaleNext(r)
    \/ ReapGuard(r) \/ ReapMarkFailed(r)

-----------------------------------------------------------------------------
(* The plan-window reaper of a scheduler replica and the eviction contract  *)
(* of the workload service.                                                *)

\* The projects whose plan is closed, and the jobs that have pods there.
StartPlanReaper(p) ==
    /\ \E jobs \in SUBSET {j \in Jobs : HasPods(objects[j])} : Begin(p, "evict", jobs)
    /\ UNCHANGED <<sub, record, objects, res, inflight, ended, rolledBack, lost, faults>>

\* workloadEvictJob reads the record.  A job already evicted is confirmed and
\* cleaned up again; any other terminal status is a conflict, and the pods
\* are left alone.
EvictRead(p) ==
    /\ \E j \in Jobs :
        /\ AtHead(p, "evict", j)
        /\ \/ status[j] = "evicted" /\ Take(p, j, "evictCleanup")
           \/ status[j] \in TerminalStatuses \ {"evicted"} /\ Skip(p, j)
           \/ status[j] \notin TerminalStatuses /\ Take(p, j, "evictMark")
    /\ UNCHANGED <<sub, record, objects, res, inflight, ended, rolledBack, lost, faults>>

EvictMark(p) ==
    /\ loc[p].pc = "evictMark"
    /\ SetStatus(loc[p].job, "evicted")
    /\ Goto(p, "release")
    /\ UNCHANGED <<sub, retry, due, aged, objects, res, inflight, rolledBack, lost, faults>>

EvictCleanup(p) ==
    /\ loc[p].pc = "evictCleanup"
    /\ CleanupError(loc[p].job)
    /\ Continue(p)
    /\ UNCHANGED <<sub, record, res, inflight, ended, rolledBack, lost, faults>>

Evict(p) == EvictRead(p) \/ EvictMark(p) \/ EvictCleanup(p)

-----------------------------------------------------------------------------
(* A preemption request in the scheduler and the preemption contract of    *)
(* the workload service.                                                   *)

\* The victims: selected, then found still preemptible by the preflight.
StartPreemption(p) ==
    /\ \E jobs \in SUBSET {j \in Jobs : status[j] \in PreemptibleStatuses} :
        jobs # {} /\ Begin(p, "preempt", jobs)
    /\ UNCHANGED <<sub, record, objects, res, inflight, ended, rolledBack, lost, faults>>

\* executePreemption deletes the objects of the victim first.
PreemptCleanup(p) ==
    /\ \E j \in Jobs : /\ AtHead(p, "preempt", j)
                       /\ objects[j] # "absent"
                       /\ Cleanup(j)
                       /\ Take(p, j, "preempt")
    /\ UNCHANGED <<sub, record, res, inflight, ended, rolledBack, lost, faults>>

\* The cleanup fails, or finds nothing to delete: the request stops there.
PreemptCleanupError(p) ==
    /\ \E j \in Jobs : AtHead(p, "preempt", j) /\ CleanupError(j)
    /\ Stop(p)
    /\ UNCHANGED <<sub, record, res, inflight, ended, rolledBack, lost, faults>>

\* workloadPreemptJob reads the record; a conflict stops the request.  The
\* contract also confirms a job that the same preemption has ended, which no
\* request meets: each asks once for each victim.
PreemptRead(p) ==
    /\ loc[p].pc = "preempt"
    /\ IF status[loc[p].job] \in PreemptibleStatuses
       THEN Goto(p, "preemptMark")
       ELSE Stop(p)
    /\ UNCHANGED <<sub, record, objects, res, inflight, ended, rolledBack, lost, faults>>

PreemptMark(p) ==
    /\ loc[p].pc = "preemptMark"
    /\ SetStatus(loc[p].job, "preempted")
    /\ Goto(p, "release")
    /\ UNCHANGED <<sub, retry, due, aged, objects, res, inflight, rolledBack, lost, faults>>

Preempt(p) ==
    \/ PreemptCleanup(p) \/ PreemptCleanupError(p) \/ PreemptRead(p)
    \/ PreemptMark(p)

-----------------------------------------------------------------------------
(* Releasing the quota of a job that was marked terminal, and what all     *)
(* processes share.                                                        *)

\* releaseJobReservation sends the request and goes on whatever comes back:
\* an error is only logged.
Release(a) ==
    /\ loc[a].pc = "release"
    /\ inflight' = inflight \cup {loc[a].job}
    /\ IF a \in PlanReapers THEN Goto(a, "evictCleanup") ELSE Continue(a)
    /\ UNCHANGED <<sub, record, objects, res, ended, rolledBack, lost, faults>>

\* The same, but the scheduler that called the contract has timed out: the
\* plan reaper leaves the pods for its next cycle, a preemption stops.
ReleaseUnanswered(a) ==
    /\ loc[a].pc = "release"
    /\ Fault
    /\ inflight' = inflight \cup {loc[a].job}
    /\ \/ a \in PlanReapers /\ Continue(a)
       \/ a \in Preemptors  /\ Stop(a)
    /\ UNCHANGED <<sub, record, objects, res, ended, rolledBack, lost>>

\* The loop of a task is done.
EndOfTask(a) ==
    /\ loc[a].pc = "loop" /\ loc[a].todo = {} /\ loc[a].task # "idle"
    /\ Stop(a)
    /\ UNCHANGED <<sub, record, objects, res, inflight, ended, rolledBack, lost, faults>>

\* An access to the store fails.  The write is not made, nothing is released,
\* and a replica or reaper goes on with its next job; a preemption stops.
StoreError(a) ==
    /\ loc[a].pc \in {"mark", "defer", "fail", "apply", "guard", "markFailed",
                      "evictMark", "preemptMark"}
    /\ Fault
    /\ IF a \in Preemptors THEN Stop(a) ELSE Continue(a)
    /\ UNCHANGED <<sub, record, objects, res, inflight, ended, rolledBack, lost>>

\* The write that ended the job was made, but its acknowledgement is lost: the
\* process takes it for failed, and releases nothing.
AcknowledgementLost(a) ==
    /\ loc[a].pc = "release"
    /\ Fault
    /\ lost' = lost \cup {loc[a].job}
    /\ IF a \in Preemptors THEN Stop(a) ELSE Continue(a)
    /\ UNCHANGED <<sub, record, objects, res, inflight, ended, rolledBack>>

\* The process dies, or its request is cancelled.
Crash(a) ==
    /\ loc[a].pc # "idle"
    /\ Fault
    /\ Stop(a)
    /\ lost' = IF loc[a].pc = "release" THEN lost \cup {loc[a].job} ELSE lost
    /\ UNCHANGED <<sub, record, objects, res, inflight, ended, rolledBack>>

\* The scheduler serves a release request: handleReservationTransition.
DeliverRelease(j) ==
    /\ j \in inflight
    /\ inflight' = inflight \ {j}
    /\ res' = [res EXCEPT ![j] = IF transitionAllowed(@, "released") THEN "released" ELSE @]
    /\ UNCHANGED <<sub, record, objects, loc, ended, rolledBack, lost, faults>>

LoseRelease(j) ==
    /\ j \in inflight
    /\ Fault
    /\ inflight' = inflight \ {j}
    /\ lost' = lost \cup {j}
    /\ UNCHANGED <<sub, record, objects, res, loc, ended, rolledBack>>

Kubernetes(j) ==
    /\ \E o \in ObjectProgress(objects[j]) : objects' = [objects EXCEPT ![j] = o]
    /\ UNCHANGED <<sub, record, res, inflight, loc, ended, rolledBack, lost, faults>>

RetryDue(j) ==
    /\ status[j] = "waiting_infra" /\ ~due[j]
    /\ due' = [due EXCEPT ![j] = TRUE]
    /\ UNCHANGED <<sub, status, retry, aged, objects, res, inflight, loc, ended,
                   rolledBack, lost, faults>>

\* The record of the job becomes older than the grace period.
Age(j) ==
    /\ status[j] # "absent" /\ ~aged[j]
    /\ aged' = [aged EXCEPT ![j] = TRUE]
    /\ UNCHANGED <<sub, status, retry, due, objects, res, inflight, loc, ended,
                   rolledBack, lost, faults>>

-----------------------------------------------------------------------------

\* What a process does once a task has begun, when nothing goes wrong.
Step(a) ==
    \/ a \in Replicas /\ (Dispatch(a) \/ Reconcile(a) \/ Reap(a))
    \/ a \in PlanReapers /\ Evict(a)
    \/ a \in Preemptors /\ Preempt(a)
    \/ Release(a)
    \/ EndOfTask(a)

Start(a) ==
    \/ /\ a \in Replicas
       /\ \/ StartDispatcher(a) \/ StartReconciler(a)
          \/ StartRuntimeReaper(a) \/ StartIdleReaper(a)
    \/ a \in PlanReapers /\ StartPlanReaper(a)
    \/ a \in Preemptors /\ StartPreemption(a)

Failure(a) ==
    \/ a \in Replicas /\ DispatchFailUnread(a)
    \/ ReleaseUnanswered(a) \/ StoreError(a) \/ AcknowledgementLost(a) \/ Crash(a)

Next ==
    \/ \E j \in Jobs : \/ Submit(j) \/ DeliverRelease(j) \/ LoseRelease(j)
                       \/ Kubernetes(j) \/ RetryDue(j) \/ Age(j)
    \/ \E a \in Actors : Start(a) \/ Step(a) \/ Failure(a)

Spec == Init /\ [][Next]_vars

\* The maintenance loop runs every task again and again, and a task that has
\* begun goes on; requests to the scheduler are served; time passes.
Fairness ==
    /\ \A r \in Replicas : WF_vars(Step(r)) /\ SF_vars(StartDispatcher(r))
    /\ \A j \in Jobs : WF_vars(DeliverRelease(j)) /\ WF_vars(RetryDue(j))

FairSpec == Spec /\ Fairness

-----------------------------------------------------------------------------
(* Properties.                                                             *)

\* Every variable has its type.
TypeOK ==
    /\ sub \in [Jobs -> SubmitStates]
    /\ status \in [Jobs -> JobStatuses]
    /\ retry \in [Jobs -> Nat]
    /\ due \in [Jobs -> BOOLEAN]
    /\ aged \in [Jobs -> BOOLEAN]
    /\ objects \in [Jobs -> ObjectStates]
    /\ res \in [Jobs -> ReservationStates]
    /\ inflight \in SUBSET Jobs
    /\ loc \in [Actors -> Local]
    /\ ended \in SUBSET Jobs
    /\ rolledBack \in SUBSET Jobs
    /\ lost \in SUBSET Jobs
    /\ faults \in Nat

\* No Kubernetes object of a job exists unless quota has been committed for
\* the job, however the dispatcher, the handlers and the faults interleave:
\* submitJob reserves and commits before it creates the record, and the
\* dispatcher only applies what it has listed.
ReservedBeforeApply ==
    \A j \in Jobs : objects[j] # "absent" => res[j] \in {"committed", "released"}

\* The quota of a job is given back only after some process has marked the
\* job terminal, or after its submission was rolled back: no dispatcher,
\* reconciler, reaper, eviction or preemption releases the reservation of a
\* job that it has not ended.
ReleasedOnlyAfterEnd ==
    \A j \in Jobs : res[j] = "released" => j \in ended \cup rolledBack

\* Quota is never forgotten without a fault: a reservation that is held
\* belongs to a submission in progress, to a job that has not ended, or to a
\* release that is about to be sent or on its way, or else a crash, a failed
\* read or a lost message has cost its release (releaseJobReservation only
\* logs, and nothing retries).
QuotaAccounted ==
    \A j \in Jobs : res[j] \in {"reserved", "committed"} =>
        \/ sub[j] \in {"reserved", "committed"}
        \/ status[j] # "absent" /\ j \notin ended \cup rolledBack
        \/ j \in inflight \cup lost
        \/ \E a \in Actors : loc[a].pc = "release" /\ loc[a].job = j

\* The retry budget of the dispatcher holds although retry_count is taken
\* from a listed record that may be old: a stored count never reaches
\* dispatcherRetryMaxAttempts, and a job that waits has used some of it.
RetryBudget ==
    \A j \in Jobs : /\ retry[j] < RetryMax
                    /\ status[j] = "waiting_infra" => retry[j] > 0

\* A terminal status is final: no later listing, observation or mark changes
\* it.
TerminalIsFinal ==
    [][\A j \in Jobs : status[j] \in TerminalStatuses => status'[j] = status[j]]_vars

\* The eviction contract never overwrites an existing terminal status.
EvictionKeepsTerminal ==
    [][\A j \in Jobs : status[j] \in TerminalStatuses \ {"evicted"}
                          => status'[j] # "evicted"]_vars

\* The dispatcher gets every job off its queue: whatever the errors of the
\* cluster, a submitted job is started, or given up after its last retry.
SubmittedLeavesQueue ==
    \A j \in Jobs : status[j] = "submitted" ~> status[j] \notin {"submitted", "waiting_infra"}
=============================================================================
