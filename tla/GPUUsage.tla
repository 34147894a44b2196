------------------------------ MODULE GPUUsage ------------------------------
(***************************************************************************)
(* GPU telemetry of jobs (services/gpuusage: collector.go, usage_drift.go). *)
(* A pass copies the rows of the cluster read model to snapshots, sums up   *)
(* the jobs that ended, compares what projects reserved with what they are  *)
(* seen to use, alerts, and drops snapshots that are too old.               *)
(*                                                                         *)
(* One collector runs at a time.  GPU amounts are in hundredths.           *)
(***************************************************************************)
EXTENDS Naturals, FiniteSets, FiniteSetsExt, Sequences, SequencesExt

CONSTANTS GPUJobs, GPUProjects,
          GPUProjectOf,    \* job -> project
          GPUReserved,     \* job -> what its record says is reserved, 0 for nothing
          GPUs,            \* devices a row may name
          NoGPU,           \* of a row that names none
          GPUUnits,        \* mps_virtual_units of a row, 0 for the whole device
          SnapshotWindow, Retention, MaxTick, MaxGPUFaults

VARIABLES gtick,     \* the time
          gjobs,     \* gpu_jobs: the status of each job
          gmodel,    \* podGpuUsages of the cluster read model
          gsnaps,    \* job_gpu_usage_snapshots
          gsummary,  \* job_gpu_usage_summaries
          galerts,   \* usage_drift_alerts; told counts the events of an alert
          gpass,     \* where the collector is
          gfaults, gever, glate   \* history

gpuVars == <<gtick, gjobs, gmodel, gsnaps, gsummary, galerts, gpass, gfaults, gever, glate>>
gpuHistory == <<gfaults, gever, glate>>

Material == "material_reservation_telemetry_divergence"
MissingFresh == "active_reserved_jobs_missing_fresh_snapshots"

NoUsage == [at |-> 0, seconds |-> 0]
NoAlert == [status |-> "none", print |-> << >>, told |-> 0]
GPUIdle == [pc |-> "idle", now |-> 0, jobs |-> << >>, todo |-> {}, alert |-> << >>, back |-> "idle"]

LOCAL Rows == [job : GPUJobs, gpu : GPUs \cup {NoGPU}, at : 1..MaxTick, units : GPUUnits \cup {0}]
LOCAL Monus(a, b) == IF a > b THEN a - b ELSE 0

GPUUsageInit ==
    /\ gtick = 1
    /\ gjobs = [j \in GPUJobs |-> "running"]
    /\ gmodel = {} /\ gsnaps = {}
    /\ gsummary = [j \in GPUJobs |-> NoUsage]
    /\ galerts = [a \in GPUProjects \X {Material, MissingFresh} |-> NoAlert]
    /\ gpass = GPUIdle
    /\ gfaults = 0 /\ gever = {} /\ glate = {}

-----------------------------------------------------------------------------
(***************************************************************************)
(* The environment: time, jobs that end, and the two writers of the model. *)
(***************************************************************************)

GPUTick ==
    /\ gtick < MaxTick /\ gtick' = gtick + 1
    /\ UNCHANGED <<gjobs, gmodel, gsnaps, gsummary, galerts, gpass, gpuHistory>>

GPUJobEnds(j) ==
    /\ gjobs[j] = "running"
    /\ \E s \in {"completed", "preempted"} : gjobs' = [gjobs EXCEPT ![j] = s]
    /\ UNCHANGED <<gtick, gmodel, gsnaps, gsummary, galerts, gpass, gpuHistory>>

\* An adapter reports the devices of some jobs, sampled now or a little ago;
\* a job may still hold its device when its record has ended.
Telemetry ==
    /\ \E sampled \in (SUBSET GPUJobs) \ {{}}, g \in GPUs, u \in GPUUnits, at \in Monus(gtick, 1)..gtick :
          /\ at > 0
          /\ gmodel' = {[job |-> j, gpu |-> g, at |-> at, units |-> u] : j \in sampled}
    /\ UNCHANGED <<gtick, gjobs, gsnaps, gsummary, galerts, gpass, gpuHistory>>

\* The cluster collector writes the same record, with rows of active pods
\* that name no device.
collectClusterResources ==
    /\ gmodel' = {[job |-> j, gpu |-> NoGPU, at |-> gtick, units |-> 0] : j \in {k \in GPUJobs : gjobs[k] = "running"}}
    /\ UNCHANGED <<gtick, gjobs, gsnaps, gsummary, galerts, gpass, gpuHistory>>

-----------------------------------------------------------------------------
(***************************************************************************)
(* Sums over snapshots.                                                    *)
(***************************************************************************)

LOCAL SumBy(f(_), S) == FoldSet(LAMBDA x, n : n + f(x), 0, S)

snapshotGPUUnits(row) == IF row.units > 0 THEN row.units ELSE 100

\* The middle one of the distances between the times, or one second.
medianInterval(times) ==
    LET ts == SetToSortSeq(times, <)
        ds == SortSeq([i \in 1..Len(ts) - 1 |-> ts[i + 1] - ts[i]], <)
    IN  IF Len(ts) < 2 THEN 1 ELSE ds[Len(ds) \div 2 + 1]

\* Each time counts until the next one, the last for a usual distance.
totalGPUSeconds(rows) ==
    LET times == {r.at : r \in rows}
        Lasts(t) == IF \E u \in times : u > t
                    THEN (CHOOSE u \in times : u > t /\ \A v \in times : v > t => u <= v) - t
                    ELSE medianInterval(times)
        UnitsAt(t) == SumBy(snapshotGPUUnits, {r \in rows : r.at = t})
    IN  SumBy(LAMBDA t : Lasts(t) * UnitsAt(t), times)

-----------------------------------------------------------------------------
(***************************************************************************)
(* The pass up to the summaries.                                           *)
(***************************************************************************)

LOCAL GPUGo(pc, todo) == gpass' = [gpass EXCEPT !.pc = pc, !.todo = todo]

\* A row that names no device is skipped.
normalizePodGPUUsage(rows) == {r \in rows : r.gpu # NoGPU}

collectGPUUsageTelemetry ==
    /\ gpass.pc = "idle"
    /\ gpass' = [GPUIdle EXCEPT !.pc = "snapshots", !.now = gtick, !.jobs = gjobs,
                                !.todo = normalizePodGPUUsage(gmodel)]
    /\ UNCHANGED <<gtick, gjobs, gmodel, gsnaps, gsummary, galerts, gpuHistory>>

\* A loop runs to its end, or the replica stops when a part is done.
StageDone(done, pc, todo) ==
    \/ done = gpass.todo /\ GPUGo(pc, todo) /\ UNCHANGED gfaults
    \/ done # gpass.todo /\ gfaults < MaxGPUFaults /\ gfaults' = gfaults + 1 /\ gpass' = GPUIdle

usageDriftJobActive(j) ==
    gpass.jobs[j] \in {"", "submitted", "waiting_infra", "queued", "pending", "scheduled", "dispatching", "running"}

\* Not before activeSnapshotCutoff.
SnapshotFresh(r) == r.at + SnapshotWindow >= gpass.now

\* The last fresh row of each device of each active job.
usageDriftLatestSnapshots ==
    LET fresh == {r \in gsnaps : SnapshotFresh(r) /\ usageDriftJobActive(r.job)}
    IN  {r \in fresh : \A s \in fresh : s.job = r.job /\ s.gpu = r.gpu => s.at <= r.at}

terminalGPUJobs == {j \in GPUJobs : gpass.jobs[j] \in {"succeeded", "completed", "failed", "cancelled", "canceled"}}

snapshotsForJob(j) == {r \in gsnaps : r.job = j}

\* As a bug would: a summary that exists is done with.
SummaryOnce(j) == gsummary[j] = NoUsage

\* A summary is computed again when there is a snapshot later than it.
summaryNeedsUpdate(j) ==
    \/ gsummary[j] = NoUsage
    \/ \E r \in snapshotsForJob(j) : r.at > gsummary[j].at

\* Of the metrics of a summary the seconds are kept here.
gpuSummaryData(j) == [at |-> gpass.now, seconds |-> totalGPUSeconds(snapshotsForJob(j))]

\* The id of a snapshot is its job, pod, device and time.
upsertGPUSnapshot(done) ==
    /\ gpass.pc = "snapshots"
    /\ LET Id(r) == <<r.job, r.gpu, r.at>>
           others(S) == {s \in S : \A r \in done : Id(s) # Id(r)}
       IN  gsnaps' = others(gsnaps) \cup done /\ gever' = others(gever) \cup done
    /\ glate' = glate \cup {r.job : r \in {s \in done : s.at <= gsummary[s.job].at}}
    /\ StageDone(done, "summaries", terminalGPUJobs)
    /\ UNCHANGED <<gtick, gjobs, gmodel, gsummary, galerts>>

computeGPUSummaries(done) ==
    /\ gpass.pc = "summaries"
    /\ gsummary' = [j \in GPUJobs |->
                      IF j \in done /\ snapshotsForJob(j) # {} /\ summaryNeedsUpdate(j)
                      THEN gpuSummaryData(j) ELSE gsummary[j]]
    /\ StageDone(done, "material", {GPUProjectOf[r.job] : r \in usageDriftLatestSnapshots})
    /\ UNCHANGED <<gtick, gjobs, gmodel, gsnaps, galerts, gever, glate>>

-----------------------------------------------------------------------------
(***************************************************************************)
(* Drift: what projects reserved and what they are seen to use.            *)
(***************************************************************************)

LatestOf(p) == {r \in usageDriftLatestSnapshots : GPUProjectOf[r.job] = p}

observedGPU(p) == SumBy(snapshotGPUUnits, LatestOf(p))

usageDriftJobReservedGPUFraction(j) == GPUReserved[j]

\* A row says at most the units it was given.
usageDriftRowReservedGPUFraction(r) == r.units

\* A job counts once; without a figure on its record its rows count instead.
reservedGPU(p) ==
    LET jobs == {r.job : r \in LatestOf(p)}
        bare == {r \in LatestOf(p) : usageDriftJobReservedGPUFraction(r.job) = 0}
    IN  SumBy(usageDriftJobReservedGPUFraction, jobs) + SumBy(usageDriftRowReservedGPUFraction, bare)

Apart(a, b) == Monus(a, b) + Monus(b, a)

\* A quarter of a GPU and a quarter of what is reserved.
usageDriftEventData(p) ==
    /\ Apart(reservedGPU(p), observedGPU(p)) >= 25
    /\ 4 * Apart(reservedGPU(p), observedGPU(p)) >= reservedGPU(p)

usageDriftActiveReservedJobs == {j \in GPUJobs : usageDriftJobActive(j) /\ usageDriftJobReservedGPUFraction(j) > 0}

usageDriftMissingFreshJobs(p) ==
    {j \in usageDriftActiveReservedJobs : GPUProjectOf[j] = p /\ \A r \in usageDriftLatestSnapshots : r.job # j}

usageDriftFingerprint(a) ==
    IF a[2] = Material THEN <<reservedGPU(a[1]), observedGPU(a[1])>>
    ELSE <<usageDriftMissingFreshJobs(a[1])>>

\* An alert that is active with the same print is not told again.  The new
\* state is stored first and the event is published after it.
upsertUsageDriftAlert(a) ==
    IF galerts[a].status = "active" /\ galerts[a].print = usageDriftFingerprint(a)
    THEN UNCHANGED galerts /\ GPUGo(gpass.pc, gpass.todo \ {a[1]})
    ELSE /\ galerts' = [galerts EXCEPT ![a] = [status |-> "active", print |-> usageDriftFingerprint(a), told |-> 0]]
         /\ gpass' = [gpass EXCEPT !.pc = "publish", !.todo = @ \ {a[1]}, !.alert = a, !.back = gpass.pc]

resolveUsageDriftAlert(a) ==
    galerts' = [galerts EXCEPT ![a].status = IF @ = "active" THEN "resolved" ELSE @]

\* Projects without fresh rows or without anything reserved are passed over.
detectUsageDrift(p) ==
    /\ gpass.pc = "material" /\ p \in gpass.todo
    /\ IF reservedGPU(p) = 0
       THEN UNCHANGED galerts /\ GPUGo("material", gpass.todo \ {p})
       ELSE IF usageDriftEventData(p)
       THEN upsertUsageDriftAlert(<<p, Material>>)
       ELSE /\ resolveUsageDriftAlert(<<p, Material>>)
            /\ GPUGo("material", gpass.todo \ {p})
    /\ UNCHANGED <<gtick, gjobs, gmodel, gsnaps, gsummary, gfaults, gever, glate>>

MaterialCompared ==
    /\ gpass.pc = "material" /\ gpass.todo = {}
    /\ GPUGo("missing", {p \in GPUProjects : usageDriftMissingFreshJobs(p) # {}})
    /\ UNCHANGED <<gtick, gjobs, gmodel, gsnaps, gsummary, galerts, gpuHistory>>

detectMissingFreshTelemetry(p) ==
    /\ gpass.pc = "missing" /\ p \in gpass.todo
    /\ upsertUsageDriftAlert(<<p, MissingFresh>>)
    /\ UNCHANGED <<gtick, gjobs, gmodel, gsnaps, gsummary, gfaults, gever, glate>>

\* The event is published, or the failure is logged.
publishUsageDriftDetected ==
    /\ gpass.pc = "publish"
    /\ \/ /\ galerts' = [galerts EXCEPT ![gpass.alert].told = @ + 1]
          /\ UNCHANGED gfaults
       \/ /\ gfaults < MaxGPUFaults /\ gfaults' = gfaults + 1
          /\ UNCHANGED galerts
    /\ gpass' = [gpass EXCEPT !.pc = gpass.back, !.alert = << >>]
    /\ UNCHANGED <<gtick, gjobs, gmodel, gsnaps, gsummary, gever, glate>>

\* Also when no job is active: then nothing is missing.
resolveInactiveMissingFreshTelemetryAlerts ==
    galerts' = [a \in DOMAIN galerts |->
                  IF a[2] = MissingFresh /\ galerts[a].status = "active" /\ usageDriftMissingFreshJobs(a[1]) = {}
                  THEN [galerts[a] EXCEPT !.status = "resolved"] ELSE galerts[a]]

MissingCompared ==
    /\ gpass.pc = "missing" /\ gpass.todo = {}
    /\ resolveInactiveMissingFreshTelemetryAlerts
    /\ GPUGo("cleanup", {})
    /\ UNCHANGED <<gtick, gjobs, gmodel, gsnaps, gsummary, gfaults, gever, glate>>

cleanupOldGPUSnapshots ==
    /\ gpass.pc = "cleanup"
    /\ gsnaps' = {r \in gsnaps : r.at + Retention >= gpass.now}
    /\ gpass' = GPUIdle
    /\ UNCHANGED <<gtick, gjobs, gmodel, gsummary, galerts, gpuHistory>>

\* The replica stops later in the pass.
CollectorCrash ==
    /\ gpass.pc \in {"material", "missing", "publish", "cleanup"} /\ gfaults < MaxGPUFaults
    /\ gfaults' = gfaults + 1
    /\ gpass' = GPUIdle
    /\ UNCHANGED <<gtick, gjobs, gmodel, gsnaps, gsummary, galerts, gever, glate>>

GPUUsageNext ==
    \/ GPUTick \/ Telemetry \/ collectClusterResources
    \/ collectGPUUsageTelemetry \/ MaterialCompared
    \/ MissingCompared \/ publishUsageDriftDetected \/ cleanupOldGPUSnapshots \/ CollectorCrash
    \/ \E j \in GPUJobs : GPUJobEnds(j)
    \/ \E p \in GPUProjects : detectUsageDrift(p) \/ detectMissingFreshTelemetry(p)
    \/ \E done \in SUBSET gpass.todo : upsertGPUSnapshot(done) \/ computeGPUSummaries(done)

GPUUsageTypeOK ==
    /\ gtick \in 1..MaxTick
    /\ gmodel \subseteq Rows /\ gsnaps \subseteq Rows /\ gever \subseteq Rows
    /\ \A j \in GPUJobs : gsummary[j].at \in 0..gtick
    /\ \A a \in DOMAIN galerts : galerts[a].status \in {"none", "active", "resolved"}

-----------------------------------------------------------------------------
\* A job that ended and whose samples came in time has a summary of every
\* sample that was within retention when the summary was computed.
SummaryComplete(j) ==
    LET all == {r \in gever : r.job = j}
        old == {r \in all : r.at + Retention < gsummary[j].at}
    IN  \E kept \in SUBSET old : gsummary[j].seconds = totalGPUSeconds((all \ old) \cup kept)

\* The alerts a project should have, as far as its fresh rows can tell.
AlertRight(a) ==
    LET should == IF a[2] = MissingFresh THEN usageDriftMissingFreshJobs(a[1]) # {} ELSE usageDriftEventData(a[1])
    IN  /\ (galerts[a].status = "active") <=> should
        /\ should => galerts[a].print = usageDriftFingerprint(a)

\* What a pass of the GPU collector leaves behind can be relied on (USAGE-029,
\* USAGE-032): ended jobs are summed up completely, also when samples arrive
\* after the job has ended and when earlier passes broke off; every alert is
\* active exactly while its reason lasts, with the jobs or amounts of now;
\* and an alert is told once for each state it takes, and not again, however
\* many passes find it unchanged.  Samples that arrive after a later summary
\* are not counted; material drift is not judged while a project has no
\* fresh rows; and an event that was not published is not published later.
TelemetryHonest ==
    /\ gpass.pc = "cleanup" =>
          /\ \A j \in terminalGPUJobs \ glate : snapshotsForJob(j) # {} => SummaryComplete(j)
          /\ \A a \in DOMAIN galerts : a[2] = MissingFresh \/ reservedGPU(a[1]) > 0 => AlertRight(a)
          /\ gfaults = 0 => \A a \in DOMAIN galerts : galerts[a].status = "active" => galerts[a].told = 1
    /\ \A a \in DOMAIN galerts : galerts[a].told <= 1
=============================================================================
