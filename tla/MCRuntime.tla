---- MODULE MCRuntime ----
(***************************************************************************)
(* What happens to a job between the dispatcher and the cluster, on one    *)
(* small instance: the manifests that are created, preemption, the         *)
(* telemetry of its GPUs, and its resource hours.  They share no state     *)
(* here, so in each behaviour one moves: focus names it.                   *)
(* MCSubmit adds the submission before them and is what TLC runs.          *)
(***************************************************************************)
EXTENDS DispatchManifests, Preemption, GPUUsage, ResourceHours, TLC

VARIABLE focus

runtimeVars == <<manifestVars, preemptVars, gpuVars, hourVars>>

(***************************************************************************)
(* Manifests: the jobs that are dispatched.                                *)
(***************************************************************************)

CONSTANTS NameA, NameB, NameC,   \* names of Kubernetes objects
          SecondJob              \* a job of DispatchJobs with few shapes

Res(kind, name, n) ==
    [kind |-> kind, name |-> name, replicas |-> n, completions |-> -1, label |-> "user",
     gpu |-> FALSE, claims |-> FALSE, selkies |-> FALSE, pin |-> "", pathUsed |-> FALSE,
     unsafe |-> FALSE, deadline |-> 0, puts |-> {}]

PlainJob ==
    [resources |-> << >>, mount |-> FALSE, scratch |-> FALSE, stage |-> FALSE, placed |-> FALSE,
     selector |-> "", network |-> FALSE, streaming |-> FALSE, image |-> TRUE, gpus |-> 0, sm |-> 0,
     claim |-> "", scheduler |-> "", queue |-> FALSE, limit |-> 0]

Gang ==
    [PlainJob EXCEPT !.resources = <<Res("Job", NameA, 2), Res("Service", NameB, -1),
                                     [Res("Job", NameC, -1) EXCEPT !.completions = 1]>>,
                     !.queue = TRUE, !.scheduler = "volcano", !.placed = TRUE,
                     !.limit = 2, !.network = TRUE]

Mixed ==
    [PlainJob EXCEPT !.resources = <<Res("Job", NameA, 1), Res("Pod", NameB, 1), Res("VCJob", NameC, 2)>>,
                     !.scheduler = "volcano", !.mount = TRUE, !.scratch = TRUE, !.stage = TRUE]

Native ==
    [PlainJob EXCEPT !.resources = <<Res("Deployment", NameA, 2), Res("Pod", NameC, -1)>>,
                     !.scheduler = "volcano", !.selector = "a"]

Stream ==
    [PlainJob EXCEPT !.resources = <<[Res("Pod", NameA, 1) EXCEPT !.gpu = TRUE, !.deadline = 3],
                                     [Res("Job", NameB, 1) EXCEPT !.gpu = TRUE, !.selkies = TRUE, !.deadline = 1]>>,
                     !.streaming = TRUE, !.gpus = 1, !.limit = 2]

\* The last five are refused, each for a reason of its own.
MCShapes ==
    [gang |-> Gang, mixed |-> Mixed, native |-> Native, stream |-> Stream,
     claimed |-> [Stream EXCEPT !.resources[2].claims = TRUE, !.claim = "own", !.scheduler = "volcano"],
     none |-> [Native EXCEPT !.resources[1].replicas = 0],
     pinned |-> [Native EXCEPT !.resources[2].pin = "b"],
     share |-> [Stream EXCEPT !.sm = 101],
     noImage |-> [Stream EXCEPT !.image = FALSE],
     path |-> [Mixed EXCEPT !.resources[2].pathUsed = TRUE],
     socket |-> [Gang EXCEPT !.resources[1].unsafe = TRUE]]

ManifestPart ==
    /\ focus = "dispatch"
    /\ UNCHANGED <<preemptVars, gpuVars, hourVars>>
    /\ ManifestNext

(***************************************************************************)
(* Preemption: three running jobs and one that waits; one caller asks for  *)
(* the waiting job, the other overrides with figures of its own.           *)
(***************************************************************************)

CONSTANTS pj1, pj2, pj3, pr1, pk1, pk2, FirstCaller

RunningJob(prio, gpu, cpu, created, rank) ==
    [project |-> "p", class |-> "", priority |-> prio, gpu |-> gpu, cpu |-> cpu, created |-> created,
     rank |-> rank, preemptible |-> FALSE, queuePreemptible |-> FALSE, status |-> "running"]

MCPreemptJobs ==
       pj1 :> RunningJob(1, 1, 0, 1, 1)
    @@ pj2 :> RunningJob(1, 2, 0, 0, 2)
    @@ pj3 :> [RunningJob(3, 1, 4, 0, 3) EXCEPT !.queuePreemptible = TRUE]
    @@ pr1 :> [RunningJob(5, 2, 4, 2, 4) EXCEPT !.status = "queued"]

Ask(key, requester, prio, gpu, max) ==
    [key |-> key, requester |-> requester, project |-> "", class |-> "", priority |-> prio,
     gpu |-> gpu, cpu |-> 0, max |-> max, admin |-> TRUE]

MCPreemptAsks ==
    {Ask(pk1, pr1, 0, 0, 0), Ask(pk2, NoJob, 4, 3, 2), Ask(pk2, NoJob, 2, 1, 1),
     Ask(pk2, NoJob, 0, 0, 1), Ask(pk2, pj1, 0, 0, 1)}

PreemptPart ==
    /\ focus = "preempt"
    /\ UNCHANGED <<manifestVars, gpuVars, hourVars>>
    /\ PreemptNext
    /\ Cardinality({j \in DOMAIN PreemptJobs : pstatus'[j] = "completed"}) <= 1
    /\ preq'[FirstCaller].pc # "idle" => preq'[FirstCaller].ask.key = pk1

(***************************************************************************)
(* Telemetry: the record of one job says what it reserved, that of the     *)
(* other does not.  A pass reads time, jobs and model when it begins and   *)
(* not again, so it is enough to change them between passes.  The second   *)
(* job goes on running; its rows come with those of the first, in time,    *)
(* while the first runs and in behaviours without a fault.                 *)
(***************************************************************************)

CONSTANTS uj1, uj2, up1

MCGPUProjectOf == uj1 :> up1 @@ uj2 :> up1
MCGPUReserved == uj1 :> 100 @@ uj2 :> 0

GPUPart ==
    /\ focus = "gpu"
    /\ UNCHANGED <<manifestVars, preemptVars, hourVars>>
    /\ GPUUsageNext
    /\ gpass.pc # "idle" => UNCHANGED <<gtick, gjobs, gmodel>>
    /\ gjobs'[uj2] = "running"
    /\ \A r \in gmodel' : r.job = uj2 /\ r.gpu # NoGPU => gjobs[uj1] = "running"
    /\ \A r \in gmodel' \ gmodel :
          /\ r.at < gtick => gjobs[r.job] # "running"
          /\ r.job = uj2 /\ r.gpu # NoGPU => r.at = gtick /\ r.units = 50 /\ Cardinality(gmodel') = 2
    /\ gjobs' # gjobs => \A r \in gever : r.job # uj2
    /\ gfaults' > 0 => gtick' < MaxTick /\ \A r \in gever' \cup gmodel' : r.job # uj2

(***************************************************************************)
(* Resource hours.  The second collector only overlaps the first.  The     *)
(* second pod ends by itself, and moves between passes that neither        *)
(* overlap nor fail; passes that overlap see pods that end by themselves.  *)
(* Both happen in the hours before the last.  Containers end before their  *)
(* pod between passes that do neither.                                     *)
(***************************************************************************)

CONSTANTS SecondPod, SecondCollector

HoursPart ==
    /\ focus = "hours"
    /\ UNCHANGED <<manifestVars, preemptVars, gpuVars>>
    /\ ResourceHoursNext
    /\ hpass'[SecondCollector].pc # "idle" => hoverlap'
    /\ (\E p \in HourPods : hpods'[p].again \/ (hpods'[p].st = "running" /\ hpods'[p].stop # 0)) =>
          ~hoverlap' /\ hfaults' = 0 /\ hpods'[SecondPod].st = "none" /\ hclock' < MaxHour
    /\ hpods'[SecondPod].st # "none" =>
          /\ ~hoverlap' /\ hfaults' = 0 /\ hclock' < MaxHour
          /\ \A c \in HourCollectors : hpass[c].pc # "idle" => UNCHANGED <<hpods, hclock>>
    /\ hpods'[SecondPod].st \notin {"stopping", "lost"}
    /\ hoverlap' => /\ hfaults' = 0 /\ hclock' < MaxHour
                    /\ \A p \in HourPods : hpods'[p].st \notin {"stopping", "lost"}

(***************************************************************************)
(* The composition.                                                        *)
(***************************************************************************)

RuntimeFoci == {"dispatch", "preempt", "gpu", "hours"}

RuntimeInit ==
    /\ ManifestInit /\ PreemptInit /\ GPUUsageInit /\ ResourceHoursInit
    /\ admitted[SecondJob] \in {"gang", "native"}
    /\ focus # "dispatch" => \A j \in DispatchJobs : admitted[j] = "gang"

RuntimePart == ManifestPart \/ PreemptPart \/ GPUPart \/ HoursPart

RuntimeTypeOK == ManifestTypeOK /\ PreemptTypeOK /\ GPUUsageTypeOK /\ ResourceHoursTypeOK
====
