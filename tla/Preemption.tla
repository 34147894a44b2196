----------------------------- MODULE Preemption -----------------------------
(* Preemption by scheduler-quota-service: a request for a waiting job picks  *)
(* the fewest jobs of lower priority that free enough, looks at them again,  *)
(* deletes their objects and has workload-service mark them, one by one, and *)
(* keeps a record under the request's idempotency key.  Requests run         *)
(* concurrently, jobs end under them, calls fail and the process may stop.   *)
EXTENDS Integers, FiniteSets
LOCAL INSTANCE FiniteSetsExt

CONSTANTS PreemptCallers,
          PreemptJobs,      \* job -> its project, device class, priority, demand, age
          PreemptAsks,      \* requests: key, requester or override, demand, max
          NoJob, NoRecord

VARIABLES pstatus,    \* job -> status in workload-service
          pobjects,   \* job -> its Kubernetes objects
          pby,        \* job -> key of the record that preempted it
          precords,   \* key -> preemption record
          preq,       \* caller -> request under way
          reclaimed   \* history: jobs marked by two preemptions

preemptVars == <<pstatus, pobjects, pby, precords, preq, reclaimed>>

LOCAL JobIds == DOMAIN PreemptJobs
LOCAL Keys == {a.key : a \in PreemptAsks}
LOCAL NoAsk == [pc |-> "idle", ask |-> NoRecord, victims |-> {}, left |-> {}]

PreemptInit ==
    /\ pstatus = [j \in JobIds |-> PreemptJobs[j].status]
    /\ pobjects = [j \in JobIds |-> IF PreemptJobs[j].status = "running" THEN "present" ELSE "gone"]
    /\ pby = [j \in JobIds |-> NoRecord]
    /\ precords = [k \in Keys |-> NoRecord]
    /\ preq = [c \in PreemptCallers |-> NoAsk]
    /\ reclaimed = {}

-----------------------------------------------------------------------------
(* Selection                                                                 *)

defaultMaxPreemptions == 5
clampMaxPreemptions(n) == IF n <= 0 \/ n > defaultMaxPreemptions THEN defaultMaxPreemptions ELSE n

(* Demands stated in the request need an administrator or a service.          *)
decodePreemptionRequest(ask) ==
    ask.priority > 0 \/ ask.gpu > 0 \/ ask.cpu > 0 => ask.admin

LOCAL Override(ask) == ask.priority > 0 \/ ask.gpu > 0 \/ ask.cpu > 0

(* Otherwise they are the requester's own.                                    *)
trustedPreemptionRequest(ask) ==
    IF Override(ask) THEN ask
    ELSE LET r == PreemptJobs[ask.requester] IN
         [ask EXCEPT !.project = r.project, !.class = r.class,
                      !.priority = r.priority, !.gpu = r.gpu, !.cpu = r.cpu]

Trusted(ask) ==
    /\ Override(ask) \/ ask.requester # NoJob
    /\ LET req == trustedPreemptionRequest(ask) IN
       req.priority > 0 /\ (req.gpu > 0 \/ req.cpu > 0)

(* A low priority makes a job preemptible, and so may its queue.              *)
workloadJobPreemptible(j) == PreemptJobs[j].preemptible \/ PreemptJobs[j].priority \in 1 .. 2

candidateEligibleForPreemption(req, j) ==
    LET job == PreemptJobs[j] IN
    /\ j # req.requester
    /\ req.project # "" => job.project = req.project
    /\ req.class # "" => job.class = req.class
    /\ pstatus[j] = "running" /\ job.priority < req.priority
    /\ workloadJobPreemptible(j) \/ job.queuePreemptible
    /\ req.gpu > 0 \/ job.cpu > 0
    /\ job.gpu > 0 \/ job.cpu > 0

LOCAL FreedGPU(S) == MapThenSumSet(LAMBDA j : PreemptJobs[j].gpu, S)
LOCAL FreedCPU(S) == MapThenSumSet(LAMBDA j : PreemptJobs[j].cpu, S)

(* With enough GPU freed, the CPU demand is waived.                           *)
preemptionDemandSatisfied(req, S) ==
    LET gpuOK == req.gpu <= 0 \/ FreedGPU(S) >= req.gpu
        cpuOK == req.cpu <= 0 \/ FreedCPU(S) >= req.cpu
    IN  gpuOK /\ (cpuOK \/ req.gpu > 0)

(* Lower priority first, then the younger; rank stands for the job id.        *)
preemptionTargetPreferred(i, j) ==
    LET a == PreemptJobs[i]
        b == PreemptJobs[j]
    IN  \/ a.priority < b.priority
        \/ a.priority = b.priority /\ a.created > b.created
        \/ a.priority = b.priority /\ a.created = b.created /\ a.rank < b.rank

LOCAL First(S) == CHOOSE i \in S : \A j \in S \ {i} : preemptionTargetPreferred(i, j)

(* The search tries combinations of one size in lexicographic order: of two,  *)
(* the one that has the most preferred job in which they differ comes first.  *)
findPreemptionVictimCombination(req, eligible, size) ==
    LET fit == {S \in kSubset(size, eligible) : preemptionDemandSatisfied(req, S)}
        before(S, T) == First((S \ T) \cup (T \ S)) \in S
    IN  IF fit = {} THEN {} ELSE CHOOSE S \in fit : \A T \in fit \ {S} : before(S, T)

(* Takes jobs in order of preference until they do.                           *)
SelectInOrder(req, eligible) ==
    LET upTo(j) == {i \in eligible : i = j \/ preemptionTargetPreferred(i, j)}
        fit == {j \in eligible : /\ preemptionDemandSatisfied(req, upTo(j))
                                 /\ Cardinality(upTo(j)) <= clampMaxPreemptions(req.max)}
    IN  IF fit = {} THEN {} ELSE upTo(First(fit))

selectMinimalPreemptionVictims(req, eligible) ==
    LET sizes == {n \in 1 .. clampMaxPreemptions(req.max) :
                    n <= Cardinality(eligible) /\ findPreemptionVictimCombination(req, eligible, n) # {}}
    IN  IF sizes = {} THEN {} ELSE findPreemptionVictimCombination(req, eligible, Min(sizes))

(* The context workload-service answers with lists every job it has.         *)
workloadPreemptionCandidates == JobIds

eligibleVictims(req) == {j \in workloadPreemptionCandidates : candidateEligibleForPreemption(req, j)}

selectPreemptionVictims(req) == selectMinimalPreemptionVictims(req, eligibleVictims(req))

-----------------------------------------------------------------------------
(* The request                                                               *)

LOCAL Goto(c, pc) == preq' = [preq EXCEPT ![c].pc = pc]
LOCAL Answer(c) == preq' = [preq EXCEPT ![c] = NoAsk]

LOCAL Key(c) == preq[c].ask.key

(* The last write of a request.                                               *)
FinishPreemptionRecord(c, status) ==
    /\ precords' = [precords EXCEPT ![Key(c)].status = status]
    /\ Answer(c)

LOCAL FinishWith(c, status, j) ==
    /\ precords' = [precords EXCEPT ![Key(c)].status = status, ![Key(c)].victims = @ \cup {j}]
    /\ Answer(c)

(* A key that is in use is answered from its record, whatever its state.      *)
FindPreemptionRecord(c, ask) ==
    /\ preq[c] = NoAsk
    /\ decodePreemptionRequest(ask)
    /\ precords[ask.key] = NoRecord
    /\ preq' = [preq EXCEPT ![c] = [NoAsk EXCEPT !.pc = "create", !.ask = ask]]
    /\ UNCHANGED <<pstatus, pobjects, pby, precords, reclaimed>>

(* The record's key decides between two that found none.                      *)
CreatePreemptionRecord(c) ==
    /\ preq[c].pc = "create"
    /\ IF precords[Key(c)] = NoRecord
         THEN /\ precords' = [precords EXCEPT ![Key(c)] =
                                [status |-> "in_progress", ask |-> preq[c].ask, victims |-> {}, seen |-> {}]]
              /\ Goto(c, "context")
         ELSE Answer(c) /\ UNCHANGED precords
    /\ UNCHANGED <<pstatus, pobjects, pby, reclaimed>>

(* workload-service does not answer, or the requester will not do.            *)
PreemptionRefused(c) ==
    /\ preq[c].pc = "context"
    /\ FinishPreemptionRecord(c, "preflight_failed")
    /\ UNCHANGED <<pstatus, pobjects, pby, reclaimed>>

PreemptionContext(c) ==
    LET ask == preq[c].ask
        req == trustedPreemptionRequest(ask)
        victims == selectPreemptionVictims(req)
    IN  /\ preq[c].pc = "context" /\ Trusted(ask)
        /\ IF victims = {} \/ (~Override(ask) /\ workloadJobPreemptible(ask.requester))
             THEN FinishPreemptionRecord(c, "no_victims")
             ELSE /\ preq' = [preq EXCEPT ![c] = [@ EXCEPT !.pc = "preflight", !.victims = victims, !.left = victims]]
                  /\ precords' = [precords EXCEPT ![Key(c)].seen = eligibleVictims(req)]
        /\ UNCHANGED <<pstatus, pobjects, pby, reclaimed>>

(* A second look; a victim that will not do any more ends the request.        *)
preflightPreemptionVictims(c) ==
    /\ preq[c].pc = "preflight"
    /\ \/ /\ \A j \in preq[c].victims :
               candidateEligibleForPreemption(trustedPreemptionRequest(preq[c].ask), j)
          /\ Goto(c, "cleanup") /\ UNCHANGED precords
       \/ FinishPreemptionRecord(c, "preflight_failed")
    /\ UNCHANGED <<pstatus, pobjects, pby, reclaimed>>

(* Objects that are being deleted are still listed, and deleted again.        *)
ExecuteCleanup(c) ==
    LET j == First(preq[c].left) IN
    /\ preq[c].pc = "cleanup"
    /\ IF pobjects[j] = "gone"
         THEN FinishWith(c, "preflight_failed", j) /\ UNCHANGED pobjects
         ELSE /\ pobjects' = [pobjects EXCEPT ![j] = "terminating"]
              /\ Goto(c, "preempt") /\ UNCHANGED precords
    /\ UNCHANGED <<pstatus, pby, reclaimed>>

ExecuteCleanupError(c) ==
    LET j == First(preq[c].left) IN
    /\ preq[c].pc = "cleanup"
    /\ \/ UNCHANGED pobjects
       \/ pobjects[j] = "present" /\ pobjects' = [pobjects EXCEPT ![j] = "terminating"]
    /\ FinishWith(c, "partial_failure", j)
    /\ UNCHANGED <<pstatus, pby, reclaimed>>

(* workload-service checks the job's status, and then writes it.              *)
workloadPreemptJob(c) ==
    LET j == First(preq[c].left) IN
    /\ preq[c].pc = "preempt"
    /\ IF pstatus[j] = "running" THEN Goto(c, "mark") /\ UNCHANGED precords
       ELSE IF pstatus[j] = "preempted" /\ pby[j] = Key(c) THEN Goto(c, "append") /\ UNCHANGED precords
       ELSE FinishWith(c, "failed", j)
    /\ UNCHANGED <<pstatus, pobjects, pby, reclaimed>>

MarkPreempted(c) ==
    LET j == First(preq[c].left) IN
    /\ preq[c].pc = "mark"
    /\ reclaimed' = IF pby[j] \in {NoRecord, Key(c)} THEN reclaimed ELSE reclaimed \cup {j}
    /\ pstatus' = [pstatus EXCEPT ![j] = "preempted"]
    /\ pby' = [pby EXCEPT ![j] = Key(c)]
    /\ \/ Goto(c, "append") /\ UNCHANGED precords
       \/ FinishWith(c, "failed", j)                        \* the answer is lost
    /\ UNCHANGED pobjects

(* The call fails, before or without reaching the record.                     *)
PreemptError(c) ==
    /\ preq[c].pc \in {"preempt", "mark"}
    /\ FinishWith(c, "failed", First(preq[c].left))
    /\ UNCHANGED <<pstatus, pobjects, pby, reclaimed>>

(* The victim is added to the record with its event; the last one leads to    *)
(* the end.                                                                   *)
AppendPreemptionVictimTx(c) ==
    LET j == First(preq[c].left)
        rest == preq[c].left \ {j}
    IN  /\ preq[c].pc = "append"
        /\ \/ /\ precords' = [precords EXCEPT ![Key(c)].victims = @ \cup {j}]
              /\ preq' = [preq EXCEPT ![c] = [@ EXCEPT !.left = rest,
                                                       !.pc = IF rest = {} THEN "finish" ELSE "cleanup"]]
           \/ FinishPreemptionRecord(c, "failed")
        /\ UNCHANGED <<pstatus, pobjects, pby, reclaimed>>

executePreemption(c) ==
    /\ preq[c].pc = "finish"
    /\ FinishPreemptionRecord(c, "completed")
    /\ UNCHANGED <<pstatus, pobjects, pby, reclaimed>>

SchedulerStops(c) ==
    /\ preq[c] # NoAsk
    /\ Answer(c)
    /\ UNCHANGED <<pstatus, pobjects, pby, precords, reclaimed>>

(* Elsewhere: a job runs to its end, and deleted objects go.                  *)
CandidateEnds(j) ==
    /\ pstatus[j] = "running"
    /\ pstatus' = [pstatus EXCEPT ![j] = "completed"]
    /\ UNCHANGED <<pobjects, pby, precords, preq, reclaimed>>

ObjectsGo(j) ==
    /\ pobjects[j] = "terminating"
    /\ pobjects' = [pobjects EXCEPT ![j] = "gone"]
    /\ UNCHANGED <<pstatus, pby, precords, preq, reclaimed>>

PreemptNext ==
    \/ \E c \in PreemptCallers :
          \/ \E ask \in PreemptAsks : FindPreemptionRecord(c, ask)
          \/ CreatePreemptionRecord(c) \/ PreemptionRefused(c) \/ PreemptionContext(c)
          \/ preflightPreemptionVictims(c)
          \/ ExecuteCleanup(c) \/ ExecuteCleanupError(c)
          \/ workloadPreemptJob(c) \/ MarkPreempted(c) \/ PreemptError(c)
          \/ AppendPreemptionVictimTx(c) \/ executePreemption(c)
          \/ SchedulerStops(c)
    \/ \E j \in JobIds : CandidateEnds(j) \/ ObjectsGo(j)

-----------------------------------------------------------------------------
PreemptTypeOK ==
    /\ pstatus \in [JobIds -> {"queued", "running", "preempted", "completed"}]
    /\ pobjects \in [JobIds -> {"present", "terminating", "gone"}]
    /\ pby \in [JobIds -> Keys \cup {NoRecord}]
    /\ reclaimed \subseteq JobIds
    /\ \A c \in PreemptCallers : preq[c].left \subseteq preq[c].victims
    /\ \A k \in Keys : precords[k] # NoRecord => precords[k].victims \subseteq JobIds

(* A completed preemption did what its record says: its victims are preempted *)
(* and their objects deleted, they were of lower priority than the request,   *)
(* they free what it needs, no smaller choice among the jobs it looked at     *)
(* would have, and it counts no job that another completed preemption counts  *)
(* too, except when workload-service took both calls for the job at once.     *)
PreemptionHonest ==
    \A k \in Keys : precords[k] # NoRecord /\ precords[k].status = "completed" =>
        LET rec == precords[k]
            req == trustedPreemptionRequest(rec.ask)
        IN  /\ \A j \in rec.victims : /\ pstatus[j] = "preempted" /\ pobjects[j] # "present"
                                      /\ PreemptJobs[j].priority < req.priority
            /\ preemptionDemandSatisfied(req, rec.victims)
            /\ \A S \in SUBSET rec.seen :
                  preemptionDemandSatisfied(req, S) => Cardinality(S) >= Cardinality(rec.victims)
            /\ \A other \in Keys \ {k} :
                  precords[other] # NoRecord /\ precords[other].status = "completed"
                    => rec.victims \cap precords[other].victims \subseteq reclaimed
=============================================================================
