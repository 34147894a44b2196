--------------------------- MODULE ResourceHours ---------------------------
(***************************************************************************)
(* The resource hours of a job (services/resourcehours/collector.go): a    *)
(* pass lists the pods, keeps one record per pod, ends the records whose   *)
(* pods are gone, and sums the records up.  A pass is a maintenance task   *)
(* under a lease that is not renewed, so two of them may overlap.          *)
(*                                                                         *)
(* One job is modelled; jobs share nothing but the pass.  A time of 0 in a *)
(* pod or a record is a field that is not set.                             *)
(***************************************************************************)
EXTENDS Naturals, FiniteSets, FiniteSetsExt, Functions

CONSTANTS HourPods,        \* pods of the job, each with a uid of its own
          HourCollectors,  \* replicas that may run the task
          MaxHour,         \* bound on the clock
          MaxHourFaults    \* bound on aborted passes, failed listings and skipped writes

VARIABLES hclock,    \* the time
          hpods,     \* the pods, see NoPod
          hrecords,  \* request_usage_pods, by pod
          hsummary,  \* request_usage of the job
          hpass,     \* where each collector is
          hfaults, hoverlap, hclean, hnoticed   \* history

hourVars == <<hclock, hpods, hrecords, hsummary, hpass, hfaults, hoverlap, hclean, hnoticed>>

PodStates == {"none", "pending", "running", "stopping", "ended", "lost", "gone"}
(* start and fin are what the status of the pod says: the earliest start of   *)
(* its containers and the latest end of those that have ended.  The others    *)
(* are history: when it began, when it was first asked to end or one of its   *)
(* containers ended, when it ended, and whether a container was restarted.    *)
NoPod == [st |-> "none", start |-> 0, fin |-> 0, first |-> 0, stop |-> 0, end |-> 0, again |-> FALSE]
NoHours == [run |-> 0, ended |-> 0, seen |-> 0, active |-> FALSE]
NoSummary == [seconds |-> 0, final |-> FALSE, at |-> 0]
HourResting == [pc |-> "idle", now |-> 0, seen |-> {}, list |-> << >>, todo |-> {}, skipped |-> FALSE]

LOCAL Least(a, b) == IF a <= b THEN a ELSE b
LOCAL Most(a, b) == IF a <= b THEN b ELSE a
LOCAL Go(c, pc) == hpass' = [hpass EXCEPT ![c].pc = pc]

ResourceHoursInit ==
    /\ hclock = 1
    /\ hpods = [p \in HourPods |-> NoPod]
    /\ hrecords = << >>
    /\ hsummary = NoSummary
    /\ hpass = [c \in HourCollectors |-> HourResting]
    /\ hfaults = 0 /\ hoverlap = FALSE /\ hclean = FALSE
    /\ hnoticed = [p \in HourPods |-> 0]

-----------------------------------------------------------------------------
(***************************************************************************)
(* The pods, as Kubernetes moves them.                                     *)
(***************************************************************************)

LOCAL Since(t) == IF t = 0 THEN hclock ELSE t
LOCAL PodIs(p, pod) ==
    /\ hpods' = [hpods EXCEPT ![p] = pod]
    /\ UNCHANGED <<hclock, hrecords, hsummary, hpass, hfaults, hoverlap, hclean, hnoticed>>

\* The last container ends by itself and the status says when; or the pod is
\* failed by somebody else and its status never names a time ("lost"); or it
\* is deleted, and runs on until its grace period is over.
PodMoves(p) ==
    LET pod == hpods[p] IN
    \/ pod.st = "none" /\ PodIs(p, [pod EXCEPT !.st = "pending"])
    \/ pod.st = "pending" /\ PodIs(p, [pod EXCEPT !.st = "running", !.start = hclock, !.first = hclock])
    \/ pod.st = "running" /\ PodIs(p, [pod EXCEPT !.st = "stopping", !.stop = Since(@)])
    \/ /\ pod.st = "running" /\ pod.start # 0
       /\ PodIs(p, [pod EXCEPT !.st = "ended", !.fin = hclock, !.stop = Since(@), !.end = hclock])
    \/ pod.st = "running" /\ PodIs(p, [pod EXCEPT !.st = "lost", !.stop = Since(@), !.end = hclock])
    \/ /\ pod.st \in {"stopping", "ended", "lost"}
       /\ PodIs(p, [pod EXCEPT !.st = "gone", !.end = Since(@)])

\* While the pod runs on, a container of it ends; it is to be restarted, and
\* the status forgets its times, which may leave no start at all; and it runs
\* again.
ContainerMoves(p) ==
    LET pod == hpods[p] IN
    /\ pod.st = "running"
    /\ \/ /\ pod.start # 0 /\ pod.fin = 0
          /\ PodIs(p, [pod EXCEPT !.fin = hclock, !.stop = Since(@)])
       \/ /\ pod.fin # 0
          /\ \E start \in {pod.start, 0} :
               PodIs(p, [pod EXCEPT !.start = start, !.fin = 0, !.again = TRUE])
       \/ pod.start = 0 /\ PodIs(p, [pod EXCEPT !.start = hclock])

HourPasses ==
    /\ hclock < MaxHour
    /\ hclock' = hclock + 1
    /\ UNCHANGED <<hpods, hrecords, hsummary, hpass, hfaults, hoverlap, hclean, hnoticed>>

-----------------------------------------------------------------------------
(***************************************************************************)
(* What a listing says of a pod, and what a record of it is worth.         *)
(***************************************************************************)

podActive(p) == hpods[p].st \in {"pending", "running"}

runningStartedAtFromPod(p) == IF hpods[p].st = "lost" THEN 0 ELSE hpods[p].start

\* Any container that has ended gives the time, active pod or not.
terminatedAtFromPod(p) == IF hpods[p].st = "lost" THEN 0 ELSE hpods[p].fin

\* A pod that is not active and names no time is taken to end now.
podResourceUsage(p, now) ==
    [run |-> runningStartedAtFromPod(p),
     ended |-> IF ~podActive(p) /\ terminatedAtFromPod(p) = 0 THEN now ELSE terminatedAtFromPod(p),
     seen |-> now, active |-> podActive(p)]

\* The update merges: a field that the usage does not set keeps its value.
podUsageData(old, usage) ==
    [usage EXCEPT !.run = IF @ = 0 THEN old.run ELSE @, !.ended = IF @ = 0 THEN old.ended ELSE @]

billableEnd(r, now) ==
    IF r.ended # 0 THEN r.ended ELSE IF r.active \/ r.seen = 0 THEN now ELSE r.seen

BilledSeconds(r, now) ==
    IF r.run = 0 \/ billableEnd(r, now) < r.run THEN 0 ELSE billableEnd(r, now) - r.run

summaryData(records, now) ==
    [seconds |-> FoldSet(LAMBDA p, n : n + BilledSeconds(records[p], now), 0, DOMAIN records),
     final |-> \A p \in DOMAIN records : ~records[p].active,
     at |-> now]

-----------------------------------------------------------------------------
(***************************************************************************)
(* A pass.                                                                 *)
(***************************************************************************)

\* The time of the pass is taken just before the listing: the listing is
\* answered within the unit of time in which the pass began.
ListJobPodResourceUsage(c) ==
    /\ hpass[c].pc = "idle"
    /\ LET listed == {p \in HourPods : hpods[p].st \notin {"none", "gone"}}
       IN  hpass' = [hpass EXCEPT ![c] =
                       [pc |-> "upsert", now |-> hclock, seen |-> listed, todo |-> listed,
                        list |-> [p \in listed |-> podResourceUsage(p, hclock)], skipped |-> FALSE]]
    /\ hoverlap' = (hoverlap \/ \E d \in HourCollectors : hpass[d].pc # "idle")
    /\ UNCHANGED <<hclock, hpods, hrecords, hsummary, hfaults, hclean, hnoticed>>

\* A write that the store refuses is logged and skipped.
HourWrite(c, p, record) ==
    \/ /\ hrecords' = [q \in DOMAIN hrecords \cup {p} |-> IF q = p THEN record ELSE hrecords[q]]
       /\ hpass' = [hpass EXCEPT ![c].todo = @ \ {p}]
       /\ UNCHANGED hfaults
    \/ /\ hfaults < MaxHourFaults
       /\ hfaults' = hfaults + 1
       /\ hpass' = [hpass EXCEPT ![c].todo = @ \ {p}, ![c].skipped = TRUE]
       /\ UNCHANGED hrecords

UpsertPod(c, p) ==
    /\ hpass[c].pc = "upsert" /\ p \in hpass[c].todo
    /\ HourWrite(c, p, podUsageData(IF p \in DOMAIN hrecords THEN hrecords[p] ELSE NoHours,
                                    hpass[c].list[p]))
    /\ UNCHANGED <<hclock, hpods, hsummary, hoverlap, hclean, hnoticed>>

\* As a bug would: every record that is not listed, ended before or not.
MissingAny(c) == DOMAIN hrecords \ hpass[c].seen

\* The records that are still active and were not in the listing.
MissingOf(c) == {p \in DOMAIN hrecords \ hpass[c].seen : hrecords[p].active}

\* A listing of records that fails has some of them, or none: a fault.
Listing(all, some) ==
    /\ some \subseteq all
    /\ \/ some = all /\ UNCHANGED hfaults
       \/ some # all /\ hfaults < MaxHourFaults /\ hfaults' = hfaults + 1

ListMissing(c) ==
    /\ hpass[c].pc = "upsert" /\ hpass[c].todo = {}
    /\ \E todo \in SUBSET MissingOf(c) :
         /\ Listing(MissingOf(c), todo)
         /\ hpass' = [hpass EXCEPT ![c].pc = "missing", ![c].todo = todo,
                                   ![c].skipped = @ \/ todo # MissingOf(c)]
    /\ UNCHANGED <<hclock, hpods, hrecords, hsummary, hoverlap, hclean, hnoticed>>

markMissingPodRecordsTerminated(c, p) ==
    /\ hpass[c].pc = "missing" /\ p \in hpass[c].todo
    /\ HourWrite(c, p, [hrecords[p] EXCEPT !.active = FALSE, !.ended = hpass[c].now, !.seen = hpass[c].now])
    /\ UNCHANGED <<hclock, hpods, hsummary, hoverlap, hclean, hnoticed>>

\* The sum of the records listed is written and the pass is over; with none
\* listed, or when the store refuses it, nothing is written.  hnoticed is the
\* first pass without a skipped write whose listing knew the time at which a
\* pod had ended, or knew it gone.
computeResourceHourSummaries(c) ==
    /\ hpass[c].pc = "missing" /\ hpass[c].todo = {}
    /\ \E counted \in SUBSET DOMAIN hrecords :
         /\ Listing(DOMAIN hrecords, counted)
         /\ hsummary' = IF counted = {} THEN hsummary
                        ELSE summaryData(Restrict(hrecords, counted), hpass[c].now)
         /\ hclean' = (~hpass[c].skipped /\ counted = DOMAIN hrecords)
    /\ hnoticed' = [p \in HourPods |->
                      IF /\ hnoticed[p] = 0 /\ ~hpass[c].skipped
                         /\ hpods[p].end \in 1..hpass[c].now
                         /\ p \in hpass[c].seen => ~hpass[c].list[p].active /\ hpass[c].list[p].run # 0
                      THEN hpass[c].now ELSE hnoticed[p]]
    /\ hpass' = [hpass EXCEPT ![c] = HourResting]
    /\ UNCHANGED <<hclock, hpods, hrecords, hoverlap>>

\* The listing of pods fails, or the replica crashes; records written stay.
CollectAbort(c) ==
    /\ hpass[c].pc # "idle" /\ hfaults < MaxHourFaults
    /\ hfaults' = hfaults + 1
    /\ hpass' = [hpass EXCEPT ![c] = HourResting]
    /\ hclean' = FALSE
    /\ UNCHANGED <<hclock, hpods, hrecords, hsummary, hoverlap, hnoticed>>

CollectHours(c) ==
    \/ ListJobPodResourceUsage(c) \/ ListMissing(c)
    \/ computeResourceHourSummaries(c) \/ CollectAbort(c)
    \/ \E p \in HourPods : UpsertPod(c, p) \/ markMissingPodRecordsTerminated(c, p)

ResourceHoursNext ==
    \/ \E p \in HourPods : PodMoves(p) \/ ContainerMoves(p)
    \/ HourPasses
    \/ \E c \in HourCollectors : CollectHours(c)

ResourceHoursTypeOK ==
    /\ hclock \in 1..MaxHour
    /\ \A p \in HourPods : hpods[p].st \in PodStates
    /\ DOMAIN hrecords \subseteq HourPods
    /\ \A p \in DOMAIN hrecords : hrecords[p].run <= hclock /\ hrecords[p].seen \in 1..hclock
    /\ \A c \in HourCollectors : hpass[c].now \in 0..hclock /\ hpass[c].todo \subseteq HourPods

-----------------------------------------------------------------------------
\* Pods whose start is on record: what started and went between two passes
\* is not billed at all.
BilledPods == {p \in DOMAIN hrecords : hrecords[p].run # 0}

SumOfBilled(pods, T(_)) ==
    FoldSet(LAMBDA p, n : n + (Most(T(p), hpods[p].first) - hpods[p].first), 0, pods)

\* The hours a summary reports are those the pods had (USAGE-020): after a
\* pass that completed all its listings and writes every pod with a start on
\* record counts at least until it ended, was asked to, or a container of it
\* ended, and at most until the first such pass after its end, or until this
\* pass while its end has no time in its status; a pod with a container that
\* was restarted may count for less, or nothing, and never for more.  A
\* summary is final only when no pod it counts may still run.  Passes that
\* never overlapped can rely on it.  In every case the sum stays within what
\* could have been used by now.
HoursHonest ==
    /\ ~hoverlap /\ hclean /\ (\A c \in HourCollectors : hpass[c].pc = "idle") =>
          LET T == hsummary.at
              From(p) == IF hpods[p].stop = 0 THEN T ELSE Least(hpods[p].stop, T)
              Until(p) == IF hnoticed[p] = 0 THEN Most(T, hpods[p].end) ELSE hnoticed[p]
          IN  /\ SumOfBilled({p \in BilledPods : ~hpods[p].again}, From) <= hsummary.seconds
              /\ hsummary.seconds <= SumOfBilled(BilledPods, Until)
              /\ hsummary.final => \A p \in DOMAIN hrecords : ~podActive(p)
    /\ hsummary.seconds <= SumOfBilled(BilledPods, LAMBDA p : hclock)
=============================================================================
