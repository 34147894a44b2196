------------------------------ MODULE JobStatus ------------------------------
(***************************************************************************)
(* The vocabulary that the workload service and the scheduler share: the   *)
(* statuses of a job record, the states of a quota reservation, and how    *)
(* Kubernetes objects look to the platform.  No state lives here.          *)
(***************************************************************************)

-----------------------------------------------------------------------------
(* Job records (internal/services/workload).                               *)

\* The statuses some code path writes into a job record.  "absent" stands
\* for a job id that has no record.
WrittenStatuses == {"submitted", "waiting_infra", "queued", "running",
                    "completed", "failed", "preempted", "evicted"}

JobStatuses == WrittenStatuses \cup {"absent"}

\* terminalJobStatuses.  No code path writes "cancelled".
TerminalStatuses == {"completed", "failed", "cancelled", "preempted", "evicted"}

\* activeJobStatuses: what MarkFailedIfActive may turn into "failed".
ActiveStatuses == {"pending", "queued", "scheduled", "running", "active"}

\* statusReconcilerLiveStatuses: what the status reconciler looks at.
LiveStatuses == ActiveStatuses \cup {"submitted", "waiting_infra"}

\* preemptibleJobStatuses
PreemptibleStatuses == {"running", "partial-preempted"}

\* isStaleJobStatus
StaleStatuses == {"running", "queued"}

-----------------------------------------------------------------------------
(* Quota reservations (internal/platform/reservation.go).                  *)

ReservationStates == {"none", "reserved", "committed", "released"}

\* Mutant: any state may be left for any other.
transitionAllowedAlways(current, requested) == current # "none" /\ current # requested

transitionAllowed(current, requested) ==
    \/ current = "reserved"  /\ requested \in {"committed", "released"}
    \/ current = "committed" /\ requested = "released"

-----------------------------------------------------------------------------
(* The Kubernetes objects of one job, taken together: nothing there, an    *)
(* object that has no pod yet (a Volcano job waiting in its queue), pods   *)
(* waiting, running, finished or failed, or everything deleted and still   *)
(* terminating.                                                            *)

ObjectStates == {"absent", "unscheduled", "queued", "running", "completed",
                 "failed", "terminating"}

\* ListPodsByLabel finds a pod of the job.
HasPods(o) == o \in {"queued", "running", "completed", "failed", "terminating"}

\* What NativeJobLifecycle may report for a job whose objects are found.  A
\* terminating pod keeps its phase until its containers have exited.
Lifecycle(o) ==
    CASE o = "absent"      -> {}
      [] o = "unscheduled" -> {"queued"}
      [] o = "terminating" -> {"queued", "running", "completed", "failed"}
      [] OTHER             -> {o}

\* What Kubernetes may make of the objects by itself: schedule them, run
\* them, end them, start another pod of a failed batch job within its
\* backoffLimit, lose them, and finish a deletion.
ObjectProgress(o) ==
    CASE o = "unscheduled" -> {"queued", "absent"}
      [] o = "queued"      -> {"running", "failed", "absent"}
      [] o = "running"     -> {"completed", "failed", "absent"}
      [] o = "completed"   -> {"absent"}
      [] o = "failed"      -> {"running", "absent"}
      [] o = "terminating" -> {"absent"}
      [] OTHER             -> {}
=============================================================================
