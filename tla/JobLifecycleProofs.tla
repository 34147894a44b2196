-------------------------- MODULE JobLifecycleProofs --------------------------
(***************************************************************************)
(* The safety invariants of JobLifecycle, for any number of jobs, workload *)
(* replicas, plan reapers and preemption requests, and any bounds.  First  *)
(* the inductive invariant and the kinds of step that the processes take:  *)
(* every step that is of one of these kinds preserves it.  Then the steps, *)
(* process by process.                                                     *)
(***************************************************************************)
EXTENDS JobLifecycle, TLAPS

\* A leaf is tried with Zenon, and where that fails with the SMT solver.
USE Zenon, SMTT(30)

-----------------------------------------------------------------------------
(* The inductive invariant.                                                *)

\* The submission of the job is over, and quota was committed for it.
Accepted(j) == sub[j] = "done" /\ res[j] \in {"committed", "released"}

\* A job until its submission is over: the reservation follows the handler,
\* and nothing else has happened to the job.
SubmitInv ==
    \A j \in Jobs :
        /\ sub[j] = "idle" => res[j] = "none"
        /\ sub[j] \in {"reserved", "committed"} => res[j] = sub[j]
        /\ sub[j] # "done" => j \notin inflight \cup ended \cup rolledBack

\* Records and objects belong to accepted jobs, and a release on its way to
\* a job that was ended or rolled back.
JobInv ==
    \A j \in Jobs :
        /\ status[j] # "absent" => Accepted(j)
        /\ objects[j] # "absent" => Accepted(j)
        /\ j \in inflight => j \in ended \cup rolledBack

\* What NativeJobLifecycle reports.
Observations == {"queued", "running", "completed", "failed"}

\* A process only deals with accepted jobs; it releases the quota of a job
\* that was ended; and the reconciler has listed as live what it writes to.
LocalInv(a) ==
    /\ \A j \in loc[a].todo : Accepted(j)
    /\ loc[a].job \in Jobs => Accepted(loc[a].job)
    /\ loc[a].pc \notin {"idle", "loop", "podSet"} => loc[a].job \in Jobs
    /\ loc[a].pc = "release" => loc[a].job \in ended
    /\ loc[a].task = "reconciler" => \A j \in loc[a].todo : loc[a].status[j] \in LiveStatuses
    /\ loc[a].pc = "apply" => /\ loc[a].status[loc[a].job] \in LiveStatuses
                              /\ loc[a].seen \in Observations

IInv ==
    /\ TypeOK
    /\ SubmitInv
    /\ JobInv
    /\ \A a \in Actors : LocalInv(a)
    /\ ReleasedOnlyAfterEnd
    /\ QuotaAccounted
    /\ RetryBudget

-----------------------------------------------------------------------------
(* How a process moves: it changes its own local state only, and into one   *)
(* that satisfies LocalInv.                                                *)

Moves(a) ==
    /\ loc' \in [Actors -> Local]
    /\ \A b \in Actors \ {a} : loc'[b] = loc[b]
    /\ LocalInv(a)'

\* Nothing changes but local states and objects, and perhaps a fault is met.
Quiet ==
    /\ sub' = sub /\ status' = status /\ retry' = retry /\ due' = due /\ aged' = aged
    /\ res' = res /\ inflight' = inflight /\ ended' = ended
    /\ rolledBack' = rolledBack /\ lost' = lost
    /\ faults' = faults \/ Fault

\* Objects belong to accepted jobs after the step.
ObjectsAccepted ==
    /\ objects' \in [Jobs -> ObjectStates]
    /\ \A j \in Jobs : objects'[j] # "absent" => Accepted(j)

\* A step of a process that has no release to send and writes no record: it
\* may create objects of accepted jobs, delete any, and meet a fault.
LEMMA QuietStep ==
    ASSUME IInv, NEW a \in Actors, Moves(a), loc[a].pc # "release", Quiet, ObjectsAccepted
    PROVE  IInv'
  <1> USE DEF Quiet, ObjectsAccepted
  <1>1. TypeOK'
    BY DEF IInv, TypeOK, Moves, Fault
  <1>2. SubmitInv' /\ JobInv'
    BY DEF IInv, SubmitInv, JobInv, Accepted
  <1>3. \A b \in Actors : LocalInv(b)'
    BY DEF IInv, LocalInv, Moves, Accepted
  <1>4. ReleasedOnlyAfterEnd' /\ RetryBudget'
    BY DEF IInv, ReleasedOnlyAfterEnd, RetryBudget
  <1>5. QuotaAccounted'
    BY DEF IInv, QuotaAccounted, Moves
  <1> QED  BY <1>1, <1>2, <1>3, <1>4, <1>5 DEF IInv

\* A step of a process that writes the status of an accepted job: if the
\* status is terminal the process goes on to release the quota, or a fault
\* has cost the release.
LEMMA MarkStep ==
    ASSUME IInv, NEW a \in Actors, Moves(a), loc[a].pc # "release",
           NEW j \in Jobs, Accepted(j), NEW s \in WrittenStatuses, SetStatus(j, s),
           s \in TerminalStatuses => \/ loc'[a].pc = "release" /\ loc'[a].job = j
                                     \/ j \in lost',
           retry' \in [Jobs -> Nat], due' \in [Jobs -> BOOLEAN], RetryBudget',
           UNCHANGED <<sub, aged, objects, res, inflight, rolledBack>>,
           lost' \in SUBSET Jobs, lost \subseteq lost',
           faults' \in Nat
    PROVE  IInv'
  <1>1. TypeOK'
    BY DEF IInv, TypeOK, Moves, SetStatus, JobStatuses
  <1>2. SubmitInv' /\ JobInv'
    BY DEF IInv, TypeOK, SubmitInv, JobInv, Accepted, SetStatus
  <1>3. \A b \in Actors : LocalInv(b)'
    BY DEF IInv, LocalInv, Moves, Accepted, SetStatus
  <1>4. ReleasedOnlyAfterEnd'
    BY DEF IInv, ReleasedOnlyAfterEnd, SetStatus
  <1>5. QuotaAccounted'
    BY DEF IInv, TypeOK, QuotaAccounted, Moves, SetStatus, WrittenStatuses
  <1> QED  BY <1>1, <1>2, <1>3, <1>4, <1>5 DEF IInv

-----------------------------------------------------------------------------
(* The moves the actions are made of.                                      *)

\* The local state of a process has its type.
LEMMA LocalType ==
    ASSUME IInv, NEW a \in Actors
    PROVE  /\ loc \in [Actors -> Local] /\ loc[a] \in Local /\ LocalInv(a)
           /\ loc[a].job \in Jobs \cup {NoJob} /\ loc[a].todo \in SUBSET Jobs
           /\ loc[a].status \in [Jobs -> JobStatuses] /\ loc[a].retry \in [Jobs -> Nat]
  <1>1. loc \in [Actors -> Local] /\ LocalInv(a)
    BY DEF IInv, TypeOK
  <1> QED  BY <1>1 DEF Local

\* A process moves once its new local state is known to be a good one.
LEMMA MoveTo ==
    ASSUME IInv, NEW a \in Actors, NEW l \in Local, loc' = [loc EXCEPT ![a] = l], LocalInv(a)'
    PROVE  Moves(a)
  <1>1. loc \in [Actors -> Local]
    BY LocalType
  <1> QED  BY <1>1 DEF Moves

\* Taking a listed job in hand is a move, for the steps that ask nothing more.
LEMMA TakeMoves ==
    ASSUME IInv, NEW a \in Actors, NEW j \in Jobs, j \in loc[a].todo,
           NEW step \in Steps \ {"idle", "loop", "podSet", "apply", "release"}, Take(a, j, step),
           sub' = sub, res' = res
    PROVE  Moves(a) /\ Accepted(j)
  <1> DEFINE l == [loc[a] EXCEPT !.pc = step, !.job = j, !.todo = loc[a].todo \ {j}]
  <1>1. loc[a] \in Local /\ loc \in [Actors -> Local] /\ LocalInv(a)
    BY LocalType
  <1>2. l \in Local /\ loc' = [loc EXCEPT ![a] = l]
    BY <1>1 DEF Local, Take
  <1>3. /\ l.pc = step /\ l.job = j /\ l.todo = loc[a].todo \ {j}
        /\ l.task = loc[a].task /\ l.status = loc[a].status
    BY <1>1 DEF Local
  <1> HIDE DEF l
  <1>4. loc'[a] = l
    BY <1>1, <1>2
  <1>5. LocalInv(a)'
    BY <1>1, <1>3, <1>4 DEF LocalInv, Accepted
  <1> QED  BY <1>1, <1>2, <1>5, MoveTo DEF LocalInv

\* Passing over a job is a move.
LEMMA SkipMoves ==
    ASSUME IInv, NEW a \in Actors, NEW j \in Jobs, Skip(a, j), loc[a].pc = "loop",
           sub' = sub, res' = res
    PROVE  Moves(a)
  <1> DEFINE l == [loc[a] EXCEPT !.todo = loc[a].todo \ {j}]
  <1>1. loc[a] \in Local /\ loc \in [Actors -> Local] /\ LocalInv(a)
    BY LocalType
  <1>2. l \in Local /\ loc' = [loc EXCEPT ![a] = l]
    BY <1>1 DEF Local, Skip
  <1>3. /\ l.pc = "loop" /\ l.job = loc[a].job /\ l.todo = loc[a].todo \ {j}
        /\ l.task = loc[a].task /\ l.status = loc[a].status
    BY <1>1 DEF Local
  <1> HIDE DEF l
  <1>4. loc'[a] = l
    BY <1>1, <1>2
  <1>5. LocalInv(a)'
    BY <1>1, <1>3, <1>4 DEF LocalInv, Accepted
  <1> QED  BY <1>2, <1>5, MoveTo

\* Ending a task is a move: an idle process promises nothing.
LEMMA StopMoves ==
    ASSUME IInv, NEW a \in Actors, Stop(a)
    PROVE  Moves(a)
  <1>1. Idle \in Local
    BY DEF Idle, Local, Steps, Tasks, JobStatuses
  <1>2. loc' = [loc EXCEPT ![a] = Idle] /\ loc'[a] = Idle
    BY LocalType DEF Stop
  <1>3. LocalInv(a)'
    BY <1>2, JobsAssumption DEF LocalInv, Idle
  <1> QED  BY <1>1, <1>2, <1>3, MoveTo

\* Going back to the head of the loop is a move.
LEMMA ContinueMoves ==
    ASSUME IInv, NEW a \in Actors, Continue(a), sub' = sub, res' = res
    PROVE  Moves(a)
  <1> DEFINE l == [loc[a] EXCEPT !.pc = "loop", !.job = NoJob, !.seen = "absent"]
  <1>1. loc[a] \in Local /\ loc \in [Actors -> Local] /\ LocalInv(a)
    BY LocalType
  <1>2. "loop" \in Steps /\ "absent" \in JobStatuses
    BY DEF Steps, JobStatuses
  <1>3. l \in Local /\ loc' = [loc EXCEPT ![a] = l]
    BY <1>1, <1>2 DEF Local, Continue
  <1>4. /\ l.pc = "loop" /\ l.job = NoJob /\ l.todo = loc[a].todo
        /\ l.task = loc[a].task /\ l.status = loc[a].status
    BY <1>1 DEF Local
  <1> HIDE DEF l
  <1>5. loc'[a] = l
    BY <1>1, <1>3
  <1>6. LocalInv(a)'
    BY <1>1, <1>4, <1>5, JobsAssumption DEF LocalInv, Accepted
  <1> QED  BY <1>3, <1>6, MoveTo

\* Going on with the job in hand is a move, for the steps that ask nothing more.
LEMMA GotoMoves ==
    ASSUME IInv, NEW a \in Actors, loc[a].job \in Jobs,
           NEW step \in Steps \ {"idle", "apply"}, Goto(a, step),
           step = "release" => loc[a].job \in ended',
           sub' = sub, res' = res
    PROVE  Moves(a) /\ loc'[a].pc = step /\ loc'[a].job = loc[a].job
  <1> DEFINE l == [loc[a] EXCEPT !.pc = step]
  <1>1. loc[a] \in Local /\ loc \in [Actors -> Local] /\ LocalInv(a)
    BY LocalType
  <1>2. l \in Local /\ loc' = [loc EXCEPT ![a] = l]
    BY <1>1 DEF Local, Goto
  <1>3. /\ l.pc = step /\ l.job = loc[a].job /\ l.todo = loc[a].todo
        /\ l.task = loc[a].task /\ l.status = loc[a].status
    BY <1>1 DEF Local
  <1> HIDE DEF l
  <1>4. loc'[a] = l
    BY <1>1, <1>2
  <1>5. LocalInv(a)'
    BY <1>1, <1>3, <1>4 DEF LocalInv, Accepted
  <1> QED  BY <1>2, <1>3, <1>4, <1>5, MoveTo

\* What a process starts a task from.
Listed(step, t, jobs, statuses, retries) ==
    [Idle EXCEPT !.pc = step, !.task = t, !.todo = jobs, !.status = statuses, !.retry = retries]

\* A fresh listing of accepted jobs is a good local state.
LEMMA ListedLocal ==
    ASSUME NEW step \in {"loop", "podSet"}, NEW t \in Tasks, NEW jobs \in SUBSET Jobs,
           NEW statuses \in [Jobs -> JobStatuses], NEW retries \in [Jobs -> Nat],
           NEW l, l = Listed(step, t, jobs, statuses, retries)
    PROVE  /\ l \in Local
           /\ l.pc = step /\ l.task = t /\ l.todo = jobs /\ l.job = NoJob /\ l.status = statuses
  <1>1. l = [pc |-> step, task |-> t, todo |-> jobs, job |-> NoJob,
             status |-> statuses, retry |-> retries, seen |-> "absent"]
    BY DEF Listed, Idle
  <1>2. step \in Steps /\ "absent" \in JobStatuses
    BY DEF Steps, JobStatuses
  <1> QED  BY <1>1, <1>2 DEF Local

\* Beginning a task with such a listing is a move.
LEMMA ListMoves ==
    ASSUME IInv, NEW a \in Actors, NEW step \in {"loop", "podSet"}, NEW t \in Tasks,
           NEW jobs \in SUBSET Jobs, \A j \in jobs : Accepted(j),
           NEW statuses \in [Jobs -> JobStatuses], NEW retries \in [Jobs -> Nat],
           t = "reconciler" => \A j \in jobs : statuses[j] \in LiveStatuses,
           loc' = [loc EXCEPT ![a] = Listed(step, t, jobs, statuses, retries)],
           sub' = sub, res' = res
    PROVE  Moves(a)
  <1>1. loc'[a] = Listed(step, t, jobs, statuses, retries)
    BY LocalType
  <1>2. /\ loc'[a] \in Local
        /\ loc'[a].pc = step /\ loc'[a].task = t /\ loc'[a].todo = jobs
        /\ loc'[a].job = NoJob /\ loc'[a].status = statuses
    BY <1>1, ListedLocal
  <1>3. LocalInv(a)'
    BY <1>2, JobsAssumption DEF LocalInv, Accepted
  <1> QED  BY <1>1, <1>2, <1>3, MoveTo

-----------------------------------------------------------------------------
(* What becomes of the objects, and the job in hand.                       *)

\* Deleting objects leaves objects of accepted jobs only.
LEMMA CleanupKeeps ==
    ASSUME IInv, NEW j \in Jobs, CleanupError(j)
    PROVE  ObjectsAccepted
  BY DEF IInv, TypeOK, JobInv, CleanupError, Cleanup, ObjectStates, ObjectsAccepted

\* Objects that stay as they are stay those of accepted jobs.
LEMMA ObjectsKept ==
    ASSUME IInv, objects' = objects
    PROVE  ObjectsAccepted
  BY DEF IInv, TypeOK, JobInv, ObjectsAccepted

\* Away from the head of the loop, the job in hand is an accepted job.
LEMMA JobInHand ==
    ASSUME IInv, NEW a \in Actors, loc[a].pc \notin {"idle", "loop", "podSet"}
    PROVE  loc[a].job \in Jobs /\ Accepted(loc[a].job)
  BY LocalType DEF LocalInv

\* A process marks the job in hand terminal and goes on to release its quota.
LEMMA TerminalMark ==
    ASSUME IInv, NEW a \in Actors, loc[a].pc \notin {"idle", "loop", "podSet", "release"},
           NEW s \in WrittenStatuses, s \in TerminalStatuses,
           SetStatus(loc[a].job, s), Goto(a, "release"),
           UNCHANGED <<sub, retry, due, aged, objects, res, inflight, rolledBack, lost, faults>>
    PROVE  IInv'
  <1>1. loc[a].job \in Jobs /\ Accepted(loc[a].job)
    BY JobInHand
  <1>2. loc[a].job \in ended'
    BY DEF SetStatus
  <1>3. "release" \in Steps
    BY DEF Steps
  <1>4. Moves(a) /\ loc'[a].pc = "release" /\ loc'[a].job = loc[a].job
    BY <1>1, <1>2, <1>3, GotoMoves
  <1>5. RetryBudget'
    BY <1>1 DEF IInv, TypeOK, RetryBudget, SetStatus, TerminalStatuses
  <1>6. /\ retry \in [Jobs -> Nat] /\ due \in [Jobs -> BOOLEAN]
        /\ lost \in SUBSET Jobs /\ faults \in Nat
    BY DEF IInv, TypeOK
  <1> QED  BY <1>1, <1>4, <1>5, <1>6, MarkStep

\* A process marks the job in hand live, as it was observed or created, and
\* takes the next job.
LEMMA LiveMark ==
    ASSUME IInv, NEW a \in Actors, loc[a].pc \notin {"idle", "loop", "podSet", "release"},
           NEW s \in {"queued", "running"},
           SetStatus(loc[a].job, s), Continue(a),
           UNCHANGED <<sub, retry, due, aged, objects, res, inflight, rolledBack, lost, faults>>
    PROVE  IInv'
  <1>1. loc[a].job \in Jobs /\ Accepted(loc[a].job)
    BY JobInHand
  <1>2. Moves(a)
    BY ContinueMoves
  <1>3. RetryBudget'
    BY <1>1 DEF IInv, TypeOK, RetryBudget, SetStatus
  <1>4. /\ retry \in [Jobs -> Nat] /\ due \in [Jobs -> BOOLEAN]
        /\ lost \in SUBSET Jobs /\ faults \in Nat
    BY DEF IInv, TypeOK
  <1>5. s \in WrittenStatuses /\ s \notin TerminalStatuses
    BY DEF WrittenStatuses, TerminalStatuses
  <1> QED  BY <1>1, <1>2, <1>3, <1>4, <1>5, MarkStep

-----------------------------------------------------------------------------
(* The initial states and the submit handlers.                             *)

\* The invariant holds before anything is submitted.
LEMMA InitInv == Init => IInv
  <1> SUFFICES ASSUME Init PROVE IInv
    OBVIOUS
  <1>1. Idle \in Local
    BY DEF Idle, Local, Steps, Tasks, JobStatuses
  <1>2. TypeOK
    BY <1>1 DEF Init, TypeOK, SubmitStates, JobStatuses, ObjectStates, ReservationStates
  <1>3. SubmitInv /\ JobInv
    BY DEF Init, SubmitInv, JobInv
  <1>4. \A a \in Actors : LocalInv(a)
    BY JobsAssumption DEF Init, LocalInv, Idle
  <1>5. ReleasedOnlyAfterEnd /\ QuotaAccounted /\ RetryBudget
    BY BoundsAssumption DEF Init, ReleasedOnlyAfterEnd, QuotaAccounted, RetryBudget
  <1> QED  BY <1>2, <1>3, <1>4, <1>5 DEF IInv

\* The handler of a submission changes no local state of the processes, and
\* what it does to its reservation keeps accepted jobs accepted.
LEMMA SubmitStep ==
    ASSUME IInv, NEW j \in Jobs, Submit(j)
    PROVE  IInv'
  <1> USE DEF record
  <1>1. CASE SubmitReserve(j)
    <2>1. TypeOK'
      BY <1>1 DEF IInv, TypeOK, SubmitReserve, SubmitStates, ReservationStates
    <2>2. SubmitInv' /\ JobInv'
      BY <1>1 DEF IInv, TypeOK, SubmitInv, JobInv, Accepted, SubmitReserve
    <2>3. \A a \in Actors : LocalInv(a)'
      BY <1>1, ZenonT(30) DEF IInv, TypeOK, Local, LocalInv, Accepted, SubmitReserve
    <2>4. ReleasedOnlyAfterEnd' /\ QuotaAccounted' /\ RetryBudget'
      BY <1>1, ZenonT(30) DEF IInv, TypeOK, ReleasedOnlyAfterEnd, QuotaAccounted, RetryBudget, SubmitReserve
    <2> QED  BY <2>1, <2>2, <2>3, <2>4 DEF IInv
  <1>2. CASE SubmitReserveLost(j)
    <2>1. TypeOK'
      BY <1>2 DEF IInv, TypeOK, SubmitReserveLost, Fault, SubmitStates, ReservationStates
    <2>2. SubmitInv' /\ JobInv'
      BY <1>2 DEF IInv, TypeOK, SubmitInv, JobInv, Accepted, SubmitReserveLost
    <2>3. \A a \in Actors : LocalInv(a)'
      BY <1>2, ZenonT(30) DEF IInv, TypeOK, Local, LocalInv, Accepted, SubmitReserveLost
    <2>4. ReleasedOnlyAfterEnd' /\ QuotaAccounted' /\ RetryBudget'
      BY <1>2 DEF IInv, TypeOK, SubmitInv, JobInv, Accepted, ReleasedOnlyAfterEnd, QuotaAccounted, RetryBudget,
             SubmitReserveLost
    <2> QED  BY <2>1, <2>2, <2>3, <2>4 DEF IInv
  <1>3. CASE SubmitCommit(j)
    <2>1. TypeOK'
      BY <1>3 DEF IInv, TypeOK, SubmitCommit, Fault, SubmitStates, ReservationStates
    <2>2. SubmitInv' /\ JobInv'
      BY <1>3 DEF IInv, TypeOK, SubmitInv, JobInv, Accepted, SubmitCommit
    <2>3. \A a \in Actors : LocalInv(a)'
      BY <1>3 DEF IInv, TypeOK, Local, LocalInv, Accepted, SubmitCommit
    <2>4. ReleasedOnlyAfterEnd' /\ QuotaAccounted' /\ RetryBudget'
      BY <1>3 DEF IInv, TypeOK, SubmitInv, JobInv, Accepted, ReleasedOnlyAfterEnd, QuotaAccounted, RetryBudget,
             SubmitCommit
    <2> QED  BY <2>1, <2>2, <2>3, <2>4 DEF IInv
  <1>4. CASE SubmitCommitError(j)
    <2>1. TypeOK'
      BY <1>4 DEF IInv, TypeOK, SubmitCommitError, Fault, SubmitStates, ReservationStates
    <2>2. SubmitInv' /\ JobInv'
      BY <1>4, ZenonT(30) DEF IInv, TypeOK, SubmitInv, JobInv, Accepted, SubmitCommitError
    <2>3. \A a \in Actors : LocalInv(a)'
      BY <1>4 DEF IInv, TypeOK, Local, LocalInv, Accepted, SubmitCommitError
    <2>4. ReleasedOnlyAfterEnd' /\ QuotaAccounted' /\ RetryBudget'
      BY <1>4 DEF IInv, TypeOK, SubmitInv, JobInv, Accepted, ReleasedOnlyAfterEnd, QuotaAccounted, RetryBudget,
             SubmitCommitError
    <2> QED  BY <2>1, <2>2, <2>3, <2>4 DEF IInv
  <1>5. CASE SubmitCreate(j)
    <2>1. TypeOK'
      BY <1>5 DEF IInv, TypeOK, SubmitCreate, Fault, SubmitStates, ReservationStates, SetStatus,
             JobStatuses, WrittenStatuses, TerminalStatuses
    <2>2. SubmitInv' /\ JobInv'
      BY <1>5 DEF IInv, TypeOK, SubmitInv, JobInv, Accepted, SubmitCreate, SetStatus,
             JobStatuses, WrittenStatuses, TerminalStatuses
    <2>3. \A a \in Actors : LocalInv(a)'
      BY <1>5 DEF IInv, TypeOK, Local, LocalInv, Accepted, SubmitCreate, SetStatus,
             JobStatuses, WrittenStatuses, TerminalStatuses
    <2>4. ReleasedOnlyAfterEnd' /\ QuotaAccounted' /\ RetryBudget'
      BY <1>5 DEF IInv, TypeOK, SubmitInv, JobInv, Accepted, ReleasedOnlyAfterEnd, QuotaAccounted, RetryBudget,
             SubmitCreate, SetStatus,
             JobStatuses, WrittenStatuses, TerminalStatuses
    <2> QED  BY <2>1, <2>2, <2>3, <2>4 DEF IInv
  <1>6. CASE SubmitCreateError(j)
    <2>1. TypeOK'
      BY <1>6 DEF IInv, TypeOK, SubmitCreateError, Fault, SubmitStates, ReservationStates, SetStatus,
             JobStatuses, WrittenStatuses, TerminalStatuses
    <2>2. SubmitInv' /\ JobInv'
      BY <1>6 DEF IInv, TypeOK, SubmitInv, JobInv, Accepted, SubmitCreateError, SetStatus,
             JobStatuses, WrittenStatuses, TerminalStatuses
    <2>3. \A a \in Actors : LocalInv(a)'
      BY <1>6 DEF IInv, TypeOK, Local, LocalInv, Accepted, SubmitCreateError, SetStatus,
             JobStatuses, WrittenStatuses, TerminalStatuses
    <2>4. ReleasedOnlyAfterEnd' /\ QuotaAccounted' /\ RetryBudget'
      BY <1>6 DEF IInv, TypeOK, SubmitInv, JobInv, Accepted, ReleasedOnlyAfterEnd, QuotaAccounted, RetryBudget,
             SubmitCreateError, SetStatus,
             JobStatuses, WrittenStatuses, TerminalStatuses
    <2> QED  BY <2>1, <2>2, <2>3, <2>4 DEF IInv
  <1>7. CASE SubmitCrash(j)
    <2>1. TypeOK'
      BY <1>7 DEF IInv, TypeOK, SubmitCrash, Fault, SubmitStates, ReservationStates
    <2>2. SubmitInv' /\ JobInv'
      BY <1>7 DEF IInv, TypeOK, SubmitInv, JobInv, Accepted, SubmitCrash
    <2>3. \A a \in Actors : LocalInv(a)'
      BY <1>7 DEF IInv, TypeOK, Local, LocalInv, Accepted, SubmitCrash
    <2>4. ReleasedOnlyAfterEnd' /\ QuotaAccounted' /\ RetryBudget'
      BY <1>7 DEF IInv, TypeOK, SubmitInv, JobInv, Accepted, ReleasedOnlyAfterEnd, QuotaAccounted, RetryBudget,
             SubmitCrash
    <2> QED  BY <2>1, <2>2, <2>3, <2>4 DEF IInv
  <1> QED  BY <1>1, <1>2, <1>3, <1>4, <1>5, <1>6, <1>7 DEF Submit

-----------------------------------------------------------------------------
(* The actions that begin a task, and those of a workload replica.         *)

\* A task begins with jobs whose record or whose objects it has found.
LEMMA StartStep ==
    ASSUME IInv, NEW a \in Actors, Start(a)
    PROVE  IInv'
  <1> DEFINE Started(t, jobs, statuses, retries) ==
                 loc' = [loc EXCEPT ![a] = Listed("loop", t, jobs, statuses, retries)]
  <1>1. Idle.status \in [Jobs -> JobStatuses] /\ Idle.retry \in [Jobs -> Nat]
    BY DEF Idle, JobStatuses
  <1>2. \A j \in Jobs : status[j] # "absent" \/ objects[j] # "absent" => Accepted(j)
    BY DEF IInv, JobInv
  <1>3. status \in [Jobs -> JobStatuses] /\ retry \in [Jobs -> Nat]
    BY DEF IInv, TypeOK
  <1>4. loc[a].pc = "idle" /\ Quiet /\ objects' = objects
    BY DEF Start, StartDispatcher, StartReconciler, StartRuntimeReaper, StartIdleReaper,
           StartPlanReaper, StartPreemption, Begin, BeginListed, Quiet, record
  <1>5. SUFFICES Moves(a)
    BY <1>4, QuietStep, ObjectsKept
  <1>6. sub' = sub /\ res' = res
    BY <1>4 DEF Quiet
  <1>7. CASE StartDispatcher(a)
    <2>1. PICK jobs \in SUBSET DispatchCandidates : Started("dispatcher", jobs, Idle.status, retry)
      BY <1>7 DEF StartDispatcher, BeginListed, Listed
    <2>2. jobs \in SUBSET Jobs /\ \A j \in jobs : Accepted(j)
      BY <1>2 DEF DispatchCandidates
    <2>3. "dispatcher" \in Tasks /\ "loop" \in {"loop", "podSet"}
      BY DEF Tasks
    <2> QED  BY <1>1, <1>3, <1>6, <2>1, <2>2, <2>3, ListMoves
  <1>8. CASE StartReconciler(a)
    <2> DEFINE jobs == {j \in Jobs : status[j] \in LiveStatuses}
    <2>1. Started("reconciler", jobs, status, Idle.retry)
      BY <1>8 DEF StartReconciler, BeginListed, Listed
    <2>2. jobs \in SUBSET Jobs /\ \A j \in jobs : Accepted(j) /\ status[j] \in LiveStatuses
      BY <1>2 DEF LiveStatuses, ActiveStatuses
    <2>3. "reconciler" \in Tasks /\ "loop" \in {"loop", "podSet"}
      BY DEF Tasks
    <2> HIDE DEF jobs
    <2> QED  BY <1>1, <1>3, <1>6, <2>1, <2>2, <2>3, ListMoves
  <1>9. ASSUME NEW t \in Tasks \ {"reconciler"}, NEW jobs \in SUBSET Jobs, Begin(a, t, jobs),
               \A j \in jobs : Accepted(j)
        PROVE  Moves(a)
    <2>1. Started(t, jobs, Idle.status, Idle.retry)
      BY <1>9 DEF Begin, Listed, Idle
    <2>2. "loop" \in {"loop", "podSet"}
      OBVIOUS
    <2> QED  BY <1>1, <1>6, <1>9, <2>1, <2>2, ListMoves
  <1>10. CASE StartRuntimeReaper(a)
    <2>1. PICK jobs \in SUBSET {j \in Jobs : objects[j] # "absent"} : Begin(a, "runtime", jobs)
      BY <1>10 DEF StartRuntimeReaper
    <2> QED  BY <1>2, <1>9, <2>1 DEF Tasks
  <1>11. CASE StartIdleReaper(a)
    <2>1. PICK jobs \in SUBSET {j \in Jobs : HasPods(objects[j])} : Begin(a, "idle", jobs)
      BY <1>11 DEF StartIdleReaper
    <2> QED  BY <1>2, <1>9, <2>1 DEF Tasks, HasPods
  <1>12. CASE StartPlanReaper(a)
    <2>1. PICK jobs \in SUBSET {j \in Jobs : HasPods(objects[j])} : Begin(a, "evict", jobs)
      BY <1>12 DEF StartPlanReaper
    <2> QED  BY <1>2, <1>9, <2>1 DEF Tasks, HasPods
  <1>13. CASE StartPreemption(a)
    <2>1. PICK jobs \in SUBSET {j \in Jobs : status[j] \in PreemptibleStatuses} :
                 Begin(a, "preempt", jobs)
      BY <1>13 DEF StartPreemption
    <2> QED  BY <1>2, <1>9, <2>1 DEF Tasks, PreemptibleStatuses
  <1> QED  BY <1>7, <1>8, <1>10, <1>11, <1>12, <1>13 DEF Start

\* The dispatcher creates objects only for the accepted jobs it has listed,
\* and fails a job before it releases its quota.
LEMMA DispatchStep ==
    ASSUME IInv, NEW a \in Actors, Dispatch(a) \/ DispatchFailUnread(a)
    PROVE  IInv'
  <1>1. CASE DispatchReject(a) \/ DispatchUnavailable(a) \/ DispatchPrepareError(a)
    <2>1. PICK j \in Jobs : /\ AtHead(a, "dispatcher", j)
                            /\ \E step \in {"fail", "defer", "rollbackFail"} : Take(a, j, step)
      BY <1>1 DEF DispatchReject, DispatchUnavailable, DispatchPrepareError, DispatchNext
    <2>2. Quiet /\ objects' = objects
      BY <1>1 DEF DispatchReject, DispatchUnavailable, DispatchPrepareError, Quiet, record
    <2>3. Moves(a) /\ loc[a].pc # "release"
      BY <2>1, <2>2, TakeMoves DEF AtHead, Quiet, Steps
    <2> QED  BY <2>2, <2>3, QuietStep, ObjectsKept
  <1>2. CASE DispatchCreate(a) \/ DispatchCreateError(a)
    <2>1. PICK j \in Jobs, o \in {"absent", "unscheduled", "queued"} :
                 /\ AtHead(a, "dispatcher", j)
                 /\ \E step \in {"mark", "rollbackFail", "rollbackDefer"} : Take(a, j, step)
                 /\ objects' = [objects EXCEPT ![j] = IF @ = "absent" THEN o ELSE @]
      BY <1>2 DEF DispatchCreate, DispatchCreateError, DispatchNext
    <2>2. Quiet
      BY <1>2 DEF DispatchCreate, DispatchCreateError, Quiet, record
    <2>3. Moves(a) /\ Accepted(j) /\ loc[a].pc # "release"
      BY <2>1, <2>2, TakeMoves DEF AtHead, Quiet, Steps
    <2>4. ObjectsAccepted
      BY <2>1, <2>3 DEF IInv, TypeOK, JobInv, ObjectStates, ObjectsAccepted
    <2> QED  BY <2>2, <2>3, <2>4, QuietStep
  <1>3. CASE DispatchRollback(a)
    <2>1. /\ loc[a].pc \in {"rollbackFail", "rollbackDefer"}
          /\ \E step \in {"fail", "defer"} : Goto(a, step)
          /\ CleanupError(loc[a].job)
          /\ Quiet
      BY <1>3 DEF DispatchRollback, Quiet, record
    <2>2. loc[a].job \in Jobs
      BY <2>1, JobInHand
    <2>3. Moves(a)
      BY <2>1, <2>2, GotoMoves DEF Quiet, Steps
    <2> QED  BY <2>1, <2>2, <2>3, QuietStep, CleanupKeeps
  <1>4. CASE DispatchDefer(a)
    <2> DEFINE j == loc[a].job
               n == loc[a].retry[j] + 1
    <2>1. /\ loc[a].pc = "defer" /\ n < RetryMax
          /\ SetStatus(j, "waiting_infra")
          /\ retry' = [retry EXCEPT ![j] = n] /\ due' = [due EXCEPT ![j] = FALSE]
          /\ Continue(a)
          /\ UNCHANGED <<sub, aged, objects, res, inflight, rolledBack, lost, faults>>
      BY <1>4 DEF DispatchDefer
    <2>2. j \in Jobs /\ Accepted(j)
      BY <2>1, JobInHand
    <2>3. loc[a].retry \in [Jobs -> Nat]
      BY LocalType
    <2>4. n \in Nat \ {0}
      BY <2>2, <2>3
    <2> HIDE DEF j, n
    <2>5. Moves(a)
      BY <2>1, ContinueMoves
    <2>6. /\ retry' \in [Jobs -> Nat] /\ due' \in [Jobs -> BOOLEAN]
          /\ lost \in SUBSET Jobs /\ faults \in Nat
      BY <2>1, <2>2, <2>4 DEF IInv, TypeOK
    <2>7. RetryBudget'
      BY <2>1, <2>2, <2>4 DEF IInv, TypeOK, RetryBudget, SetStatus
    <2>8. "waiting_infra" \in WrittenStatuses \ TerminalStatuses
      BY DEF WrittenStatuses, TerminalStatuses
    <2> QED  BY <2>1, <2>2, <2>5, <2>6, <2>7, <2>8, MarkStep
  <1>5. CASE DispatchRetriesExhausted(a)
    <2>1. loc[a].pc = "defer" /\ Goto(a, "fail") /\ Quiet /\ objects' = objects
      BY <1>5 DEF DispatchRetriesExhausted, Quiet, record
    <2>2. Moves(a)
      BY <2>1, JobInHand, GotoMoves DEF Quiet, Steps
    <2> QED  BY <2>1, <2>2, QuietStep, ObjectsKept
  <1>6. CASE DispatchFail(a)
    BY <1>6, TerminalMark DEF DispatchFail, WrittenStatuses, TerminalStatuses
  <1>7. CASE DispatchFailUnread(a)
    <2>1. /\ loc[a].pc = "fail" /\ SetStatus(loc[a].job, "failed") /\ Continue(a)
          /\ lost' = lost \cup {loc[a].job} /\ Fault
          /\ UNCHANGED <<sub, retry, due, aged, objects, res, inflight, rolledBack>>
      BY <1>7 DEF DispatchFailUnread
    <2>2. loc[a].job \in Jobs /\ Accepted(loc[a].job)
      BY <2>1, JobInHand
    <2>3. Moves(a)
      BY <2>1, ContinueMoves
    <2>4. /\ retry \in [Jobs -> Nat] /\ due \in [Jobs -> BOOLEAN]
          /\ lost' \in SUBSET Jobs /\ faults' \in Nat
      BY <2>1, <2>2 DEF IInv, TypeOK, Fault
    <2>5. RetryBudget'
      BY <2>1, <2>2 DEF IInv, TypeOK, RetryBudget, SetStatus
    <2>6. "failed" \in WrittenStatuses
      BY DEF WrittenStatuses
    <2> QED  BY <2>1, <2>2, <2>3, <2>4, <2>5, <2>6, MarkStep
  <1>8. CASE DispatchMarkRunning(a)
    BY <1>8, LiveMark DEF DispatchMarkRunning
  <1> QED  BY <1>1, <1>2, <1>3, <1>4, <1>5, <1>6, <1>7, <1>8 DEF Dispatch

\* The status reconciler releases only after it has written a terminal status.
LEMMA ReconcileStep ==
    ASSUME IInv, NEW a \in Actors, Reconcile(a)
    PROVE  IInv'
  <1>1. CASE ReconcileNotFound(a)
    <2>1. PICK j \in Jobs : loc[a].pc = "loop" /\ Skip(a, j)
      BY <1>1 DEF ReconcileNotFound, AtHead
    <2>2. Quiet /\ objects' = objects
      BY <1>1 DEF ReconcileNotFound, Quiet, record
    <2>3. Moves(a)
      BY <2>1, <2>2, SkipMoves DEF Quiet
    <2> QED  BY <2>1, <2>2, <2>3, QuietStep, ObjectsKept
  <1>2. CASE ReconcileObserve(a)
    <2>1. PICK j \in Jobs :
                 /\ AtHead(a, "reconciler", j)
                 /\ \E s \in Lifecycle(objects[j]) :
                        loc' = [loc EXCEPT ![a] =
                                  [loc[a] EXCEPT !.pc = "apply", !.job = j, !.seen = s,
                                                 !.todo = loc[a].todo \ {j}]]
      BY <1>2 DEF ReconcileObserve
    <2>2. PICK s \in Lifecycle(objects[j]) :
                 loc' = [loc EXCEPT ![a] =
                           [loc[a] EXCEPT !.pc = "apply", !.job = j, !.seen = s,
                                          !.todo = loc[a].todo \ {j}]]
      BY <2>1
    <2>3. Quiet /\ objects' = objects
      BY <1>2 DEF ReconcileObserve, Quiet, record
    <2>4. s \in Observations
      BY <2>2 DEF IInv, TypeOK, Lifecycle, ObjectStates, Observations
    <2>5. loc[a] \in Local /\ loc \in [Actors -> Local] /\ LocalInv(a)
      BY LocalType
    <2> DEFINE l == [loc[a] EXCEPT !.pc = "apply", !.job = j, !.seen = s,
                                   !.todo = loc[a].todo \ {j}]
    <2>6. "apply" \in Steps /\ s \in JobStatuses
      BY <2>4 DEF Steps, JobStatuses, WrittenStatuses, Observations
    <2>7. l \in Local
      BY <2>5, <2>6 DEF Local
    <2>8. /\ l.pc = "apply" /\ l.job = j /\ l.seen = s /\ l.todo = loc[a].todo \ {j}
          /\ l.task = loc[a].task /\ l.status = loc[a].status
      BY <2>5 DEF Local
    <2>9. loc' = [loc EXCEPT ![a] = l]
      BY <2>2
    <2> HIDE DEF l
    <2>10. loc'[a] = l
      BY <2>5, <2>9
    <2>11. LocalInv(a)'
      BY <2>1, <2>3, <2>4, <2>5, <2>8, <2>10 DEF LocalInv, Accepted, AtHead, Quiet
    <2>12. Moves(a)
      BY <2>7, <2>9, <2>11, MoveTo
    <2> QED  BY <2>1, <2>3, <2>12, QuietStep, ObjectsKept DEF AtHead
  <1>3. CASE ReconcileAbort(a)
    <2>1. loc[a].pc = "loop" /\ Stop(a) /\ Quiet /\ objects' = objects
      BY <1>3 DEF ReconcileAbort, AtHead, Quiet, record
    <2> QED  BY <2>1, StopMoves, QuietStep, ObjectsKept
  <1>4. CASE ReconcileApply(a)
    <2> DEFINE s == loc[a].seen
    <2>1. loc[a].pc = "apply"
      BY <1>4 DEF ReconcileApply
    <2>2. s \in Observations /\ loc[a].status[loc[a].job] \in LiveStatuses
      BY <2>1, LocalType DEF LocalInv
    <2>3. CASE s = loc[a].status[loc[a].job]
      <3>1. s \notin {"completed", "failed"}
        BY <2>2, <2>3 DEF LiveStatuses, ActiveStatuses
      <3>2. Continue(a) /\ Quiet /\ objects' = objects
        BY <1>4, <2>3, <3>1 DEF ReconcileApply, Quiet
      <3>3. Moves(a)
        BY <3>2, ContinueMoves DEF Quiet
      <3> QED  BY <2>1, <3>2, <3>3, QuietStep, ObjectsKept
    <2>4. CASE s # loc[a].status[loc[a].job] /\ s \in {"completed", "failed"}
      <3>1. s \in WrittenStatuses /\ s \in TerminalStatuses
        BY <2>4 DEF WrittenStatuses, TerminalStatuses
      <3>2. SetStatus(loc[a].job, s) /\ Goto(a, "release")
        BY <1>4, <2>4 DEF ReconcileApply
      <3>3. UNCHANGED <<sub, retry, due, aged, objects, res, inflight, rolledBack, lost, faults>>
        BY <1>4 DEF ReconcileApply
      <3> QED  BY <2>1, <3>1, <3>2, <3>3, TerminalMark
    <2>5. CASE s # loc[a].status[loc[a].job] /\ s \notin {"completed", "failed"}
      <3>1. s \in {"queued", "running"}
        BY <2>2, <2>5 DEF Observations
      <3>2. SetStatus(loc[a].job, s) /\ Continue(a)
        BY <1>4, <2>5 DEF ReconcileApply
      <3>3. UNCHANGED <<sub, retry, due, aged, objects, res, inflight, rolledBack, lost, faults>>
        BY <1>4 DEF ReconcileApply
      <3> QED  BY <2>1, <3>1, <3>2, <3>3, LiveMark
    <2> QED  BY <2>3, <2>4, <2>5
  <1> QED  BY <1>1, <1>2, <1>3, <1>4 DEF Reconcile

\* The reapers release only after they have written a terminal status.
LEMMA ReapStep ==
    ASSUME IInv, NEW a \in Actors, Reap(a)
    PROVE  IInv'
  <1>1. Idle.status \in [Jobs -> JobStatuses] /\ Idle.retry \in [Jobs -> Nat]
    BY DEF Idle, JobStatuses
  <1>2. "stale" \in Tasks
    BY DEF Tasks
  <1>3. CASE ReapCleanup(a)
    <2>1. PICK j \in Jobs, t \in {"runtime", "idle"} :
                 /\ AtHead(a, t, j)
                 /\ CleanupError(j)
                 /\ Take(a, j, "guard") \/ Skip(a, j)
      BY <1>3 DEF ReapCleanup, CleanupError
    <2>2. Quiet
      BY <1>3 DEF ReapCleanup, Quiet, record
    <2>3. Moves(a) /\ loc[a].pc # "release"
      BY <2>1, <2>2, TakeMoves, SkipMoves DEF AtHead, Quiet, Steps
    <2> QED  BY <2>1, <2>2, <2>3, QuietStep, CleanupKeeps
  <1>4. CASE StaleListPods(a)
    <2> DEFINE jobs == {j \in Jobs : HasPods(objects[j])}
    <2>1. loc' = [loc EXCEPT ![a] = Listed("podSet", "stale", jobs, Idle.status, Idle.retry)]
      BY <1>4 DEF StaleListPods, Listed, Idle
    <2>2. jobs \in SUBSET Jobs /\ \A j \in jobs : Accepted(j)
      BY DEF IInv, JobInv, HasPods
    <2>3. Quiet /\ objects' = objects /\ loc[a].pc = "loop"
      BY <1>4 DEF StaleListPods, Quiet, record
    <2> HIDE DEF jobs
    <2>4. Moves(a)
      BY <1>1, <1>2, <2>1, <2>2, <2>3, ListMoves DEF Quiet
    <2> QED  BY <2>3, <2>4, QuietStep, ObjectsKept
  <1>5. CASE StaleListRecords(a)
    <2> DEFINE jobs == {j \in Jobs : /\ status[j] \in StaleStatuses
                                     /\ aged[j]
                                     /\ j \notin loc[a].todo}
    <2>1. loc' = [loc EXCEPT ![a] = Listed("loop", "stale", jobs, Idle.status, Idle.retry)]
      BY <1>5 DEF StaleListRecords, Listed, Idle
    <2>2. jobs \in SUBSET Jobs /\ \A j \in jobs : Accepted(j)
      BY DEF IInv, JobInv, StaleStatuses
    <2>3. Quiet /\ objects' = objects /\ loc[a].pc = "podSet"
      BY <1>5 DEF StaleListRecords, Quiet, record
    <2> HIDE DEF jobs
    <2>4. Moves(a)
      BY <1>1, <1>2, <2>1, <2>2, <2>3, ListMoves DEF Quiet
    <2> QED  BY <2>3, <2>4, QuietStep, ObjectsKept
  <1>6. CASE StaleNext(a)
    <2>1. PICK j \in Jobs : AtHead(a, "stale", j) /\ Take(a, j, "guard")
      BY <1>6 DEF StaleNext
    <2>2. Quiet /\ objects' = objects
      BY <1>6 DEF StaleNext, Quiet, record
    <2>3. Moves(a) /\ loc[a].pc # "release"
      BY <2>1, <2>2, TakeMoves DEF AtHead, Quiet, Steps
    <2> QED  BY <2>2, <2>3, QuietStep, ObjectsKept
  <1>7. CASE ReapGuard(a)
    <2>1. /\ loc[a].pc = "guard" /\ Quiet /\ objects' = objects
          /\ Goto(a, "markFailed") \/ Continue(a)
      BY <1>7 DEF ReapGuard, Quiet, record
    <2>2. Moves(a)
      BY <2>1, JobInHand, GotoMoves, ContinueMoves DEF Quiet, Steps
    <2> QED  BY <2>1, <2>2, QuietStep, ObjectsKept
  <1>8. CASE ReapMarkFailed(a)
    BY <1>8, TerminalMark DEF ReapMarkFailed, WrittenStatuses, TerminalStatuses
  <1> QED  BY <1>3, <1>4, <1>5, <1>6, <1>7, <1>8 DEF Reap

-----------------------------------------------------------------------------
(* The eviction contract, the plan reaper and the other actions.           *)

\* The eviction contract marks a job before it releases its quota.
LEMMA EvictStep ==
    ASSUME IInv, NEW a \in Actors, Evict(a)
    PROVE  IInv'
  <1>1. CASE EvictRead(a)
    <2>1. PICK j \in Jobs : /\ AtHead(a, "evict", j)
                            /\ \/ \E step \in {"evictCleanup", "evictMark"} : Take(a, j, step)
                               \/ Skip(a, j)
      BY <1>1 DEF EvictRead
    <2>2. Quiet /\ objects' = objects
      BY <1>1 DEF EvictRead, Quiet, record
    <2>3. Moves(a) /\ loc[a].pc # "release"
      BY <2>1, <2>2, TakeMoves, SkipMoves DEF AtHead, Quiet, Steps
    <2> QED  BY <2>2, <2>3, QuietStep, ObjectsKept
  <1>2. CASE EvictMark(a)
    BY <1>2, TerminalMark DEF EvictMark, WrittenStatuses, TerminalStatuses
  <1>3. CASE EvictCleanup(a)
    <2>1. loc[a].pc = "evictCleanup" /\ CleanupError(loc[a].job) /\ Continue(a) /\ Quiet
      BY <1>3 DEF EvictCleanup, Quiet, record
    <2>2. Moves(a) /\ loc[a].job \in Jobs
      BY <2>1, JobInHand, ContinueMoves DEF Quiet
    <2> QED  BY <2>1, <2>2, QuietStep, CleanupKeeps
  <1> QED  BY <1>1, <1>2, <1>3 DEF Evict

\* The preemption contract marks a job before it releases its quota.
LEMMA PreemptStep ==
    ASSUME IInv, NEW a \in Actors, Preempt(a)
    PROVE  IInv'
  <1>1. CASE PreemptCleanup(a)
    <2>1. PICK j \in Jobs : AtHead(a, "preempt", j) /\ CleanupError(j) /\ Take(a, j, "preempt")
      BY <1>1 DEF PreemptCleanup, CleanupError
    <2>2. Quiet
      BY <1>1 DEF PreemptCleanup, Quiet, record
    <2>3. Moves(a) /\ loc[a].pc # "release"
      BY <2>1, <2>2, TakeMoves DEF AtHead, Quiet, Steps
    <2> QED  BY <2>1, <2>2, <2>3, QuietStep, CleanupKeeps
  <1>2. CASE PreemptCleanupError(a)
    <2>1. PICK j \in Jobs : AtHead(a, "preempt", j) /\ CleanupError(j)
      BY <1>2 DEF PreemptCleanupError
    <2>2. Quiet /\ Stop(a)
      BY <1>2 DEF PreemptCleanupError, Quiet, record
    <2>3. Moves(a) /\ loc[a].pc # "release"
      BY <2>1, <2>2, StopMoves DEF AtHead
    <2> QED  BY <2>1, <2>2, <2>3, QuietStep, CleanupKeeps
  <1>3. CASE PreemptRead(a)
    <2>1. /\ loc[a].pc = "preempt" /\ Quiet /\ objects' = objects
          /\ Goto(a, "preemptMark") \/ Stop(a)
      BY <1>3 DEF PreemptRead, Quiet, record
    <2>2. Moves(a)
      BY <2>1, JobInHand, GotoMoves, StopMoves DEF Quiet, Steps
    <2> QED  BY <2>1, <2>2, QuietStep, ObjectsKept
  <1>4. CASE PreemptMark(a)
    BY <1>4, TerminalMark DEF PreemptMark, WrittenStatuses, TerminalStatuses
  <1> QED  BY <1>1, <1>2, <1>3, <1>4 DEF Preempt

\* A process leaves "release": the request is on its way, or a fault has cost
\* it.
LEMMA ReleaseStep ==
    ASSUME IInv, NEW a \in Actors, Moves(a), loc[a].pc = "release",
           \/ inflight' = inflight \cup {loc[a].job} /\ lost' = lost
           \/ inflight' = inflight /\ lost' = lost \cup {loc[a].job},
           UNCHANGED <<sub, status, retry, due, aged, objects, res, ended, rolledBack>>,
           faults' = faults \/ Fault
    PROVE  IInv'
  <1>1. loc[a].job \in Jobs /\ Accepted(loc[a].job) /\ loc[a].job \in ended
    BY JobInHand, LocalType DEF LocalInv
  <1>2. TypeOK'
    BY <1>1 DEF IInv, TypeOK, Moves, Fault
  <1>3. SubmitInv' /\ JobInv'
    BY <1>1 DEF IInv, SubmitInv, JobInv, Accepted
  <1>4. \A b \in Actors : LocalInv(b)'
    <2>1. ASSUME NEW b \in Actors \ {a} PROVE LocalInv(b)'
      <3>1. LocalInv(b) /\ loc'[b] = loc[b]
        BY DEF IInv, Moves
      <3>2. \A j : Accepted(j)' <=> Accepted(j)
        BY DEF Accepted
      <3> QED  BY <3>1, <3>2 DEF LocalInv
    <2> QED  BY <2>1 DEF Moves
  <1>5. ReleasedOnlyAfterEnd' /\ RetryBudget'
    BY DEF IInv, ReleasedOnlyAfterEnd, RetryBudget
  <1>6. QuotaAccounted'
    <2>1. QuotaAccounted /\ \A b \in Actors \ {a} : loc'[b] = loc[b]
      BY DEF IInv, Moves
    <2>2. inflight' \cup lost' = inflight \cup lost \cup {loc[a].job}
      OBVIOUS
    <2> SUFFICES ASSUME NEW j \in Jobs, res'[j] \in {"reserved", "committed"}
                 PROVE  \/ sub'[j] \in {"reserved", "committed"}
                        \/ status'[j] # "absent" /\ j \notin ended' \cup rolledBack'
                        \/ j \in inflight' \cup lost'
                        \/ \E b \in Actors : loc'[b].pc = "release" /\ loc'[b].job = j
      BY DEF QuotaAccounted
    <2>3. \/ sub[j] \in {"reserved", "committed"}
          \/ status[j] # "absent" /\ j \notin ended \cup rolledBack
          \/ j \in inflight \cup lost
          \/ \E b \in Actors : loc[b].pc = "release" /\ loc[b].job = j
      BY <2>1 DEF QuotaAccounted
    <2>4. ASSUME NEW b \in Actors, loc[b].pc = "release", loc[b].job = j
          PROVE  j \in inflight' \cup lost' \/ (loc'[b].pc = "release" /\ loc'[b].job = j)
      BY <2>1, <2>2, <2>4
    <2> QED  BY <2>2, <2>3, <2>4
  <1> QED  BY <1>2, <1>3, <1>4, <1>5, <1>6 DEF IInv

\* Ending a task, a failed or unacknowledged access to the store, and a crash
\* keep the invariant.
LEMMA SharedStep ==
    ASSUME IInv, NEW a \in Actors,
           \/ Release(a) \/ ReleaseUnanswered(a) \/ EndOfTask(a)
           \/ StoreError(a) \/ AcknowledgementLost(a) \/ Crash(a)
    PROVE  IInv'
  <1>1. CASE Release(a) \/ ReleaseUnanswered(a)
    <2>1. /\ loc[a].pc = "release"
          /\ inflight' = inflight \cup {loc[a].job} /\ lost' = lost
          /\ UNCHANGED <<sub, status, retry, due, aged, objects, res, ended, rolledBack>>
          /\ faults' = faults \/ Fault
          /\ Goto(a, "evictCleanup") \/ Continue(a) \/ Stop(a)
      BY <1>1 DEF Release, ReleaseUnanswered, record
    <2>2. Moves(a)
      BY <2>1, JobInHand, GotoMoves, ContinueMoves, StopMoves DEF Steps
    <2> QED  BY <2>1, <2>2, ReleaseStep
  <1>2. CASE EndOfTask(a) \/ StoreError(a)
    <2>1. /\ loc[a].pc # "release" /\ Quiet /\ objects' = objects
          /\ Continue(a) \/ Stop(a)
      BY <1>2 DEF EndOfTask, StoreError, Quiet, record
    <2>2. Moves(a)
      BY <2>1, ContinueMoves, StopMoves DEF Quiet
    <2> QED  BY <2>1, <2>2, QuietStep, ObjectsKept
  <1>3. CASE Crash(a)
    <2>1. Moves(a)
      BY <1>3, StopMoves DEF Crash
    <2>2. CASE loc[a].pc = "release"
      <3>1. /\ inflight' = inflight /\ lost' = lost \cup {loc[a].job} /\ Fault
            /\ UNCHANGED <<sub, status, retry, due, aged, objects, res, ended, rolledBack>>
        BY <1>3, <2>2 DEF Crash, record
      <3> QED  BY <2>1, <2>2, <3>1, ReleaseStep
    <2>3. CASE loc[a].pc # "release"
      <3>1. Quiet /\ objects' = objects
        BY <1>3, <2>3 DEF Crash, Quiet, record
      <3> QED  BY <2>1, <2>3, <3>1, QuietStep, ObjectsKept
    <2> QED  BY <2>2, <2>3
  <1>4. CASE AcknowledgementLost(a)
    <2>1. /\ loc[a].pc = "release"
          /\ inflight' = inflight /\ lost' = lost \cup {loc[a].job} /\ Fault
          /\ UNCHANGED <<sub, status, retry, due, aged, objects, res, ended, rolledBack>>
          /\ Continue(a) \/ Stop(a)
      BY <1>4 DEF AcknowledgementLost, record
    <2>2. Moves(a)
      BY <2>1, ContinueMoves, StopMoves
    <2> QED  BY <2>1, <2>2, ReleaseStep
  <1> QED  BY <1>1, <1>2, <1>3, <1>4

\* The scheduler serves or loses a release, Kubernetes and time go on.
LEMMA EnvironmentStep ==
    ASSUME IInv, NEW j \in Jobs,
           \/ DeliverRelease(j) \/ LoseRelease(j) \/ Kubernetes(j) \/ RetryDue(j) \/ Age(j)
    PROVE  IInv'
  <1> USE DEF record
  <1>1. CASE DeliverRelease(j)
    <2>1. TypeOK'
      BY <1>1 DEF IInv, TypeOK, DeliverRelease, ReservationStates
    <2>2. SubmitInv' /\ JobInv'
      BY <1>1 DEF IInv, TypeOK, SubmitInv, JobInv, Accepted, DeliverRelease, transitionAllowed
    <2>3. \A k \in Jobs : Accepted(k) => Accepted(k)'
      BY <1>1 DEF IInv, TypeOK, Accepted, DeliverRelease, transitionAllowed
    <2>4. loc' = loc /\ ended' = ended
      BY <1>1 DEF DeliverRelease
    <2>5. \A a \in Actors : LocalInv(a)'
      BY <2>3, <2>4, LocalType DEF IInv, LocalInv
    <2>6. ReleasedOnlyAfterEnd' /\ RetryBudget'
      BY <1>1 DEF IInv, TypeOK, JobInv, ReleasedOnlyAfterEnd, RetryBudget, DeliverRelease
    <2>7. QuotaAccounted'
      BY <1>1 DEF IInv, TypeOK, QuotaAccounted, DeliverRelease, transitionAllowed
    <2> QED  BY <2>1, <2>2, <2>5, <2>6, <2>7 DEF IInv
  <1>2. CASE LoseRelease(j)
    <2>1. TypeOK'
      BY <1>2 DEF IInv, TypeOK, LoseRelease, Fault
    <2>2. SubmitInv' /\ JobInv'
      BY <1>2 DEF IInv, SubmitInv, JobInv, Accepted, LoseRelease
    <2>3. \A a \in Actors : LocalInv(a)'
      BY <1>2 DEF IInv, LocalInv, Accepted, LoseRelease
    <2>4. ReleasedOnlyAfterEnd' /\ QuotaAccounted' /\ RetryBudget'
      BY <1>2 DEF IInv, ReleasedOnlyAfterEnd, QuotaAccounted, RetryBudget, LoseRelease
    <2> QED  BY <2>1, <2>2, <2>3, <2>4 DEF IInv
  <1>3. CASE Kubernetes(j)
    <2>1. objects[j] # "absent"
      BY <1>3 DEF Kubernetes, ObjectProgress
    <2>2. objects' \in [Jobs -> ObjectStates] /\ \A k \in Jobs \ {j} : objects'[k] = objects[k]
      BY <1>3 DEF IInv, TypeOK, Kubernetes, ObjectProgress, ObjectStates
    <2>3. UNCHANGED <<sub, status, retry, due, aged, res, inflight, loc, ended, rolledBack, lost, faults>>
      BY <1>3 DEF Kubernetes
    <2>4. TypeOK'
      BY <2>2, <2>3 DEF IInv, TypeOK
    <2>5. SubmitInv' /\ JobInv'
      BY <2>1, <2>2, <2>3 DEF IInv, SubmitInv, JobInv, Accepted
    <2>6. \A a \in Actors : LocalInv(a)'
      BY <2>3 DEF IInv, LocalInv, Accepted
    <2>7. ReleasedOnlyAfterEnd' /\ QuotaAccounted' /\ RetryBudget'
      BY <2>3 DEF IInv, ReleasedOnlyAfterEnd, QuotaAccounted, RetryBudget
    <2> QED  BY <2>4, <2>5, <2>6, <2>7 DEF IInv
  <1>4. CASE RetryDue(j) \/ Age(j)
    <2>1. TypeOK'
      BY <1>4 DEF IInv, TypeOK, RetryDue, Age
    <2>2. UNCHANGED <<sub, status, retry, objects, res, inflight, loc, ended, rolledBack, lost>>
      BY <1>4 DEF RetryDue, Age
    <2>3. SubmitInv' /\ JobInv'
      BY <2>2 DEF IInv, SubmitInv, JobInv, Accepted
    <2>4. \A a \in Actors : LocalInv(a)'
      BY <2>2 DEF IInv, LocalInv, Accepted
    <2>5. ReleasedOnlyAfterEnd' /\ QuotaAccounted' /\ RetryBudget'
      BY <2>2 DEF IInv, ReleasedOnlyAfterEnd, QuotaAccounted, RetryBudget
    <2> QED  BY <2>1, <2>3, <2>4, <2>5 DEF IInv
  <1> QED  BY <1>1, <1>2, <1>3, <1>4

\* The invariant is inductive: one case per kind of step.
LEMMA NextInv == IInv /\ [Next]_vars => IInv'
  <1> SUFFICES ASSUME IInv, [Next]_vars PROVE IInv'
    OBVIOUS
  <1>1. CASE UNCHANGED vars
    <2>1. TypeOK'
      BY <1>1 DEF IInv, TypeOK, vars
    <2>2. SubmitInv' /\ JobInv'
      BY <1>1 DEF IInv, SubmitInv, JobInv, Accepted, vars
    <2>3. \A a \in Actors : LocalInv(a)'
      BY <1>1 DEF IInv, LocalInv, Accepted, vars
    <2>4. ReleasedOnlyAfterEnd' /\ QuotaAccounted' /\ RetryBudget'
      BY <1>1 DEF IInv, ReleasedOnlyAfterEnd, QuotaAccounted, RetryBudget, vars
    <2> QED  BY <2>1, <2>2, <2>3, <2>4 DEF IInv
  <1>2. ASSUME NEW j \in Jobs,
               \/ Submit(j) \/ DeliverRelease(j) \/ LoseRelease(j)
               \/ Kubernetes(j) \/ RetryDue(j) \/ Age(j)
        PROVE  IInv'
    BY <1>2, SubmitStep, EnvironmentStep
  <1>3. ASSUME NEW a \in Actors, Start(a) \/ Step(a) \/ Failure(a)
        PROVE  IInv'
    BY <1>3, StartStep, DispatchStep, ReconcileStep, ReapStep, EvictStep, PreemptStep, SharedStep
       DEF Step, Failure
  <1> QED  BY <1>1, <1>2, <1>3 DEF Next

-----------------------------------------------------------------------------

\* The invariant holds in every reachable state: records and Kubernetes
\* objects belong to accepted jobs only, every process has only accepted
\* jobs in hand, and it releases only what was ended.
THEOREM Invariance == Spec => []IInv
  <1> QED  BY InitInv, NextInv, PTL DEF Spec

\* Every variable keeps its type, for any number of jobs and processes.
THEOREM TypeCorrect == Spec => []TypeOK
  <1>1. IInv => TypeOK
    BY DEF IInv
  <1> QED  BY <1>1, Invariance, PTL

\* No Kubernetes object of a job exists without quota committed for it:
\* submitJob commits the reservation before it creates the record, and only
\* what has a record is dispatched.
THEOREM QuotaBeforeApply == Spec => []ReservedBeforeApply
  <1>1. IInv => ReservedBeforeApply
    BY DEF IInv, JobInv, Accepted, ReservedBeforeApply
  <1> QED  BY <1>1, Invariance, PTL

\* Quota is given back only after a terminal mark or a rolled-back
\* submission, whichever process sends the release and whatever it has read.
THEOREM ReleaseAfterEnd == Spec => []ReleasedOnlyAfterEnd
  <1>1. IInv => ReleasedOnlyAfterEnd
    BY DEF IInv
  <1> QED  BY <1>1, Invariance, PTL

\* A reservation that is held has someone who will release it, or a fault has
\* cost its release: no interleaving alone leaks quota.
THEOREM QuotaNotForgotten == Spec => []QuotaAccounted
  <1>1. IInv => QuotaAccounted
    BY DEF IInv
  <1> QED  BY <1>1, Invariance, PTL

\* The dispatcher never stores dispatcherRetryMaxAttempts retries, although
\* it counts on from a listed record.
THEOREM RetriesBounded == Spec => []RetryBudget
  <1>1. IInv => RetryBudget
    BY DEF IInv
  <1> QED  BY <1>1, Invariance, PTL
===============================================================================
