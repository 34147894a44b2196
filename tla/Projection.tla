----------------------------- MODULE Projection -----------------------------
(***************************************************************************)
(* One read model of one consumer: the owner's rows and the events that    *)
(* tell of them, the projection runs every read and every maintenance tick *)
(* start, their dead letters and replays, and the reconciler that measures *)
(* drift and rebuilds.                                                     *)
(*                                                                         *)
(* A row is known by the number of the event that wrote it, 0 when there   *)
(* is no row, and -1 when it was written without an event.  Runs overlap   *)
(* up to the width of the behaviour: RunProjection takes no lock, and      *)
(* every read handler of every replica calls it.                           *)
(***************************************************************************)
EXTENDS ReadModels, Integers, Sequences, FiniteSets

CONSTANTS
    Keys,       \* ids of the owner's rows
    Shapes,     \* [consumer, res, width, faults]: what a behaviour is about
    MaxWrites   \* bound: owner changes with an event

\* The read models there are: what a drift check compares, or a consumer
\* without a reconciler mirrors.
ReadModelOf(consumer, res) ==
    /\ res \in DOMAIN OwnerEvents
    /\ \/ consumer \in DOMAIN Reconciled /\ res \in Reconciled[consumer]
       \/ consumer \in DOMAIN Unreconciled /\ res \in Unreconciled[consumer]

ASSUME ShapesAssumption ==
    \A s \in Shapes : /\ ReadModelOf(s.consumer, s.res)
                      /\ s.width \in Nat /\ s.faults \in Nat

VARIABLES
    shape,      \* the read model, how many runs may overlap, and how many faults occur
    log,        \* the outbox: events, with the key they are about
    src,        \* rows of the owner
    rows,       \* rows of the read model
    inbox,      \* events the consumer has recorded as consumed
    dead,       \* events with a dead-letter record
    run,        \* the runs: one a read handler started, one of the tick
    recon,      \* the reconciler task
    replay,     \* dead letters a replay has listed and not yet reset
    settled,    \* history: events once applied, or lost in one of the ways ConsumedAccounted names
    silent,     \* history: rows whose last change had no event
    faults      \* calls that failed, and crashes

projectionVars == <<shape, log, src, rows, inbox, dead, run, recon, replay, settled, silent, faults>>

Runners == {"read", "tick"}
RunIdle == [pc |-> "idle"]
ReconResting == [pc |-> "idle", residual |-> -1]

ProjectionInit ==
    /\ shape \in Shapes
    /\ log = << >>
    /\ src = [k \in Keys |-> 0]
    /\ rows = src
    /\ inbox = {}
    /\ dead = {}
    /\ run = [r \in Runners |-> RunIdle]
    /\ recon = ReconResting
    /\ replay = {}
    /\ settled = {}
    /\ silent = {}
    /\ faults = 0

ExactRows == shape.res \in ExactResources
Reconciles == shape.consumer \in DOMAIN Reconciled /\ shape.res \in Reconciled[shape.consumer]

RunFault == faults < shape.faults /\ faults' = faults + 1

---------------------------------------------------------------------------
\* The owner changes a row and writes the event in the same transaction.
OwnerWrite(k, op) ==
    /\ Len(log) < MaxWrites
    /\ op \in DOMAIN OwnerEvents[shape.res]
    /\ (op = "create") = (src[k] = 0)
    /\ log' = Append(log, [event |-> OwnerEvents[shape.res][op], key |-> k])
    /\ src' = [src EXCEPT ![k] = IF op = "delete" THEN 0 ELSE Len(log) + 1]
    /\ silent' = silent \ {k}
    /\ UNCHANGED <<shape, rows, inbox, dead, run, recon, replay, faults, settled>>

\* The owner changes a row and publishes nothing about it.  (Bound: once
\* between two events of the row.)
OwnerSilent(k, op) ==
    /\ op \in SilentChanges[shape.res]
    /\ k \notin silent
    /\ (op = "create") = (src[k] = 0)
    /\ src' = [src EXCEPT ![k] = IF op = "delete" THEN 0 ELSE -1]
    /\ silent' = silent \cup {k}
    /\ UNCHANGED <<shape, log, rows, inbox, dead, run, recon, replay, faults, settled>>

---------------------------------------------------------------------------
(* A projection run.                                                       *)

\* The maintenance loop runs its ticks and its rebuilds one after the other.
RunsOverlap == (IF run["read"] # RunIdle THEN 1 ELSE 0)
                 + (IF run["tick"] # RunIdle \/ recon.pc # "idle" THEN 1 ELSE 0)

\* A run works on the outbox as it was when the run began.
Started == [pc |-> "consume", upto |-> Len(log), i |-> 1]

RunTo(r, next) == run' = [run EXCEPT ![r] = next]
RunNextEvent(r) == RunTo(r, [pc |-> "consume", upto |-> run[r].upto, i |-> run[r].i + 1])

ReadStart ==
    /\ run["read"] = RunIdle
    /\ RunsOverlap < shape.width
    /\ RunTo("read", Started)
    /\ UNCHANGED <<shape, log, src, rows, inbox, dead, recon, replay, faults, settled, silent>>

RunConsume(r) ==
    /\ run[r].pc = "consume"
    /\ run[r].i <= run[r].upto
    /\ \/ /\ run[r].i \notin inbox
          /\ inbox' = inbox \cup {run[r].i}
          /\ RunTo(r, [run[r] EXCEPT !.pc = "apply"])
          /\ UNCHANGED faults
       \/ /\ run[r].i \in inbox
          /\ RunNextEvent(r)
          /\ UNCHANGED <<inbox, faults>>
       \/ /\ RunFault
          /\ RunNextEvent(r)
          /\ UNCHANGED inbox
    /\ UNCHANGED <<shape, log, src, rows, dead, recon, replay, settled, silent>>

\* The effect of event i on this read model, a set with at most one member.
EventEffect(i) == {x \in Projection(shape.consumer, log[i].event) : x.res = shape.res}

\* A write that fails is dead-lettered, unless that write fails too and is only
\* logged; a delete that fails goes unnoticed.
RunApply(r) ==
    /\ run[r].pc = "apply"
    /\ LET i == run[r].i IN
       \/ /\ rows' = [rows EXCEPT ![log[i].key] =
                        IF EventEffect(i) = {} THEN @
                        ELSE IF \E x \in EventEffect(i) : x.removes THEN 0 ELSE i]
          /\ settled' = settled \cup {i}
          /\ RunTo(r, [run[r] EXCEPT !.pc = "resolve"])
          /\ UNCHANGED <<dead, faults>>
       \/ /\ \E x \in EventEffect(i) : ~x.removes
          /\ RunFault
          /\ \/ dead' = dead \cup {i} /\ UNCHANGED settled
             \/ settled' = settled \cup {i} /\ UNCHANGED dead
          /\ RunNextEvent(r)
          /\ UNCHANGED rows
       \/ /\ \E x \in EventEffect(i) : x.removes
          /\ RunFault
          /\ settled' = settled \cup {i}
          /\ RunTo(r, [run[r] EXCEPT !.pc = "resolve"])
          /\ UNCHANGED <<rows, dead>>
    /\ UNCHANGED <<shape, log, src, inbox, recon, replay, silent>>

RunResolve(r) ==
    /\ run[r].pc = "resolve"
    /\ \/ dead' = dead \ {run[r].i} /\ UNCHANGED faults
       \/ RunFault /\ UNCHANGED dead
    /\ RunNextEvent(r)
    /\ UNCHANGED <<shape, log, src, rows, inbox, recon, replay, settled, silent>>

\* A listing of the outbox that fails comes back empty, and the run is over.
RunEnd(r) ==
    /\ run[r].pc = "consume"
    /\ \/ run[r].i > run[r].upto /\ UNCHANGED faults
       \/ run[r].i = 1 /\ RunFault
    /\ RunTo(r, RunIdle)
    /\ UNCHANGED <<shape, log, src, rows, inbox, dead, recon, replay, settled, silent>>

\* The replica dies; the tick's replica forgets the residual with it.
RunCrash(r) ==
    /\ run[r] # RunIdle
    /\ RunFault
    /\ RunTo(r, RunIdle)
    /\ recon' = IF r = "tick" THEN ReconResting ELSE recon
    /\ settled' = IF run[r].pc = "apply" THEN settled \cup {run[r].i} ELSE settled
    /\ UNCHANGED <<shape, log, src, rows, inbox, dead, replay, silent>>

---------------------------------------------------------------------------
(* Replaying the dead letters of a consumer, and the reconciler.           *)

ReplayList ==
    /\ dead # {}
    /\ replay = {}
    /\ replay' = dead
    /\ UNCHANGED <<shape, log, src, rows, inbox, dead, run, recon, faults, settled, silent>>

\* As if a replay dropped the dead letters instead of releasing their events.
ReplayForgets ==
    /\ replay # {}
    /\ dead' = dead \ replay
    /\ replay' = {}
    /\ UNCHANGED <<shape, log, src, rows, inbox, run, recon, faults, settled, silent>>

ReplayReset ==
    /\ replay # {}
    /\ inbox' = inbox \ replay
    /\ replay' = {}
    /\ UNCHANGED <<shape, log, src, rows, dead, run, recon, faults, settled, silent>>

\* Missing, orphaned and stale rows.  Where the event carries less or more
\* than the row, every row of the owner counts.
Drift == Cardinality({k \in Keys : rows[k] # src[k] \/ (~ExactRows /\ src[k] # 0)})

ReconcileStart ==
    /\ Reconciles
    /\ recon.pc = "idle"
    /\ RunsOverlap < shape.width
    /\ RunTo("tick", Started)
    /\ recon' = [recon EXCEPT !.pc = "synced"]
    /\ UNCHANGED <<shape, log, src, rows, inbox, dead, replay, faults, settled, silent>>

\* As if a rebuild only ran the projection again.
ResetNothing == UNCHANGED inbox

ResetConsumer == inbox' = {}

\* As if a drift that a rebuild left were rebuilt again at every tick.
ReconcileAlways ==
    /\ recon.pc = "synced"
    /\ run["tick"] = RunIdle
    /\ \/ /\ Drift = 0
          /\ recon' = [pc |-> "idle", residual |-> Drift]
          /\ UNCHANGED <<inbox, run>>
       \/ /\ Drift # 0
          /\ ResetConsumer
          /\ RunTo("tick", Started)
          /\ recon' = [pc |-> "rebuilt", residual |-> recon.residual, since |-> faults, upto |-> Len(log)]
    /\ UNCHANGED <<shape, log, src, rows, dead, replay, faults, settled, silent>>

ReconcileDrift ==
    /\ recon.pc = "synced"
    /\ run["tick"] = RunIdle
    /\ \/ /\ Drift \in {0, recon.residual}
          /\ recon' = [pc |-> "idle", residual |-> Drift]
          /\ UNCHANGED <<inbox, run>>
       \/ /\ Drift \notin {0, recon.residual}
          /\ ResetConsumer
          /\ RunTo("tick", Started)
          /\ recon' = [pc |-> "rebuilt", residual |-> recon.residual, since |-> faults, upto |-> Len(log)]
    /\ UNCHANGED <<shape, log, src, rows, dead, replay, faults, settled, silent>>

ReconcileMeasure ==
    /\ recon.pc = "rebuilt"
    /\ run["tick"] = RunIdle
    /\ recon' = [pc |-> "idle", residual |-> Drift]
    /\ UNCHANGED <<shape, log, src, rows, inbox, dead, run, replay, faults, settled, silent>>

\* The rows of the owner could not be listed: the task ends, and the residual
\* stays as it was.
ReconcileFails ==
    /\ recon.pc \in {"synced", "rebuilt"}
    /\ run["tick"] = RunIdle
    /\ RunFault
    /\ recon' = [pc |-> "idle", residual |-> recon.residual]
    /\ UNCHANGED <<shape, log, src, rows, inbox, dead, run, replay, settled, silent>>

---------------------------------------------------------------------------
ProjectionTick ==
    ReconcileStart \/ ReconcileDrift \/ ReconcileMeasure

ProjectionRun(r) == RunConsume(r) \/ RunApply(r) \/ RunResolve(r) \/ RunEnd(r)

ProjectionNext ==
    \/ \E k \in Keys, op \in {"create", "update", "delete"} : OwnerWrite(k, op) \/ OwnerSilent(k, op)
    \/ ReadStart
    \/ \E r \in Runners : ProjectionRun(r) \/ RunCrash(r)
    \/ ReplayList \/ ReplayReset
    \/ ProjectionTick \/ ReconcileFails

ProjectionSpec == ProjectionInit /\ [][ProjectionNext]_projectionVars

---------------------------------------------------------------------------
(* Properties.                                                             *)

ProjectionTypeOK ==
    /\ shape \in Shapes
    /\ Len(log) <= MaxWrites
    /\ src \in [Keys -> -1..MaxWrites]
    /\ silent \subseteq Keys
    /\ rows \in [Keys -> 0..MaxWrites]
    /\ inbox \subseteq 1..Len(log)
    /\ dead \subseteq 1..Len(log)
    /\ replay \subseteq 1..Len(log)
    /\ recon.residual \in -1..Cardinality(Keys)
    /\ faults \in 0..shape.faults

\* RunProjection (projection.go:109-113): an event the consumer has recorded
\* as consumed has been applied, is being applied, or has a dead letter it
\* can be replayed from, however many runs, replays and rebuilds overlap.  It
\* is lost only by a crash between consuming and applying it, by a delete
\* that fails, or where neither the row nor the dead letter can be written.
ConsumedAccounted ==
    \A i \in inbox :
        \/ i \in settled \cup dead
        \/ \E r \in Runners : run[r].pc = "apply" /\ run[r].i = i

\* The rows whose last change had an event are in the read model as the owner
\* has them, and are not where the owner has none; a deleted user stays.
ReadModelCurrent ==
    \A k \in Keys \ silent : rows[k] = src[k] \/ (shape.res = "users" /\ src[k] = 0)

\* No read model follows these: a plan's deletion is lost in its payload, the
\* queue events consumers wait for are never published, and of a job only its
\* submission is.
Unfollowed == {"plans", "queues", "jobs"}

\* Every read handler syncs before it reads (syncClusterReadModels and its
\* like): with one run at a time and no failed call it answers with every
\* change the owner made before the read began, the changes without an event
\* and deleted users apart.
ReadsCurrent ==
    /\ shape.width = 1 /\ shape.faults = 0 /\ shape.res \notin Unfollowed
    /\ run["read"].pc = "consume" /\ run["read"].i > run["read"].upto
    /\ run["read"].upto = Len(log)
    => ReadModelCurrent

\* RegisterProjectionReconciler (projection_reconcile.go:34-36): the ticks
\* alone bring the read model up to date with every row whose last change had
\* an event, without any read.
Converges ==
    <>[]( Reconciles /\ shape.width = 1 /\ shape.faults = 0 /\ shape.res \notin Unfollowed
            => ReadModelCurrent )

Undisturbed ==
    /\ shape.width = 1
    /\ recon.pc = "rebuilt"
    /\ run["tick"] = RunIdle
    /\ recon.since = faults
    /\ recon.upto = Len(log)

\* RegisterProjectionReconciler (projection_reconcile.go:16-18), "resets the
\* projection consumer(s) and replays the event stream to rebuild it": after
\* a rebuild during which no call failed and the owner published nothing, the
\* read model equals the owner's rows, whatever was lost before, but for the
\* rows whose last change had no event: those no rebuild can reproduce.
RebuildRestores ==
    Undisturbed /\ ExactRows /\ shape.res \notin Unfollowed => \A k \in Keys \ silent : rows[k] = src[k]

\* RegisterProjectionReconciler: "later ticks only report it instead of
\* looping a rebuild that cannot converge".  (A read that overlaps every
\* rebuild can disturb each of them.)
RebuildsEnd == <>[](shape.width = 1 => recon.pc # "rebuilt")

=============================================================================
