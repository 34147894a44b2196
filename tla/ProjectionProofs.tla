-------------------------- MODULE ProjectionProofs --------------------------
(***************************************************************************)
(* Read models for any rows, any number of changes and any number of       *)
(* faults: no consumed event is forgotten, and where runs do not overlap   *)
(* reads and rebuilds leave the read model equal to the owner's rows, but  *)
(* for those whose last change had no event.                               *)
(***************************************************************************)
EXTENDS Projection, TLAPS

\* A leaf is tried with Zenon, and where that fails with the SMT solver.
USE Zenon, SMTT(30)

RunStates == {RunIdle} \cup [pc : {"consume", "apply", "resolve"}, upto : Nat, i : Nat]

EventsOf(res) == {OwnerEvents[res][o] : o \in DOMAIN OwnerEvents[res]}

RunTypes ==
    /\ run \in [Runners -> RunStates]
    /\ shape \in Shapes
    /\ log \in Seq([event : EventsOf(shape.res), key : Keys])
    /\ "pc" \in DOMAIN recon

\* The tick's run belongs to the reconciler, and what a run is about to
\* resolve it has applied.
RunsOrdered ==
    /\ recon.pc = "idle" => run["tick"] = RunIdle
    /\ \A r \in Runners : run[r].pc = "resolve" => run[r].i \in settled

RunsInv == RunTypes /\ RunsOrdered /\ ConsumedAccounted

\* A run starts at the first event.
LEMMA StartedType == ASSUME RunTypes PROVE Started \in RunStates /\ Started.pc = "consume"
  BY DEF RunTypes, Started, RunStates

\* Nothing has been consumed.
LEMMA RunsInitInv == ProjectionInit => RunsInv
  <1> SUFFICES ASSUME ProjectionInit PROVE RunsInv
    OBVIOUS
  <1>1. RunTypes
    BY DEF ProjectionInit, RunTypes, RunStates, ReconResting
  <1>2. RunsOrdered
    BY DEF ProjectionInit, RunsOrdered, Runners, RunIdle
  <1>3. ConsumedAccounted
    BY DEF ProjectionInit, ConsumedAccounted
  <1> QED  BY <1>1, <1>2, <1>3 DEF RunsInv

\* A run moves on its own.
LEMMA RunToStep ==
    ASSUME RunTypes, NEW r \in Runners, NEW next \in RunStates, RunTo(r, next)
    PROVE  /\ run' \in [Runners -> RunStates]
           /\ run'[r] = next
           /\ \A q \in Runners \ {r} : run'[q] = run[q]
  BY DEF RunTypes, RunTo

\* The states a run can go to while it is under way.
LEMMA RunNext ==
    ASSUME RunTypes, NEW r \in Runners, run[r].pc # "idle"
    PROVE  /\ run[r] \in [pc : {"consume", "apply", "resolve"}, upto : Nat, i : Nat]
           /\ \A pc \in {"consume", "apply", "resolve"} :
                 /\ [run[r] EXCEPT !.pc = pc] \in RunStates
                 /\ [run[r] EXCEPT !.pc = pc].pc = pc
                 /\ [run[r] EXCEPT !.pc = pc].i = run[r].i
                 /\ [run[r] EXCEPT !.pc = pc].upto = run[r].upto
           /\ [pc |-> "consume", upto |-> run[r].upto, i |-> run[r].i + 1] \in RunStates
  <1>1. run[r] \in RunStates /\ RunIdle.pc = "idle"
    BY DEF RunTypes, RunIdle
  <1>2. run[r] \in [pc : {"consume", "apply", "resolve"}, upto : Nat, i : Nat]
    BY <1>1 DEF RunStates
  <1>3. ASSUME NEW x \in [pc : {"consume", "apply", "resolve"}, upto : Nat, i : Nat],
               NEW pc \in {"consume", "apply", "resolve"}
        PROVE  LET y == [x EXCEPT !.pc = pc]
               IN  y \in RunStates /\ y.pc = pc /\ y.i = x.i /\ y.upto = x.upto
    BY DEF RunStates
  <1>4. [pc |-> "consume", upto |-> run[r].upto, i |-> run[r].i + 1] \in RunStates
    BY <1>2 DEF RunStates
  <1> QED  BY <1>2, <1>3, <1>4

\* Consuming: the event enters the inbox with the run that is about to apply it.
LEMMA RunConsumeInv ==
    ASSUME RunsInv, NEW r \in Runners, RunConsume(r)
    PROVE  RunsInv'
  <1>1. /\ RunTypes /\ RunsOrdered /\ ConsumedAccounted
        /\ run[r].pc = "consume" /\ UNCHANGED <<shape, log, recon, dead, settled>>
    BY DEF RunsInv, RunConsume
  <1>2. PICK next \in RunStates :
            /\ RunTo(r, next)
            /\ \/ next.pc = "consume" /\ inbox' = inbox
               \/ next.pc = "apply" /\ next.i = run[r].i /\ inbox' = inbox \cup {run[r].i}
    BY <1>1, RunNext DEF RunConsume, RunNextEvent
  <1>3. RunTypes' /\ run'[r] = next /\ \A q \in Runners \ {r} : run'[q] = run[q]
    BY <1>1, <1>2, RunToStep DEF RunTypes
  <1>4. RunsOrdered'
    <2>1. r = "tick" => recon.pc # "idle"
      BY <1>1 DEF RunsOrdered, RunIdle
    <2>2. \A q \in Runners : run'[q].pc = "resolve" => run'[q].i \in settled'
      BY <1>1, <1>2, <1>3 DEF RunsOrdered, RunIdle
    <2> QED  BY <1>1, <1>3, <2>1, <2>2 DEF RunsOrdered, Runners
  <1>5. ConsumedAccounted'
    BY <1>1, <1>2, <1>3 DEF ConsumedAccounted
  <1> QED  BY <1>3, <1>4, <1>5 DEF RunsInv

\* Applying: the event is settled, or a dead letter, or lost with it.
LEMMA RunApplyInv ==
    ASSUME RunsInv, NEW r \in Runners, RunApply(r)
    PROVE  RunsInv'
  <1>1. /\ RunTypes /\ RunsOrdered /\ ConsumedAccounted
        /\ run[r].pc = "apply" /\ UNCHANGED <<shape, log, recon, inbox>>
    BY DEF RunsInv, RunApply
  <1>2. PICK next \in RunStates :
            /\ RunTo(r, next)
            /\ \/ /\ next.pc = "resolve" /\ next.i = run[r].i
                  /\ settled' = settled \cup {run[r].i} /\ dead' = dead
               \/ next.pc = "consume" /\ settled' = settled /\ dead' = dead \cup {run[r].i}
               \/ next.pc = "consume" /\ settled' = settled \cup {run[r].i} /\ dead' = dead
    BY <1>1, RunNext DEF RunApply, RunNextEvent
  <1>3. RunTypes' /\ run'[r] = next /\ \A q \in Runners \ {r} : run'[q] = run[q]
    BY <1>1, <1>2, RunToStep DEF RunTypes
  <1>4. RunsOrdered'
    <2>1. r = "tick" => recon.pc # "idle"
      BY <1>1 DEF RunsOrdered, RunIdle
    <2>2. \A q \in Runners : run'[q].pc = "resolve" => run'[q].i \in settled'
      BY <1>1, <1>2, <1>3 DEF RunsOrdered, RunIdle
    <2> QED  BY <1>1, <1>3, <2>1, <2>2 DEF RunsOrdered, Runners
  <1>5. ConsumedAccounted'
    BY <1>1, <1>2, <1>3 DEF ConsumedAccounted
  <1> QED  BY <1>3, <1>4, <1>5 DEF RunsInv

\* Resolving a dead letter, and ending: what is resolved was settled before.
LEMMA RunResolveInv ==
    ASSUME RunsInv, NEW r \in Runners, RunResolve(r) \/ RunEnd(r)
    PROVE  RunsInv'
  <1>1. /\ RunTypes /\ RunsOrdered /\ ConsumedAccounted
        /\ run[r].pc \in {"consume", "resolve"} /\ UNCHANGED <<shape, log, recon, inbox, settled>>
    BY DEF RunsInv, RunResolve, RunEnd
  <1>2. PICK next \in RunStates :
            /\ RunTo(r, next)
            /\ \/ next.pc = "consume" /\ run[r].pc = "resolve" /\ dead' \in {dead, dead \ {run[r].i}}
               \/ next = RunIdle /\ run[r].pc = "consume" /\ dead' = dead
    BY <1>1, RunNext, ZenonT(30) DEF RunResolve, RunEnd, RunNextEvent, RunStates
  <1>3. RunTypes' /\ run'[r] = next /\ \A q \in Runners \ {r} : run'[q] = run[q]
    BY <1>1, <1>2, RunToStep DEF RunTypes
  <1>4. RunsOrdered'
    <2>1. r = "tick" => recon.pc # "idle"
      BY <1>1 DEF RunsOrdered, RunIdle
    <2>2. \A q \in Runners : run'[q].pc = "resolve" => run'[q].i \in settled'
      BY <1>1, <1>2, <1>3 DEF RunsOrdered, RunIdle
    <2> QED  BY <1>1, <1>3, <2>1, <2>2 DEF RunsOrdered, Runners
  <1>5. ConsumedAccounted'
    BY SMTT(30), <1>1, <1>2, <1>3 DEF ConsumedAccounted, RunsOrdered
  <1> QED  BY <1>3, <1>4, <1>5 DEF RunsInv
\* A crash settles what the run was applying.
LEMMA RunCrashInv ==
    ASSUME RunsInv, NEW r \in Runners, RunCrash(r)
    PROVE  RunsInv'
  <1>1. /\ RunTypes /\ RunsOrdered /\ ConsumedAccounted /\ UNCHANGED <<shape, log, inbox, dead>>
        /\ RunTo(r, RunIdle)
        /\ recon' = (IF r = "tick" THEN ReconResting ELSE recon)
        /\ settled' = IF run[r].pc = "apply" THEN settled \cup {run[r].i} ELSE settled
    BY DEF RunsInv, RunCrash
  <1>2. RunIdle \in RunStates /\ RunIdle.pc = "idle"
    BY DEF RunStates, RunIdle
  <1>3. /\ run' \in [Runners -> RunStates] /\ run'[r] = RunIdle
        /\ \A q \in Runners \ {r} : run'[q] = run[q]
    BY <1>1, <1>2, RunToStep
  <1>4. RunTypes'
    BY <1>1, <1>3 DEF RunTypes, ReconResting
  <1>5. RunsOrdered'
    <2>1. recon'.pc = "idle" => run'["tick"] = RunIdle
      BY <1>1, <1>3 DEF RunsOrdered, Runners
    <2>2. \A q \in Runners : run'[q].pc = "resolve" => run'[q].i \in settled'
      BY <1>1, <1>2, <1>3 DEF RunsOrdered
    <2> QED  BY <2>1, <2>2 DEF RunsOrdered
  <1>6. ConsumedAccounted'
    BY <1>1, <1>2, <1>3 DEF ConsumedAccounted
  <1> QED  BY <1>4, <1>5, <1>6 DEF RunsInv

\* A run starts only where none is under way; a rebuild or a replay forgets
\* consumed events and nothing else.
LEMMA RunStartInv ==
    ASSUME RunsInv, ReadStart \/ ReconcileStart \/ ReconcileDrift \/ ReconcileMeasure
    PROVE  RunsInv'
  <1>1. /\ RunTypes /\ RunsOrdered /\ ConsumedAccounted
        /\ UNCHANGED <<shape, log, dead, settled>> /\ inbox' \subseteq inbox
    BY DEF RunsInv, ReadStart, ReconcileStart, ReconcileDrift, ReconcileMeasure, ResetConsumer
  <1>2. \/ run' = run
        \/ \E r \in Runners : run[r] = RunIdle /\ RunTo(r, Started)
    BY <1>1 DEF ReadStart, ReconcileStart, ReconcileDrift, ReconcileMeasure, RunsOrdered, Runners
  <1>3. /\ run' \in [Runners -> RunStates]
        /\ \A r \in Runners : run'[r] = run[r] \/ (run[r] = RunIdle /\ run'[r].pc = "consume")
    BY <1>1, <1>2, RunToStep, StartedType DEF RunTypes
  <1>4. "pc" \in DOMAIN recon' /\ (recon'.pc = "idle" => run'["tick"] = RunIdle)
    BY <1>1 DEF ReadStart, ReconcileStart, ReconcileDrift, ReconcileMeasure, RunTypes, RunsOrdered,
                Runners, RunTo
  <1>5. RunTypes' /\ RunsOrdered'
    BY <1>1, <1>3, <1>4 DEF RunTypes, RunsOrdered
  <1>6. ConsumedAccounted'
    BY <1>1, <1>3 DEF ConsumedAccounted, RunIdle
  <1> QED  BY <1>5, <1>6 DEF RunsInv

\* A write of the owner consumes nothing.
LEMMA OwnerWriteInv ==
    ASSUME RunsInv, NEW k \in Keys, NEW o, OwnerWrite(k, o)
    PROVE  RunsInv'
  <1>1. /\ RunTypes /\ UNCHANGED <<run, recon, inbox, dead, settled>>
        /\ o \in DOMAIN OwnerEvents[shape.res] /\ shape' = shape
        /\ log' = Append(log, [event |-> OwnerEvents[shape.res][o], key |-> k])
    BY DEF RunsInv, OwnerWrite
  <1>2. RunTypes'
    BY <1>1 DEF RunTypes, EventsOf
  <1> QED  BY <1>1, <1>2 DEF RunsInv, RunsOrdered, ConsumedAccounted

\* Nor does one without an event, or a reconciler that gives up.
LEMMA AsideInv ==
    ASSUME RunsInv, ReconcileFails \/ \E k \in Keys, o \in {"create", "update", "delete"} : OwnerSilent(k, o)
    PROVE  RunsInv'
  <1>1. /\ UNCHANGED <<shape, log, run, inbox, dead, settled>>
        /\ \/ recon' = recon
           \/ "pc" \in DOMAIN recon' /\ run["tick"] = RunIdle
    BY DEF ReconcileFails, OwnerSilent
  <1>2. RunTypes' /\ RunsOrdered'
    BY <1>1 DEF RunsInv, RunTypes, RunsOrdered
  <1> QED  BY <1>1, <1>2 DEF RunsInv, ConsumedAccounted

\* Every step keeps the invariant of the runs.
LEMMA RunsNextInv == RunsInv /\ [ProjectionNext]_projectionVars => RunsInv'
  <1> SUFFICES ASSUME RunsInv, [ProjectionNext]_projectionVars PROVE RunsInv'
    OBVIOUS
  <1>1. CASE \E k \in Keys, o \in {"create", "update", "delete"} : OwnerWrite(k, o)
    BY <1>1, OwnerWriteInv
  <1>2. CASE ReadStart \/ ProjectionTick
    BY <1>2, RunStartInv DEF ProjectionTick
  <1>3. CASE \E r \in Runners : ProjectionRun(r) \/ RunCrash(r)
    BY <1>3, RunConsumeInv, RunApplyInv, RunResolveInv, RunCrashInv DEF ProjectionRun
  <1>4. CASE ReplayList \/ ReplayReset
    BY <1>4 DEF ReplayList, ReplayReset, RunsInv, RunTypes, RunsOrdered, ConsumedAccounted
  <1>5. CASE UNCHANGED projectionVars
    BY <1>5 DEF projectionVars, RunsInv, RunTypes, RunsOrdered, ConsumedAccounted
  <1> QED  BY <1>1, <1>2, <1>3, <1>4, <1>5, AsideInv DEF ProjectionNext

\* RunProjection, for every read model and any number of rows and faults,
\* however runs, replays and rebuilds overlap: an event recorded as consumed
\* has been applied, is being applied, has a dead letter, or was lost: by a
\* crash in between, a failed delete, or a dead letter that could not be written.
THEOREM NoEventForgotten == ProjectionSpec => []ConsumedAccounted
  <1>1. RunsInv => ConsumedAccounted
    BY DEF RunsInv
  <1> QED  BY <1>1, RunsInitInv, RunsNextInv, PTL DEF ProjectionSpec
-----------------------------------------------------------------------------
(***************************************************************************)
(* What the tables of ReadModels come to.                                  *)
(***************************************************************************)

\* Each rule of a consumer touches one resource.
LEMMA RowKinds ==
    ASSUME NEW e
    PROVE  /\ \A x \in OnUsers(e) : x.res = "users"
           /\ \A x \in OnIdentityRoles(e) : x.res = "identityRoles"
           /\ \A x \in OnProjects(e) : x.res = "projects"
           /\ \A x \in OnMembers(e) : x.res = "members"
           /\ \A x \in OnPolicyRoles(e) : x.res = "policyRoles"
           /\ \A d : \A x \in OnGroups(e, d) : x.res = "groups"
           /\ \A n, r : \A x \in WritesRow(e, n, r) : x.res = r
           /\ \A n, r : \A x \in RemovesRow(e, n, r) : x.res = r
  BY DEF OnUsers, OnIdentityRoles, OnProjects, OnMembers, OnPolicyRoles, OnGroups, WritesRow,
         RemovesRow, UpsertRow, RemoveRow

\* The effect of an event on one resource of a consumer.
EffectOn(c, res, e) == {x \in Projection(c, e) : x.res = res}

\* What each consumer makes of an event, as far as users go.
LEMMA UsersEffect ==
    ASSUME NEW c \in {"gpu", "cluster", "image", "policyIdentity", "proxyAdmin", "org", "dashboard", "ide"}, NEW e
    PROVE  EffectOn(c, "users", e) = OnUsers(e)
  <1>1. CASE c = "gpu"
    BY <1>1, RowKinds, ZenonT(30) DEF EffectOn, Projection, GpuProjection
  <1>2. CASE c = "cluster"
    BY <1>2, RowKinds DEF EffectOn, Projection, ClusterProjection, UpsertRow, RemoveRow
  <1>3. CASE c = "image"
    BY <1>3, RowKinds DEF EffectOn, Projection, ImageProjection
  <1>4. CASE c = "policyIdentity"
    BY <1>4, RowKinds DEF EffectOn, Projection, PolicyIdentityProjection
  <1>5. CASE c = "proxyAdmin"
    BY <1>5, RowKinds DEF EffectOn, Projection, ProxyAdminProjection
  <1>6. CASE c = "org"
    BY <1>6, RowKinds DEF EffectOn, Projection, OrgIdentityProjection
  <1>7. CASE c = "dashboard"
    BY <1>7, RowKinds DEF EffectOn, Projection, DashboardProjection
  <1>8. CASE c = "ide"
    BY <1>8, RowKinds DEF EffectOn, Projection, IdeProjection
  <1> QED  BY <1>1, <1>2, <1>3, <1>4, <1>5, <1>6, <1>7, <1>8

\* The same for projects.
LEMMA ProjectsEffect ==
    ASSUME NEW c \in {"gpu", "cluster", "image", "policyData", "projectAccess", "dashboard", "ide"}, NEW e
    PROVE  EffectOn(c, "projects", e) = OnProjects(e)
  <1>1. CASE c = "gpu"
    BY <1>1, RowKinds DEF EffectOn, Projection, GpuProjection
  <1>2. CASE c = "cluster"
    BY <1>2, RowKinds DEF EffectOn, Projection, ClusterProjection, UpsertRow, RemoveRow
  <1>3. CASE c = "image"
    BY <1>3, RowKinds DEF EffectOn, Projection, ImageProjection
  <1>4. CASE c = "policyData"
    BY <1>4, RowKinds DEF EffectOn, Projection, PolicyDataProjection, UpsertRow, RemoveRow
  <1>5. CASE c = "projectAccess"
    BY <1>5, RowKinds DEF EffectOn, Projection, ProjectAccessProjection
  <1>6. CASE c = "dashboard"
    BY <1>6, RowKinds DEF EffectOn, Projection, DashboardProjection
  <1>7. CASE c = "ide"
    BY <1>7, RowKinds DEF EffectOn, Projection, IdeProjection
  <1> QED  BY <1>1, <1>2, <1>3, <1>4, <1>5, <1>6, <1>7

\* The same for project members.
LEMMA MembersEffect ==
    ASSUME NEW c \in {"cluster", "auditMember", "image", "projectAccess", "dashboard", "ide"}, NEW e
    PROVE  EffectOn(c, "members", e) = OnMembers(e)
  <1>1. CASE c = "cluster"
    BY <1>1, RowKinds DEF EffectOn, Projection, ClusterProjection, UpsertRow, RemoveRow
  <1>2. CASE c = "auditMember"
    BY <1>2, RowKinds DEF EffectOn, Projection, AuditMemberProjection
  <1>3. CASE c = "image"
    BY <1>3, RowKinds DEF EffectOn, Projection, ImageProjection
  <1>4. CASE c = "projectAccess"
    BY <1>4, RowKinds DEF EffectOn, Projection, ProjectAccessProjection
  <1>5. CASE c = "dashboard"
    BY <1>5, RowKinds, ZenonT(30) DEF EffectOn, Projection, DashboardProjection
  <1>6. CASE c = "ide"
    BY <1>6, RowKinds DEF EffectOn, Projection, IdeProjection
  <1> QED  BY <1>1, <1>2, <1>3, <1>4, <1>5, <1>6

\* The same for roles of proxy policies.
LEMMA PolicyRolesEffect ==
    ASSUME NEW c \in {"gpu", "cluster", "ide"}, NEW e
    PROVE  EffectOn(c, "policyRoles", e) = OnPolicyRoles(e)
  <1>1. CASE c = "gpu"
    BY <1>1, RowKinds DEF EffectOn, Projection, GpuProjection
  <1>2. CASE c = "cluster"
    BY <1>2, RowKinds DEF EffectOn, Projection, ClusterProjection, UpsertRow, RemoveRow
  <1>3. CASE c = "ide"
    BY <1>3, RowKinds DEF EffectOn, Projection, IdeProjection
  <1> QED  BY <1>1, <1>2, <1>3

\* The same for group memberships, whose deletion has two spellings.
LEMMA GroupsEffect ==
    ASSUME NEW c \in {"cluster", "auditGroup", "image", "projectAccess", "ide"}, NEW e
    PROVE  \E d \in {{"delete"}, {"delete", "deleted"}} : EffectOn(c, "groups", e) = OnGroups(e, d)
  <1>1. CASE c = "cluster"
    BY <1>1, RowKinds DEF EffectOn, Projection, ClusterProjection, UpsertRow, RemoveRow
  <1>2. CASE c = "auditGroup"
    BY <1>2, RowKinds DEF EffectOn, Projection, AuditGroupProjection
  <1>3. CASE c = "image"
    BY <1>3, RowKinds DEF EffectOn, Projection, ImageProjection
  <1>4. CASE c = "projectAccess"
    BY <1>4, RowKinds DEF EffectOn, Projection, ProjectAccessProjection
  <1>5. CASE c = "ide"
    BY <1>5, RowKinds DEF EffectOn, Projection, IdeProjection
  <1> QED  BY <1>1, <1>2, <1>3, <1>4, <1>5

\* A read model follows a change: a row is written, and removed where the
\* owner deletes its own; users are only disabled.
Follows(c, res, o) ==
    EffectOn(c, res, OwnerEvents[res][o]) =
        IF o = "delete" /\ res # "users" THEN RemoveRow(res) ELSE UpsertRow(res)

\* The consumers of each resource.
LEMMA ConsumersOf ==
    ASSUME NEW c
    PROVE  /\ ReadModelOf(c, "users") =>
                c \in {"gpu", "cluster", "image", "policyIdentity", "proxyAdmin", "org", "dashboard", "ide"}
           /\ ReadModelOf(c, "projects") =>
                c \in {"gpu", "cluster", "image", "policyData", "projectAccess", "dashboard", "ide"}
           /\ ReadModelOf(c, "members") =>
                c \in {"cluster", "auditMember", "image", "projectAccess", "dashboard", "ide"}
           /\ ReadModelOf(c, "policyRoles") => c \in {"gpu", "cluster", "ide"}
           /\ ReadModelOf(c, "groups") => c \in {"cluster", "auditGroup", "image", "projectAccess", "ide"}
           /\ ReadModelOf(c, "assignments") => c = "cluster"
           /\ ReadModelOf(c, "forms") => c = "dashboard"
           /\ ReadModelOf(c, "imageRules") => c = "policyData"
  BY DEF ReadModelOf, Reconciled, Unreconciled, GpuDrift, ClusterDrift, ImageDrift, PolicyDrift,
         ProjectAccessDrift, DashboardDrift, IdeDrift

\* Every read model of users follows every change of a user.
LEMMA UsersFollowed ==
    ASSUME NEW c, ReadModelOf(c, "users"), NEW o \in DOMAIN OwnerEvents["users"]
    PROVE  Follows(c, "users", o)
  <1>1. OwnerEvents["users"] = UserEvents
    BY DEF OwnerEvents
  <1>2. UserEvents[o].name \in {"UserCreated", "UserUpdated", "UserDisabled"}
    <2>1. /\ UserEvents["create"].name = "UserCreated" /\ UserEvents["update"].name = "UserUpdated"
          /\ UserEvents["delete"].name = "UserDisabled" /\ DOMAIN UserEvents = {"create", "update", "delete"}
      BY DEF UserEvents, PlainEvent
    <2> QED  BY <1>1, <2>1
  <1>3. OnUsers(UserEvents[o]) = UpsertRow("users")
    BY <1>2 DEF OnUsers, WritesRow, RemovesRow, UpsertRow
  <1> QED  BY <1>1, <1>3, ConsumersOf, UsersEffect DEF Follows

\* The same for projects.
LEMMA ProjectsFollowed ==
    ASSUME NEW c, ReadModelOf(c, "projects"), NEW o \in DOMAIN OwnerEvents["projects"]
    PROVE  Follows(c, "projects", o)
  <1>1. OwnerEvents["projects"] = ProjectEvents
    BY DEF OwnerEvents
  <1>2. /\ ProjectEvents["create"].name = "ProjectCreated" /\ ProjectEvents["update"].name = "ProjectUpdated"
        /\ ProjectEvents["delete"].name = "ProjectDeleted" /\ DOMAIN ProjectEvents = {"create", "update", "delete"}
    BY DEF ProjectEvents, PlainEvent, NestedEvent
  <1>3. OnProjects(ProjectEvents[o]) = IF o = "delete" THEN RemoveRow("projects") ELSE UpsertRow("projects")
    BY <1>1, <1>2 DEF OnProjects, WritesRow, RemovesRow, UpsertRow, RemoveRow
  <1> QED  BY <1>1, <1>3, ConsumersOf, ProjectsEffect DEF Follows

\* The same for project members.
LEMMA MembersFollowed ==
    ASSUME NEW c, ReadModelOf(c, "members"), NEW o \in DOMAIN OwnerEvents["members"]
    PROVE  Follows(c, "members", o)
  <1>1. OwnerEvents["members"] = MemberEvents
    BY DEF OwnerEvents
  <1>2. /\ MemberEvents["create"].name = "project_memberCreated"
        /\ MemberEvents["update"].name = "project_memberUpdated"
        /\ MemberEvents["delete"].name = "project_memberDeleted"
        /\ DOMAIN MemberEvents = {"create", "update", "delete"}
    BY DEF MemberEvents, PlainEvent, NestedEvent
  <1>3. OnMembers(MemberEvents[o]) = IF o = "delete" THEN RemoveRow("members") ELSE UpsertRow("members")
    BY <1>1, <1>2 DEF OnMembers, WritesRow, RemovesRow, UpsertRow, RemoveRow
  <1> QED  BY <1>1, <1>3, ConsumersOf, MembersEffect DEF Follows

\* The same for group memberships.
LEMMA GroupsFollowed ==
    ASSUME NEW c, ReadModelOf(c, "groups"), NEW o \in DOMAIN OwnerEvents["groups"]
    PROVE  Follows(c, "groups", o)
  <1>1. OwnerEvents["groups"] = GroupEvents
    BY DEF OwnerEvents
  <1>2. /\ SeenAction(GroupEvents["create"]) = "create" /\ SeenAction(GroupEvents["update"]) = ""
        /\ SeenAction(GroupEvents["delete"]) = "delete" /\ DOMAIN GroupEvents = {"create", "update", "delete"}
    BY DEF GroupEvents, FlatEvent, NestedEvent, SeenAction
  <1>3. GroupEvents[o].name = "GroupMembershipChanged"
    <2>1. /\ GroupEvents["create"].name = "GroupMembershipChanged"
          /\ GroupEvents["update"].name = "GroupMembershipChanged"
          /\ GroupEvents["delete"].name = "GroupMembershipChanged"
      BY DEF GroupEvents, FlatEvent, NestedEvent
    <2> QED  BY <1>1, <1>2, <2>1
  <1>4. \A d \in {{"delete"}, {"delete", "deleted"}} :
            OnGroups(GroupEvents[o], d) = IF o = "delete" THEN RemoveRow("groups") ELSE UpsertRow("groups")
    BY <1>1, <1>2, <1>3 DEF OnGroups, UpsertRow, RemoveRow
  <1> QED  BY <1>1, <1>4, ConsumersOf, GroupsEffect DEF Follows

\* The same for roles of proxy policies.
LEMMA PolicyRolesFollowed ==
    ASSUME NEW c, ReadModelOf(c, "policyRoles"), NEW o \in DOMAIN OwnerEvents["policyRoles"]
    PROVE  Follows(c, "policyRoles", o)
  <1>1. OwnerEvents["policyRoles"] = PolicyRoleEvents
    BY DEF OwnerEvents
  <1>2. /\ SeenAction(PolicyRoleEvents["create"]) = "role_create"
        /\ SeenAction(PolicyRoleEvents["update"]) = "role_update"
        /\ SeenAction(PolicyRoleEvents["delete"]) = "role_delete"
        /\ DOMAIN PolicyRoleEvents = {"create", "update", "delete"}
    BY DEF PolicyRoleEvents, FlatEvent, SeenAction
  <1>3. PolicyRoleEvents[o].name = "ProxyPolicyChanged"
    <2>1. /\ PolicyRoleEvents["create"].name = "ProxyPolicyChanged"
          /\ PolicyRoleEvents["update"].name = "ProxyPolicyChanged"
          /\ PolicyRoleEvents["delete"].name = "ProxyPolicyChanged"
      BY DEF PolicyRoleEvents, FlatEvent
    <2> QED  BY <1>1, <1>2, <2>1
  <1>4. OnPolicyRoles(PolicyRoleEvents[o]) = IF o = "delete" THEN RemoveRow("policyRoles") ELSE UpsertRow("policyRoles")
    BY <1>1, <1>2, <1>3 DEF OnPolicyRoles, UpsertRow, RemoveRow
  <1> QED  BY <1>1, <1>4, ConsumersOf, PolicyRolesEffect DEF Follows

\* The same for their assignments.
LEMMA AssignmentsFollowed ==
    ASSUME NEW c, ReadModelOf(c, "assignments"), NEW o \in DOMAIN OwnerEvents["assignments"]
    PROVE  Follows(c, "assignments", o)
  <1> DEFINE e == AssignmentEvents[o]
  <1>1. OwnerEvents["assignments"] = AssignmentEvents /\ c = "cluster"
    BY ConsumersOf DEF OwnerEvents
  <1>2. /\ SeenAction(AssignmentEvents["create"]) = "role_user_assign"
        /\ SeenAction(AssignmentEvents["delete"]) = "role_user_unassign"
        /\ AssignmentEvents["create"].name = "ProxyPolicyChanged"
        /\ AssignmentEvents["delete"].name = "ProxyPolicyChanged"
        /\ DOMAIN AssignmentEvents = {"create", "delete"}
    BY DEF AssignmentEvents, FlatEvent, SeenAction
  <1>3. /\ e.name = "ProxyPolicyChanged"
        /\ \/ o = "create" /\ SeenAction(e) = "role_user_assign"
           \/ o = "delete" /\ SeenAction(e) = "role_user_unassign"
    BY <1>1, <1>2
  <1> HIDE DEF e
  <1>4. EffectOn("cluster", "assignments", e) = IF o = "delete" THEN RemoveRow("assignments") ELSE UpsertRow("assignments")
    BY <1>3, RowKinds DEF EffectOn, Projection, ClusterProjection, UpsertRow, RemoveRow
  <1> QED  BY <1>1, <1>4 DEF Follows, e

\* The same for request forms.
LEMMA FormsFollowed ==
    ASSUME NEW c, ReadModelOf(c, "forms"), NEW o \in DOMAIN OwnerEvents["forms"]
    PROVE  Follows(c, "forms", o)
  <1> DEFINE e == FormEvents[o]
  <1>1. OwnerEvents["forms"] = FormEvents /\ c = "dashboard"
    BY ConsumersOf DEF OwnerEvents
  <1>2. /\ FormEvents["create"].name = "FormCreated" /\ FormEvents["update"].name = "FormUpdated"
        /\ DOMAIN FormEvents = {"create", "update"}
    BY DEF FormEvents, PlainEvent
  <1>3. e.name \in {"FormCreated", "FormUpdated"} /\ o # "delete"
    BY <1>1, <1>2
  <1> HIDE DEF e
  <1>4. EffectOn("dashboard", "forms", e) = UpsertRow("forms")
    BY <1>3, RowKinds DEF EffectOn, Projection, DashboardProjection, WritesRow, RemovesRow, UpsertRow
  <1> QED  BY <1>1, <1>3, <1>4 DEF Follows, e

\* The same for rules about images.
LEMMA ImageRulesFollowed ==
    ASSUME NEW c, ReadModelOf(c, "imageRules"), NEW o \in DOMAIN OwnerEvents["imageRules"]
    PROVE  Follows(c, "imageRules", o)
  <1> DEFINE e == ImageRuleEvents[o]
  <1>1. OwnerEvents["imageRules"] = ImageRuleEvents /\ c = "policyData"
    BY ConsumersOf DEF OwnerEvents
  <1>2. /\ ImageRuleEvents["create"].name = "ImagePublished" /\ ImageRuleEvents["update"].name = "ImagePublished"
        /\ ImageRuleEvents["delete"].name = "ImageUnpublished"
        /\ DOMAIN ImageRuleEvents = {"create", "update", "delete"}
    BY DEF ImageRuleEvents, PlainEvent
  <1>3. \/ e.name = "ImagePublished" /\ o # "delete"
        \/ e.name = "ImageUnpublished" /\ o = "delete"
    BY <1>1, <1>2
  <1> HIDE DEF e
  <1>4. EffectOn("policyData", "imageRules", e) = IF o = "delete" THEN RemoveRow("imageRules") ELSE UpsertRow("imageRules")
    BY <1>3, RowKinds DEF EffectOn, Projection, PolicyDataProjection, WritesRow, RemovesRow, UpsertRow, RemoveRow
  <1> QED  BY <1>1, <1>4 DEF Follows, e

\* Every read model but the three no consumer follows.
LEMMA AllFollowed ==
    ASSUME NEW c, NEW res, ReadModelOf(c, res), res \notin Unfollowed, NEW o \in DOMAIN OwnerEvents[res]
    PROVE  Follows(c, res, o)
  <1>1. res \in {"users", "projects", "members", "groups", "policyRoles", "assignments", "forms", "imageRules"}
    BY DEF ReadModelOf, OwnerEvents, Unfollowed
  <1> QED  BY <1>1, UsersFollowed, ProjectsFollowed, MembersFollowed, GroupsFollowed,
              PolicyRolesFollowed, AssignmentsFollowed, FormsFollowed, ImageRulesFollowed
-----------------------------------------------------------------------------
(***************************************************************************)
(* What the rows of a read model are.                                      *)
(***************************************************************************)

\* What event i leaves of its row.
RowAfter(i) == IF \E x \in EventEffect(i) : x.removes THEN 0 ELSE i

\* Event j is the last about row k among the first n.
LastAbout(k, n, j) == j \in 1..n /\ log[j].key = k /\ \A m \in 1..n : m > j => log[m].key # k

\* Where the runs are in the outbox.
RunPlaced(r) ==
    run[r].pc # "idle" => /\ run[r].upto <= Len(log)
                          /\ run[r].i \in 1..(run[r].upto + 1)
                          /\ run[r].pc # "consume" => run[r].i <= run[r].upto

Positions ==
    /\ \A r \in Runners : RunPlaced(r)
    /\ inbox \subseteq 1..Len(log)
    /\ faults \in Nat
    /\ recon.pc = "rebuilt" => /\ recon.since \in Nat /\ recon.since <= faults
                               /\ recon.upto \in Nat /\ recon.upto <= Len(log)

\* Where the behaviour allows one run at a time there is one.
OneRun == shape.width = 1 /\ run["read"].pc # "idle" => recon.pc = "idle"

\* A row of the owner that did not last change in silence is what the last
\* event about it says, and there are no such rows without an event.
OwnerFollows ==
    \A k \in Keys \ silent, j \in 1..Len(log) :
        LastAbout(k, Len(log), j) => src[k] = RowAfter(j) \/ (shape.res = "users" /\ src[k] = 0)

RowsOwed ==
    \A k \in Keys : (k \notin silent /\ src[k] # 0) \/ rows[k] # 0 => \E j \in 1..Len(log) : log[j].key = k

OwnerRows ==
    /\ src \in [Keys -> Int] /\ rows \in [Keys -> Nat]
    /\ RowsOwed
    /\ OwnerFollows

Applied == {j \in inbox : \A r \in Runners : run[r].pc = "apply" => run[r].i # j}

\* Without overlap and faults the consumer takes the events in their order,
\* and each row is what the last event it has taken says.
InOrder == \A j \in inbox : 1..j \subseteq inbox

RunInOrder(r) ==
    run[r].pc # "idle" => /\ 1..(run[r].i - 1) \subseteq inbox
                          /\ run[r].pc = "resolve" => run[r].i \in inbox
                          /\ run[r].pc = "apply" => inbox = 1..run[r].i

RowsFollow ==
    \A j \in Applied : (\A m \in Applied : m > j => log[m].key # log[j].key) => rows[log[j].key] = RowAfter(j)

Quiet ==
    shape.width = 1 /\ shape.faults = 0 =>
        dead = {} /\ replay = {} /\ InOrder /\ (\A r \in Runners : RunInOrder(r)) /\ RowsFollow

\* How far the tick's run is, and has always been, in a rebuild.
Done ==
    LET t == run["tick"]
    IN  IF t.pc = "idle" THEN recon.upto ELSE IF t.pc = "resolve" THEN t.i ELSE t.i - 1

\* A rebuild without overlap and faults applies every event once more, in
\* order, whatever a replay makes the consumer forget meanwhile.
TakenAgain == inbox \subseteq 1..(IF run["tick"].pc = "apply" THEN Done + 1 ELSE Done)

RowsRestored == \A k \in Keys, j \in 1..Done : LastAbout(k, Done, j) => rows[k] = RowAfter(j)

Rebuilding ==
    shape.width = 1 /\ recon.pc = "rebuilt" /\ recon.since = faults =>
        (run["tick"].pc # "idle" => run["tick"].upto = recon.upto) /\ TakenAgain /\ RowsRestored

RowsInv == RunsInv /\ Positions /\ OneRun /\ (shape.res \notin Unfollowed => OwnerRows /\ Quiet /\ Rebuilding)
\* The outbox holds events of the resource, about its rows.
LEMMA LogTyped ==
    ASSUME RunTypes
    PROVE  /\ Len(log) \in Nat
           /\ \A j \in 1..Len(log) : log[j].event \in EventsOf(shape.res) /\ log[j].key \in Keys
  <1> DEFINE S == [event : EventsOf(shape.res), key : Keys]
  <1>1. log \in Seq(S)
    BY DEF RunTypes
  <1>2. Len(log) \in Nat /\ \A j \in 1..Len(log) : log[j] \in S
    <2> HIDE DEF S
    <2> QED  BY <1>1
  <1> QED  BY <1>2

\* The events of a followed read model write or remove its row.
LEMMA EffectOfEvent ==
    ASSUME RunTypes, shape.res \notin Unfollowed, NEW i \in 1..Len(log)
    PROVE  EventEffect(i) # {}
  <1>1. log[i].event \in EventsOf(shape.res) /\ ReadModelOf(shape.consumer, shape.res)
    BY LogTyped, ShapesAssumption DEF RunTypes
  <1>2. PICK o \in DOMAIN OwnerEvents[shape.res] : log[i].event = OwnerEvents[shape.res][o]
    BY <1>1 DEF EventsOf
  <1>3. Follows(shape.consumer, shape.res, o)
    BY <1>1, AllFollowed
  <1> QED  BY <1>2, <1>3 DEF Follows, EffectOn, EventEffect, UpsertRow, RemoveRow

\* A change of the owner leaves the events before it as they are.
LEMMA WrittenEvent ==
    ASSUME RunTypes, shape.res \notin Unfollowed, NEW k \in Keys, NEW o, OwnerWrite(k, o),
           NEW n \in Nat, n = Len(log) + 1
    PROVE  /\ Len(log') = n /\ Len(log) \in Nat
           /\ \A j \in 1..Len(log) : log'[j] = log[j] /\ RowAfter(j)' = RowAfter(j)
           /\ log'[n].key = k
           /\ RowAfter(n)' = IF o = "delete" /\ shape.res # "users" THEN 0 ELSE n
  <1> DEFINE e == [event |-> OwnerEvents[shape.res][o], key |-> k]
  <1>1. /\ log' = Append(log, e) /\ shape' = shape
        /\ o \in DOMAIN OwnerEvents[shape.res]
        /\ ReadModelOf(shape.consumer, shape.res)
    BY ShapesAssumption DEF OwnerWrite, RunTypes
  <1>2. e \in [event : EventsOf(shape.res), key : Keys] /\ log \in Seq([event : EventsOf(shape.res), key : Keys])
    BY <1>1 DEF EventsOf, RunTypes
  <1>3. /\ Len(log') = n /\ Len(log) \in Nat /\ log'[n] = e
        /\ \A j \in 1..Len(log) : log'[j] = log[j]
    BY <1>1, <1>2
  <1>4. \A j \in 1..Len(log) : RowAfter(j)' = RowAfter(j)
    BY <1>1, <1>3 DEF RowAfter, EventEffect
  <1>5. EventEffect(n)' = EffectOn(shape.consumer, shape.res, OwnerEvents[shape.res][o])
    BY <1>1, <1>3 DEF EventEffect, EffectOn
  <1>6. EventEffect(n)' = IF o = "delete" /\ shape.res # "users"
                          THEN RemoveRow(shape.res) ELSE UpsertRow(shape.res)
    BY <1>1, <1>5, AllFollowed DEF Follows
  <1>7. (\E x \in EventEffect(n)' : x.removes) <=> (o = "delete" /\ shape.res # "users")
    <2> DEFINE E == EventEffect(n)'
    <2>1. \/ o = "delete" /\ shape.res # "users" /\ E = {[res |-> shape.res, removes |-> TRUE]}
          \/ ~(o = "delete" /\ shape.res # "users") /\ E = {[res |-> shape.res, removes |-> FALSE]}
      BY <1>6 DEF RemoveRow, UpsertRow
    <2> HIDE DEF E
    <2>2. /\ [res |-> shape.res, removes |-> TRUE].removes
          /\ ~[res |-> shape.res, removes |-> FALSE].removes
      OBVIOUS
    <2>3. (\E x \in E : x.removes) <=> (o = "delete" /\ shape.res # "users")
      BY <2>1, <2>2
    <2> QED  BY <2>3 DEF E
  <1>8. RowAfter(n)' = IF o = "delete" /\ shape.res # "users" THEN 0 ELSE n
    BY <1>7 DEF RowAfter
  <1> QED  BY <1>3, <1>4, <1>8

\* Other steps leave the events alone.
LEMMA SameEvents ==
    ASSUME UNCHANGED <<shape, log>>
    PROVE  /\ \A j : RowAfter(j)' = RowAfter(j)
           /\ \A k, n, j : LastAbout(k, n, j)' <=> LastAbout(k, n, j)
  BY DEF RowAfter, EventEffect, LastAbout

\* OwnerRows is about outbox and rows only.
LEMMA SameOwnerRows ==
    ASSUME OwnerRows, UNCHANGED <<shape, log, src, rows, silent>>
    PROVE  OwnerRows'
  <1>1. OwnerFollows'
    <2>1. \A k, j : LastAbout(k, Len(log), j)' <=> LastAbout(k, Len(log), j)
      BY DEF LastAbout
    <2> QED  BY <2>1, SameEvents DEF OwnerRows, OwnerFollows
  <1> QED  BY <1>1 DEF OwnerRows, RowsOwed

\* The rows follow the events taken as long as these stay the same.
LEMMA SameRowsFollow ==
    ASSUME RowsFollow, UNCHANGED <<shape, log, rows>>, Applied' = Applied
    PROVE  RowsFollow'
  BY SameEvents DEF RowsFollow

\* RowsRestored is about outbox, rows and the place of the rebuild only.
LEMMA SameRowsRestored ==
    ASSUME RowsRestored, UNCHANGED <<shape, log, rows>>, Done' = Done
    PROVE  RowsRestored'
  <1>1. \A k, j : LastAbout(k, Done, j)' <=> LastAbout(k, Done, j)
    BY DEF LastAbout
  <1> QED  BY <1>1, SameEvents DEF RowsRestored

\* Where a run under way is.
LEMMA RunAt ==
    ASSUME RunsInv, Positions, NEW r \in Runners, run[r].pc # "idle"
    PROVE  /\ run[r].i \in Nat /\ run[r].upto \in Nat /\ Len(log) \in Nat
           /\ run[r].i >= 1 /\ run[r].upto <= Len(log) /\ run[r].i <= run[r].upto + 1
           /\ run[r].pc # "consume" => run[r].i <= run[r].upto
  <1>1. run[r] \in [pc : {"consume", "apply", "resolve"}, upto : Nat, i : Nat]
    BY RunNext DEF RunsInv
  <1>2. run[r].i \in Nat /\ run[r].upto \in Nat /\ Len(log) \in Nat
    BY <1>1 DEF RunsInv, RunTypes
  <1>3. RunPlaced(r)
    BY DEF Positions
  <1> QED  BY <1>2, <1>3 DEF RunPlaced

\* A rebuild without faults: whatever a step does, it is not a fault.
LEMMA NoFaultSince ==
    ASSUME Positions, recon.pc = "rebuilt"
    PROVE  faults \in Nat /\ recon.since # faults + 1
  <1>1. faults \in Nat /\ recon.since \in Nat /\ recon.since <= faults
    BY DEF Positions
  <1> QED  BY <1>1

\* What a step of a run does to its position.
LEMMA RunMoves ==
    ASSUME RunsInv, Positions, NEW r \in Runners, ProjectionRun(r)
    PROVE  /\ run[r].pc # "idle" /\ run[r].i \in Nat /\ run[r].upto \in Nat
           /\ \A q \in Runners \ {r} : run'[q] = run[q]
           /\ \/ run'[r].pc = "idle" /\ run[r].pc = "consume"
              \/ /\ run'[r].upto = run[r].upto
                 /\ \/ run'[r].pc = "consume" /\ run'[r].i = run[r].i + 1 /\ run[r].i <= run[r].upto
                    \/ run'[r].pc # "idle" /\ run'[r].pc # "consume" /\ run'[r].i = run[r].i /\ run[r].i <= run[r].upto
           /\ run' \in [Runners -> RunStates]
           /\ inbox' \subseteq inbox \cup {run[r].i}
  <1>1. RunTypes /\ run[r].pc \in {"consume", "apply", "resolve"}
    BY DEF RunsInv, ProjectionRun, RunConsume, RunApply, RunResolve, RunEnd
  <1>2. run[r] \in [pc : {"consume", "apply", "resolve"}, upto : Nat, i : Nat]
    BY <1>1, RunNext
  <1>3. PICK next \in RunStates :
            /\ RunTo(r, next)
            /\ \/ next = RunIdle /\ run[r].pc = "consume"
               \/ /\ next = [pc |-> "consume", upto |-> run[r].upto, i |-> run[r].i + 1]
                  /\ run[r].pc = "consume" => run[r].i <= run[r].upto
               \/ /\ next \in {[run[r] EXCEPT !.pc = "apply"], [run[r] EXCEPT !.pc = "resolve"]}
                  /\ run[r].pc = "consume" => run[r].i <= run[r].upto
    BY <1>1, RunNext DEF ProjectionRun, RunConsume, RunApply, RunResolve, RunEnd, RunNextEvent, RunStates
  <1>4. run' \in [Runners -> RunStates] /\ run'[r] = next /\ \A q \in Runners \ {r} : run'[q] = run[q]
    BY <1>1, <1>3, RunToStep
  <1>5. /\ run[r].i \in 1..(run[r].upto + 1)
        /\ run[r].pc # "consume" => run[r].i <= run[r].upto
    BY <1>1 DEF Positions, RunPlaced
  <1>6. \/ next.pc = "idle" /\ run[r].pc = "consume"
        \/ /\ next.upto = run[r].upto
           /\ \/ next.pc = "consume" /\ next.i = run[r].i + 1 /\ run[r].i <= run[r].upto
              \/ next.pc # "idle" /\ next.pc # "consume" /\ next.i = run[r].i /\ run[r].i <= run[r].upto
    BY <1>2, <1>3, <1>5 DEF RunIdle
  <1>7. inbox' \subseteq inbox \cup {run[r].i}
    BY DEF ProjectionRun, RunConsume, RunApply, RunResolve, RunEnd
  <1> QED  BY <1>2, <1>4, <1>6, <1>7
\* With room for one run, a run starts only where nothing is under way.
LEMMA NothingUnderWay ==
    ASSUME RunTypes, shape.width = 1, RunsOverlap < shape.width
    PROVE  (\A r \in Runners : run[r] = RunIdle) /\ recon.pc = "idle"
  BY DEF RunsOverlap, Runners

\* The steps that start a run or belong to the reconciler.
LEMMA StartMoves ==
    ASSUME RunsInv, ReadStart \/ ReconcileStart \/ ReconcileDrift \/ ReconcileMeasure
    PROVE  /\ UNCHANGED <<shape, log, src, rows, dead, replay, faults, silent>>
           /\ Len(log) \in Nat
           /\ run' \in [Runners -> RunStates]
           /\ \A r \in Runners :
                 \/ run'[r] = run[r]
                 \/ /\ run[r] = RunIdle /\ run'[r].pc = "consume"
                    /\ run'[r].upto = Len(log) /\ run'[r].i = 1
           /\ shape.width = 1 => (run'["read"].pc # "idle" /\ run'["read"] # run["read"] => recon.pc = "idle" /\ recon' = recon)
           /\ shape.width = 1 => (recon.pc = "idle" /\ recon'.pc # "idle" => run["read"] = RunIdle /\ run'["read"] = RunIdle)
           /\ \/ inbox' = inbox
              \/ inbox' = {} /\ recon.pc = "synced" /\ recon'.pc = "rebuilt"
           /\ recon'.pc = "rebuilt" =>
                 \/ recon' = recon /\ run'["tick"] = run["tick"]
                 \/ /\ recon.pc = "synced" /\ inbox' = {} /\ recon'.since = faults /\ recon'.upto = Len(log)
                    /\ run'["tick"] = Started /\ run'["read"] = run["read"]
  <1>1. RunTypes /\ RunsOrdered
    BY DEF RunsInv
  <1>2. /\ UNCHANGED <<shape, log, src, rows, dead, replay, faults, silent>> /\ Len(log) \in Nat
    BY <1>1 DEF RunTypes, ReadStart, ReconcileStart, ReconcileDrift, ReconcileMeasure
  <1>3. CASE ReadStart
    <2>1. /\ run["read"] = RunIdle /\ RunTo("read", Started) /\ "read" \in Runners
          /\ recon' = recon /\ inbox' = inbox /\ RunsOverlap < shape.width
      BY <1>3 DEF ReadStart, Runners
    <2>2. /\ run' \in [Runners -> RunStates] /\ run'["read"] = Started /\ run'["tick"] = run["tick"]
      BY <1>1, <2>1, RunToStep, StartedType DEF Runners
    <2>3. shape.width = 1 => recon.pc = "idle"
      BY <1>1, <2>1, NothingUnderWay
    <2>4. \A r \in Runners : \/ run'[r] = run[r]
                             \/ /\ run[r] = RunIdle /\ run'[r].pc = "consume"
                                /\ run'[r].upto = Len(log) /\ run'[r].i = 1
      BY <2>1, <2>2 DEF Runners, Started
    <2> QED  BY <1>2, <2>1, <2>2, <2>3, <2>4
  <1>4. CASE ReconcileStart
    <2>1. /\ recon.pc = "idle" /\ run["tick"] = RunIdle /\ RunTo("tick", Started) /\ "tick" \in Runners
          /\ inbox' = inbox /\ RunsOverlap < shape.width /\ recon'.pc = "synced"
      BY <1>1, <1>4 DEF ReconcileStart, Runners, RunsOrdered, RunTypes
    <2>2. /\ run' \in [Runners -> RunStates] /\ run'["tick"] = Started /\ run'["read"] = run["read"]
      BY <1>1, <2>1, RunToStep, StartedType DEF Runners
    <2>3. shape.width = 1 => run["read"] = RunIdle
      BY <1>1, <2>1, NothingUnderWay DEF Runners
    <2>4. \A r \in Runners : \/ run'[r] = run[r]
                             \/ /\ run[r] = RunIdle /\ run'[r].pc = "consume"
                                /\ run'[r].upto = Len(log) /\ run'[r].i = 1
      BY <2>1, <2>2 DEF Runners, Started
    <2> QED  BY <1>2, <2>1, <2>2, <2>3, <2>4
  <1>5. CASE ReconcileDrift
    <2>1. CASE run' = run /\ inbox' = inbox /\ recon'.pc = "idle" /\ recon.pc = "synced"
      BY <1>1, <1>2, <2>1 DEF RunTypes
    <2>2. CASE /\ run["tick"] = RunIdle /\ RunTo("tick", Started) /\ inbox' = {} /\ recon.pc = "synced"
               /\ recon'.pc = "rebuilt" /\ recon'.since = faults /\ recon'.upto = Len(log)
      <3>1. /\ run' \in [Runners -> RunStates] /\ run'["tick"] = Started /\ run'["read"] = run["read"]
        BY <1>1, <2>2, RunToStep, StartedType DEF Runners
      <3>2. \A r \in Runners : \/ run'[r] = run[r]
                               \/ /\ run[r] = RunIdle /\ run'[r].pc = "consume"
                                  /\ run'[r].upto = Len(log) /\ run'[r].i = 1
        BY <2>2, <3>1 DEF Runners, Started
      <3> QED  BY <1>2, <2>2, <3>1, <3>2
    <2>3. recon.pc = "synced" /\ run["tick"] = RunIdle
      BY <1>5 DEF ReconcileDrift
    <2>4. \/ recon' = [pc |-> "idle", residual |-> Drift] /\ UNCHANGED <<inbox, run>>
          \/ /\ inbox' = {} /\ RunTo("tick", Started)
             /\ recon' = [pc |-> "rebuilt", residual |-> recon.residual, since |-> faults, upto |-> Len(log)]
      BY <1>5 DEF ReconcileDrift, ResetConsumer
    <2> QED  BY <2>1, <2>2, <2>3, <2>4
  <1>6. CASE ReconcileMeasure
    <2>1. run' = run /\ inbox' = inbox /\ recon'.pc = "idle" /\ recon.pc = "rebuilt"
      BY <1>6 DEF ReconcileMeasure
    <2> QED  BY <1>1, <1>2, <2>1 DEF RunTypes
  <1> QED  BY <1>3, <1>4, <1>5, <1>6

\* A write of the owner moves no run.
LEMMA OwnerWritePositions ==
    ASSUME RunsInv, Positions, OneRun, NEW k \in Keys, NEW o, OwnerWrite(k, o)
    PROVE  Positions' /\ OneRun'
  <1>1. Len(log') = Len(log) + 1 /\ Len(log) \in Nat
    <2> DEFINE S == [event : EventsOf(shape.res), key : Keys]
               e == [event |-> OwnerEvents[shape.res][o], key |-> k]
    <2>1. log' = Append(log, e) /\ log \in Seq(S) /\ e \in S
      BY DEF OwnerWrite, RunsInv, RunTypes, EventsOf
    <2> HIDE DEF S, e
    <2> QED  BY <2>1
  <1>2. UNCHANGED <<shape, run, inbox, faults, recon>>
    BY DEF OwnerWrite
  <1>3. \A r \in Runners : RunPlaced(r)'
    <2> SUFFICES ASSUME NEW r \in Runners, run[r].pc # "idle" PROVE RunPlaced(r)'
      BY <1>2 DEF RunPlaced
    <2>1. run[r].upto \in Nat
      BY RunAt
    <2> QED  BY <1>1, <1>2, <2>1 DEF Positions, RunPlaced
  <1>4. inbox' \subseteq 1..Len(log')
    BY <1>1, <1>2 DEF Positions
  <1> QED  BY <1>1, <1>2, <1>3, <1>4 DEF Positions, OneRun

\* A run stays within the events it set out to read.
LEMMA RunPositions ==
    ASSUME RunsInv, Positions, OneRun, NEW r \in Runners, ProjectionRun(r)
    PROVE  Positions' /\ OneRun'
  <1>1. /\ UNCHANGED <<shape, log, recon>> /\ Len(log) \in Nat
        /\ (faults' = faults \/ faults' = faults + 1)
    BY DEF ProjectionRun, RunConsume, RunApply, RunResolve, RunEnd, RunFault, RunsInv, RunTypes
  <1>2. /\ run[r].pc # "idle" /\ run[r].i \in Nat /\ run[r].upto \in Nat
        /\ \A q \in Runners \ {r} : run'[q] = run[q]
        /\ \/ run'[r].pc = "idle" /\ run[r].pc = "consume"
           \/ /\ run'[r].upto = run[r].upto
              /\ \/ run'[r].pc = "consume" /\ run'[r].i = run[r].i + 1 /\ run[r].i <= run[r].upto
                 \/ /\ run'[r].pc # "idle" /\ run'[r].pc # "consume"
                    /\ run'[r].i = run[r].i /\ run[r].i <= run[r].upto
    BY RunMoves
  <1>3. run[r].upto <= Len(log) /\ run[r].i >= 1
    BY <1>2, RunAt
  <1>4. \A q \in Runners : RunPlaced(q)'
    <2>1. RunPlaced(r)'
      BY <1>1, <1>2, <1>3 DEF RunPlaced
    <2>2. \A q \in Runners \ {r} : RunPlaced(q)'
      BY <1>1, <1>2 DEF Positions, RunPlaced
    <2> QED  BY <2>1, <2>2
  <1>5. inbox' \subseteq 1..Len(log)
    <2>1. CASE run[r].i <= run[r].upto
      <3>1. run[r].i \in 1..Len(log)
        BY <1>1, <1>2, <1>3, <2>1
      <3>2. inbox' \subseteq inbox \cup {run[r].i}
        BY RunMoves
      <3> QED  BY <3>1, <3>2 DEF Positions
    <2>2. CASE run[r].i > run[r].upto
      <3>1. RunEnd(r)
        <4>1. run[r].pc # "consume" => run[r].i <= run[r].upto
          BY <1>2, RunAt
        <4>2. ~(run[r].i <= run[r].upto)
          BY <1>2, <2>2
        <4> QED  BY <4>1, <4>2 DEF ProjectionRun, RunConsume, RunApply, RunResolve
      <3> QED  BY <3>1 DEF RunEnd, Positions
    <2> QED  BY <1>2, <2>1, <2>2
  <1>6. faults' \in Nat /\ (recon.pc = "rebuilt" => recon.since <= faults')
    BY <1>1 DEF Positions
  <1>7. Positions'
    BY <1>1, <1>4, <1>5, <1>6 DEF Positions
  <1>8. OneRun'
    BY <1>1, <1>2 DEF OneRun, Runners
  <1> QED  BY <1>7, <1>8

\* A read or a tick starts a run only where one is allowed.
LEMMA StartPositions ==
    ASSUME RunsInv, Positions, OneRun, ReadStart \/ ReconcileStart \/ ReconcileDrift \/ ReconcileMeasure
    PROVE  Positions' /\ OneRun'
  <1>1. UNCHANGED <<shape, log, faults>> /\ Len(log) \in Nat
    BY StartMoves
  <1>2. inbox' \subseteq 1..Len(log)
    <2>1. inbox' = inbox \/ inbox' = {}
      BY StartMoves
    <2> QED  BY <2>1 DEF Positions
  <1>3. \A r \in Runners : RunPlaced(r)'
    <2> SUFFICES ASSUME NEW r \in Runners PROVE RunPlaced(r)'
      OBVIOUS
    <2>1. \/ run'[r] = run[r]
          \/ run'[r].pc = "consume" /\ run'[r].upto = Len(log) /\ run'[r].i = 1
      BY StartMoves
    <2>2. CASE run'[r] = run[r]
      BY <1>1, <2>2 DEF Positions, RunPlaced
    <2>3. CASE run'[r].pc = "consume" /\ run'[r].upto = Len(log) /\ run'[r].i = 1
      BY <1>1, <2>3 DEF RunPlaced
    <2> QED  BY <2>1, <2>2, <2>3
  <1>4. recon'.pc = "rebuilt" => /\ recon'.since \in Nat /\ recon'.since <= faults
                                 /\ recon'.upto \in Nat /\ recon'.upto <= Len(log)
    <2>1. recon'.pc = "rebuilt" => recon' = recon \/ (recon'.since = faults /\ recon'.upto = Len(log))
      BY StartMoves
    <2>2. faults \in Nat
      BY DEF Positions
    <2> QED  BY <1>1, <2>1, <2>2 DEF Positions
  <1>5. Positions'
    BY <1>1, <1>2, <1>3, <1>4 DEF Positions
  <1>6. OneRun'
    <2>1. shape.width = 1 =>
             /\ run'["read"].pc # "idle" /\ run'["read"] # run["read"] => recon.pc = "idle" /\ recon' = recon
             /\ recon.pc = "idle" /\ recon'.pc # "idle" => run'["read"] = RunIdle
      BY StartMoves
    <2> QED  BY <1>1, <2>1 DEF OneRun, RunIdle
  <1> QED  BY <1>5, <1>6

\* A run that is cut short is counted as a fault.
LEMMA CrashPositions ==
    ASSUME RunsInv, Positions, OneRun, NEW r \in Runners, RunCrash(r)
    PROVE  Positions' /\ OneRun'
  <1>1. /\ UNCHANGED <<shape, log, inbox>> /\ faults' = faults + 1
        /\ (recon' = recon \/ recon'.pc = "idle")
        /\ run'[r] = RunIdle /\ \A q \in Runners \ {r} : run'[q] = run[q]
    BY DEF RunCrash, RunFault, RunTo, ReconResting, RunsInv, RunTypes
  <1>2. \A q \in Runners : RunPlaced(q)'
    BY <1>1 DEF Positions, RunPlaced, RunIdle
  <1>3. Positions'
    BY <1>1, <1>2 DEF Positions
  <1> QED  BY <1>1, <1>3 DEF OneRun, RunIdle, Runners

\* So is a reconciler that gives up; a silent change moves nothing.
LEMMA AsidePositions ==
    ASSUME RunsInv, Positions, OneRun,
           ReconcileFails \/ \E k \in Keys, o \in {"create", "update", "delete"} : OwnerSilent(k, o)
    PROVE  Positions' /\ OneRun'
  <1>1. /\ UNCHANGED <<shape, log, run, inbox>> /\ faults' \in {faults, faults + 1}
        /\ (recon' = recon \/ recon'.pc = "idle")
    BY DEF ReconcileFails, OwnerSilent, RunFault
  <1>2. Positions'
    BY <1>1 DEF Positions, RunPlaced
  <1> QED  BY <1>1, <1>2 DEF OneRun

\* Every step keeps the runs in their places.
LEMMA PositionsNext ==
    ASSUME RunsInv, Positions, OneRun, [ProjectionNext]_projectionVars
    PROVE  Positions' /\ OneRun'
  <1>1. CASE ReplayList \/ ReplayReset
    BY <1>1 DEF ReplayList, ReplayReset, Positions, RunPlaced, OneRun
  <1>2. CASE UNCHANGED projectionVars
    BY <1>2 DEF projectionVars, Positions, RunPlaced, OneRun
  <1> QED  BY <1>1, <1>2, OwnerWritePositions, RunPositions, StartPositions, CrashPositions, AsidePositions
           DEF ProjectionNext, ProjectionTick
\* A change of the owner: its row is what the new event says.
LEMMA OwnerWriteRows ==
    ASSUME RunsInv, Positions, OwnerRows, Quiet, Rebuilding, shape.res \notin Unfollowed,
           NEW k \in Keys, NEW o, OwnerWrite(k, o)
    PROVE  OwnerRows' /\ Quiet' /\ Rebuilding'
  <1>0. RunTypes /\ Len(log) \in Nat
    BY DEF RunsInv, RunTypes
  <1> DEFINE n == Len(log) + 1
  <1>1. PICK m \in Nat : m = n
    BY <1>0
  <1>2. /\ Len(log') = m /\ log'[m].key = k
        /\ \A j \in 1..Len(log) : log'[j] = log[j] /\ RowAfter(j)' = RowAfter(j)
        /\ RowAfter(m)' = IF o = "delete" /\ shape.res # "users" THEN 0 ELSE m
    BY <1>0, <1>1, WrittenEvent
  <1>3. /\ UNCHANGED <<shape, rows, inbox, dead, run, recon, replay, faults>>
        /\ src' = [src EXCEPT ![k] = IF o = "delete" THEN 0 ELSE m]
        /\ silent' = silent \ {k}
    BY <1>1 DEF OwnerWrite
  <1>4. OwnerRows'
    <2>1. /\ src' \in [Keys -> Int] /\ rows' \in [Keys -> Nat]
          /\ src'[k] = (IF o = "delete" THEN 0 ELSE m)
          /\ \A q \in Keys \ {k} : src'[q] = src[q]
      BY <1>3 DEF OwnerRows
    <2>2. ASSUME NEW q \in Keys, (q \notin silent' /\ src'[q] # 0) \/ rows'[q] # 0
          PROVE  \E j \in 1..Len(log') : log'[j].key = q
      <3>1. CASE q = k
        BY <1>0, <1>1, <1>2, <3>1
      <3>2. CASE q # k
        <4>1. PICK j \in 1..Len(log) : log[j].key = q
          BY <1>3, <2>1, <2>2, <3>2 DEF OwnerRows, RowsOwed
        <4> QED  BY <1>0, <1>1, <1>2, <4>1
      <3> QED  BY <3>1, <3>2
    <2>3. ASSUME NEW q \in Keys \ silent', NEW j \in 1..Len(log'), LastAbout(q, Len(log), j)'
          PROVE  src'[q] = RowAfter(j)' \/ (shape'.res = "users" /\ src'[q] = 0)
      <3>1. j \in 1..m /\ log'[j].key = q /\ \A i \in 1..m : i > j => log'[i].key # q
        BY <1>2, <2>3 DEF LastAbout
      <3>2. CASE q = k
        <4>1. j = m
          BY <1>0, <1>1, <1>2, <3>1, <3>2
        <4> QED  BY <1>2, <1>3, <2>1, <3>2, <4>1
      <3>3. CASE q # k
        <4>1. j \in 1..Len(log)
          BY <1>0, <1>1, <1>2, <3>1, <3>3
        <4>2. LastAbout(q, Len(log), j)
          BY <1>0, <1>1, <1>2, <3>1, <4>1 DEF LastAbout
        <4>3. src[q] = RowAfter(j) \/ (shape.res = "users" /\ src[q] = 0)
          BY <1>3, <3>3, <4>1, <4>2 DEF OwnerRows, OwnerFollows
        <4> QED  BY <1>2, <1>3, <2>1, <3>3, <4>1, <4>3
      <3> QED  BY <3>2, <3>3
    <2> QED  BY <2>1, <2>2, <2>3 DEF OwnerRows, OwnerFollows, RowsOwed
  <1>5. Quiet'
    <2>1. SUFFICES ASSUME shape.width = 1, shape.faults = 0 PROVE Quiet'
      BY <1>3 DEF Quiet
    <2>2. Applied' = Applied /\ Applied \subseteq 1..Len(log)
      BY <1>3 DEF Applied, Positions
    <2>3. dead = {} /\ replay = {} /\ InOrder /\ (\A r \in Runners : RunInOrder(r)) /\ RowsFollow
      BY <2>1 DEF Quiet
    <2>4. RowsFollow'
      <3>1. \A i \in Applied : log'[i] = log[i] /\ RowAfter(i)' = RowAfter(i)
        BY <1>2, <2>2
      <3> QED  BY <1>3, <2>2, <2>3, <3>1 DEF RowsFollow
    <2>5. InOrder' /\ \A r \in Runners : RunInOrder(r)'
      BY <1>3, <2>3 DEF InOrder, RunInOrder
    <2> QED  BY <1>3, <2>3, <2>4, <2>5 DEF Quiet
  <1>6. Rebuilding'
    <2>1. SUFFICES ASSUME shape.width = 1, recon.pc = "rebuilt", recon.since = faults PROVE Rebuilding'
      BY <1>3 DEF Rebuilding
    <2>2. Done' = Done /\ Done \in Nat /\ Done <= Len(log)
      <3>1. run["tick"].pc # "idle" =>
               /\ run["tick"].i \in Nat /\ run["tick"].i >= 1 /\ run["tick"].i <= Len(log) + 1
               /\ run["tick"].pc # "consume" => run["tick"].i <= Len(log)
        BY RunAt DEF Runners
      <3>2. recon.upto \in Nat /\ recon.upto <= Len(log)
        BY <2>1 DEF Positions
      <3> QED  BY <1>0, <1>3, <3>1, <3>2 DEF Done
    <2>3. ASSUME NEW q \in Keys, NEW j \in 1..Done, LastAbout(q, Done, j)'
          PROVE  rows[q] = RowAfter(j)'
      <3>1. LastAbout(q, Done, j)
        BY <1>0, <1>2, <2>2, <2>3 DEF LastAbout
      <3>2. rows[q] = RowAfter(j)
        BY <2>1, <3>1 DEF Rebuilding, RowsRestored
      <3> QED  BY <1>0, <1>2, <2>2, <3>2
    <2>4. RowsRestored'
      BY <1>3, <2>2, <2>3 DEF RowsRestored
    <2>5. TakenAgain'
      BY <1>3, <2>1, <2>2 DEF Rebuilding, TakenAgain
    <2> QED  BY <1>3, <2>1, <2>4, <2>5 DEF Rebuilding
  <1> QED  BY <1>4, <1>5, <1>6

\* A silent change leaves events and rows alone.
LEMMA SilentRows ==
    ASSUME OwnerRows, Quiet, Rebuilding, NEW k \in Keys, NEW o, OwnerSilent(k, o)
    PROVE  OwnerRows' /\ Quiet' /\ Rebuilding'
  <1>1. /\ UNCHANGED <<shape, log, rows, inbox, dead, run, recon, replay, faults>>
        /\ silent' = silent \cup {k}
        /\ src' = [src EXCEPT ![k] = IF o = "delete" THEN 0 ELSE -1]
    BY DEF OwnerSilent
  <1>2. src' \in [Keys -> Int] /\ \A q \in Keys \ silent' : src'[q] = src[q] /\ q \in Keys \ silent
    BY <1>1 DEF OwnerRows
  <1>3. OwnerRows'
    <2>1. OwnerFollows'
      <3>1. \A q, j : LastAbout(q, Len(log), j)' <=> LastAbout(q, Len(log), j)
        BY <1>1 DEF LastAbout
      <3> QED  BY <1>1, <1>2, <3>1, SameEvents DEF OwnerRows, OwnerFollows
    <2>2. RowsOwed'
      BY <1>1, <1>2 DEF OwnerRows, RowsOwed
    <2> QED  BY <1>1, <1>2, <2>1, <2>2 DEF OwnerRows
  <1>4. Quiet'
    <2>1. RowsFollow => RowsFollow'
      BY <1>1, SameRowsFollow DEF Applied
    <2> QED  BY <1>1, <2>1 DEF Quiet, InOrder, RunInOrder
  <1>5. Rebuilding'
    <2>1. Done' = Done
      BY <1>1 DEF Done
    <2>2. RowsRestored => RowsRestored'
      BY <1>1, <2>1, SameRowsRestored
    <2> QED  BY <1>1, <2>1, <2>2 DEF Rebuilding, TakenAgain
  <1> QED  BY <1>3, <1>4, <1>5

\* With room for one run, the others are idle while one is under way, and
\* during a rebuild it is the tick's.
LEMMA OnlyRun ==
    ASSUME RunsInv, OneRun, shape.width = 1, NEW r \in Runners, run[r].pc # "idle"
    PROVE  /\ \A q \in Runners \ {r} : run[q].pc = "idle"
           /\ recon.pc = "rebuilt" => r = "tick"
  BY DEF RunsInv, RunsOrdered, OneRun, Runners, RunIdle

\* Taking an event: without faults it is the first one not yet taken.
LEMMA ConsumeRows ==
    ASSUME RunsInv, Positions, OneRun, OwnerRows, Quiet, Rebuilding, NEW r \in Runners, RunConsume(r)
    PROVE  OwnerRows' /\ Quiet' /\ Rebuilding'
  <1>1. /\ RunTypes /\ UNCHANGED <<shape, log, src, rows, dead, recon, replay, silent>>
        /\ run[r].pc = "consume" /\ run[r].i <= run[r].upto
        /\ run[r].i \in Nat /\ run[r].i >= 1 /\ run[r].upto \in Nat
    <2>1. /\ RunTypes /\ UNCHANGED <<shape, log, src, rows, dead, recon, replay, silent>>
          /\ run[r].pc = "consume" /\ run[r].i <= run[r].upto
      BY DEF RunsInv, RunConsume
    <2>2. run[r].i \in Nat /\ run[r].upto \in Nat /\ run[r].i >= 1
      BY <2>1, RunAt
    <2> QED  BY <2>1, <2>2
  <1>2. OwnerRows'
    BY <1>1, SameOwnerRows
  <1>3. PICK next \in RunStates :
            /\ RunTo(r, next)
            /\ \/ /\ next.pc = "apply" /\ next.i = run[r].i /\ next.upto = run[r].upto
                  /\ run[r].i \notin inbox /\ inbox' = inbox \cup {run[r].i} /\ faults' = faults
               \/ /\ next.pc = "consume" /\ next.i = run[r].i + 1 /\ next.upto = run[r].upto
                  /\ run[r].i \in inbox /\ inbox' = inbox /\ faults' = faults
               \/ faults < shape.faults /\ faults' = faults + 1
    BY <1>1, RunNext DEF RunConsume, RunNextEvent, RunFault
  <1>4. run'[r] = next /\ \A q \in Runners \ {r} : run'[q] = run[q]
    BY <1>1, <1>3, RunToStep
  <1>5. Quiet'
    <2>1. SUFFICES ASSUME shape.width = 1, shape.faults = 0 PROVE Quiet'
      BY <1>1 DEF Quiet
    <2>0. dead = {} /\ replay = {} /\ InOrder /\ RunInOrder(r) /\ RowsFollow
      BY <2>1 DEF Quiet
    <2>2. /\ \A q \in Runners \ {r} : run[q].pc = "idle" /\ run'[q].pc = "idle"
          /\ 1..(run[r].i - 1) \subseteq inbox /\ \A j \in inbox : 1..j \subseteq inbox
          /\ inbox \subseteq Nat /\ Applied = inbox
      <3>1. \A q \in Runners \ {r} : run[q].pc = "idle" /\ run'[q].pc = "idle"
        BY <1>1, <1>4, <2>1, OnlyRun
      <3>2. \A q \in Runners : run[q].pc # "apply"
        BY <1>1, <3>1
      <3>3. Applied = inbox
        BY <3>2 DEF Applied
      <3>4. inbox \subseteq Nat
        BY DEF Positions
      <3> QED  BY <1>1, <2>0, <3>1, <3>3, <3>4 DEF InOrder, RunInOrder
    <2>3. CASE next.pc = "apply" /\ inbox' = inbox \cup {run[r].i} /\ run[r].i \notin inbox /\ next.i = run[r].i
      <3>1. inbox = 1..(run[r].i - 1)
        <4>1. ASSUME NEW j \in inbox PROVE j \in 1..(run[r].i - 1)
          <5>1. j \in Nat /\ j >= 1
            BY DEF Positions
          <5>2. ~(j >= run[r].i)
            BY <1>1, <2>2, <2>3, <5>1
          <5> QED  BY <1>1, <5>1, <5>2
        <4> QED  BY <2>2, <4>1
      <3>2. inbox' = 1..run[r].i
        BY <1>1, <2>3, <3>1
      <3>3. Applied' = inbox
        BY <1>1, <1>4, <2>2, <2>3, <3>1, <3>2 DEF Applied
      <3>4. ASSUME NEW j \in inbox' PROVE 1..j \subseteq inbox'
        BY <1>1, <3>2
      <3>5. \A q \in Runners : RunInOrder(q)'
        <4>1. RunInOrder(r)'
          <5>1. run'[r].pc = "apply" /\ run'[r].i = run[r].i
            BY <1>4, <2>3
          <5>2. 1..(run[r].i - 1) \subseteq 1..run[r].i
            BY <1>1
          <5> QED  BY <3>2, <5>1, <5>2 DEF RunInOrder
        <4>2. \A q \in Runners \ {r} : RunInOrder(q)'
          BY <2>2 DEF RunInOrder
        <4> QED  BY <4>1, <4>2
      <3>6. InOrder'
        BY <3>4 DEF InOrder
      <3>7. RowsFollow'
        BY <1>1, <2>0, <2>2, <3>3, SameRowsFollow
      <3> QED  BY <1>1, <2>0, <3>5, <3>6, <3>7 DEF Quiet
    <2>4. CASE next.pc = "consume" /\ inbox' = inbox /\ run[r].i \in inbox /\ next.i = run[r].i + 1
      <3>1. Applied' = inbox
        BY <1>4, <2>2, <2>4 DEF Applied
      <3>2. \A q \in Runners : RunInOrder(q)'
        <4>1. RunInOrder(r)'
          <5>1. run'[r].pc = "consume" /\ run'[r].i - 1 = run[r].i
            BY <1>1, <1>4, <2>4
          <5>2. 1..run[r].i \subseteq inbox'
            BY <2>2, <2>4
          <5> QED  BY <5>1, <5>2 DEF RunInOrder
        <4>2. \A q \in Runners \ {r} : RunInOrder(q)'
          BY <2>2 DEF RunInOrder
        <4> QED  BY <4>1, <4>2
      <3>3. InOrder'
        BY <2>0, <2>4 DEF InOrder
      <3>4. RowsFollow'
        BY <1>1, <2>0, <2>2, <3>1, SameRowsFollow
      <3> QED  BY <1>1, <2>0, <3>2, <3>3, <3>4 DEF Quiet
    <2>5. ~(faults < shape.faults)
      BY <2>1 DEF Positions
    <2> QED  BY <1>3, <2>3, <2>4, <2>5
  <1>6. Rebuilding'
    <2>1. SUFFICES ASSUME shape.width = 1, recon.pc = "rebuilt", recon.since = faults' PROVE Rebuilding'
      BY <1>1 DEF Rebuilding
    <2>2. r = "tick" /\ faults' = faults
      <3>1. r = "tick"
        BY <1>1, <2>1, OnlyRun
      <3>2. faults' # faults + 1
        BY <2>1, NoFaultSince
      <3> QED  BY <1>3, <3>1, <3>2
    <2>0. run["tick"].upto = recon.upto /\ TakenAgain /\ RowsRestored
      BY <1>1, <2>1, <2>2 DEF Rebuilding
    <2>3. Done = run[r].i - 1 /\ inbox \subseteq 1..Done
      BY <1>1, <2>0, <2>2 DEF Done, TakenAgain
    <2>4. next.pc = "apply" /\ next.i = run[r].i /\ next.upto = run[r].upto /\ inbox' = inbox \cup {run[r].i}
      <3>1. run[r].i \notin inbox
        BY <1>1, <2>3
      <3>2. faults' # faults + 1
        BY <2>1, NoFaultSince
      <3> QED  BY <1>3, <3>1, <3>2
    <2>5. Done' = Done
      BY <1>4, <2>2, <2>3, <2>4 DEF Done
    <2>6. inbox' \subseteq 1..(Done + 1)
      <3>1. Done \in Nat /\ Done + 1 = run[r].i
        BY <1>1, <2>3
      <3>2. \A d \in Nat : 1..d \subseteq 1..(d + 1) /\ d + 1 \in 1..(d + 1)
        OBVIOUS
      <3> QED  BY <2>3, <2>4, <3>1, <3>2
    <2>7. run'["tick"].upto = recon'.upto
      BY <1>1, <1>4, <2>0, <2>2, <2>4
    <2>8. TakenAgain'
      BY <1>4, <2>2, <2>4, <2>5, <2>6 DEF TakenAgain
    <2>9. RowsRestored'
      BY <1>1, <2>0, <2>5, SameRowsRestored
    <2> QED  BY <2>7, <2>8, <2>9 DEF Rebuilding
  <1> QED  BY <1>2, <1>5, <1>6
\* Applying an event: its row becomes what the event says.
LEMMA ApplyRows ==
    ASSUME RunsInv, Positions, OneRun, OwnerRows, Quiet, Rebuilding, shape.res \notin Unfollowed,
           NEW r \in Runners, RunApply(r)
    PROVE  OwnerRows' /\ Quiet' /\ Rebuilding'
  <1>1. /\ RunTypes /\ UNCHANGED <<shape, log, src, inbox, recon, replay, silent>>
        /\ run[r].pc = "apply"
    BY DEF RunsInv, RunApply
  <1>2. PICK i \in Nat : i = run[r].i
    BY <1>1, RunNext
  <1>3. i \in 1..Len(log) /\ EventEffect(i) # {}
    <2>1. /\ run[r].i \in Nat /\ run[r].upto \in Nat /\ Len(log) \in Nat
          /\ run[r].i >= 1 /\ run[r].upto <= Len(log) /\ run[r].i <= run[r].upto
      BY <1>1, RunAt
    <2>2. i \in 1..Len(log)
      BY <1>2, <2>1
    <2> QED  BY <1>1, <2>2, EffectOfEvent
  <1>4. log[i].key \in Keys
    BY <1>1, <1>3, LogTyped
  <1>5. PICK next \in RunStates :
            /\ RunTo(r, next)
            /\ \/ /\ next.pc = "resolve" /\ next.i = i /\ next.upto = run[r].upto
                  /\ rows' = [rows EXCEPT ![log[i].key] = RowAfter(i)] /\ UNCHANGED <<dead, faults>>
               \/ faults < shape.faults /\ faults' = faults + 1 /\ rows' = rows
    BY <1>1, <1>2, <1>3, RunNext DEF RunApply, RunNextEvent, RunFault, RowAfter
  <1>6. run'[r] = next /\ \A q \in Runners \ {r} : run'[q] = run[q]
    BY <1>1, <1>5, RunToStep
  <1>7. rows' = rows \/ (/\ rows'[log[i].key] = RowAfter(i)
                         /\ \A k \in Keys \ {log[i].key} : rows'[k] = rows[k])
    BY <1>4, <1>5 DEF OwnerRows
  <1>8. OwnerRows'
    <2>1. RowAfter(i) \in Nat
      BY <1>2 DEF RowAfter
    <2>2. rows' \in [Keys -> Nat]
      BY <1>4, <1>5, <2>1 DEF OwnerRows
    <2>3. RowsOwed'
      BY <1>1, <1>3, <1>7 DEF OwnerRows, RowsOwed
    <2>4. OwnerFollows'
      <3>1. \A k, j : LastAbout(k, Len(log), j)' <=> LastAbout(k, Len(log), j)
        BY <1>1 DEF LastAbout
      <3> QED  BY <1>1, <3>1, SameEvents DEF OwnerRows, OwnerFollows
    <2> QED  BY <1>1, <2>2, <2>3, <2>4 DEF OwnerRows
  <1>9. Quiet'
    <2>1. SUFFICES ASSUME shape.width = 1, shape.faults = 0 PROVE Quiet'
      BY <1>1 DEF Quiet
    <2>2. /\ next.pc = "resolve" /\ next.i = i /\ UNCHANGED <<dead, faults>>
          /\ rows'[log[i].key] = RowAfter(i)
          /\ \A k \in Keys \ {log[i].key} : rows'[k] = rows[k]
      <3>1. ~(faults < shape.faults)
        BY <2>1 DEF Positions
      <3>2. rows \in [Keys -> Nat]
        BY DEF OwnerRows
      <3> QED  BY <1>4, <1>5, <3>1, <3>2
    <2>0. dead = {} /\ replay = {} /\ InOrder /\ RunInOrder(r) /\ RowsFollow
      BY <2>1 DEF Quiet
    <2>3. /\ \A q \in Runners \ {r} : run[q].pc = "idle" /\ run'[q].pc = "idle"
          /\ inbox = 1..i
      <3>1. \A q \in Runners \ {r} : run[q].pc = "idle" /\ run'[q].pc = "idle"
        BY <1>1, <1>6, <2>1, OnlyRun
      <3> QED  BY <1>1, <1>2, <2>0, <3>1 DEF RunInOrder
    <2>4. Applied = 1..(i - 1) /\ Applied' = 1..i
      <3>1. Applied = {j \in 1..i : j # i}
        BY <1>1, <1>2, <2>3 DEF Applied
      <3>2. Applied' = 1..i
        BY <1>1, <1>6, <2>2, <2>3 DEF Applied
      <3> QED  BY <3>1, <3>2
    <2>5. ASSUME NEW j \in 1..i, \A m \in 1..i : m > j => log[m].key # log[j].key
          PROVE  rows'[log[j].key] = RowAfter(j)
      <3>1. CASE j = i
        BY <2>2, <3>1
      <3>2. CASE j # i
        <4>1. j \in 1..(i - 1) /\ log[i].key # log[j].key
          BY <2>5, <3>2
        <4>2. rows[log[j].key] = RowAfter(j)
          BY <2>0, <2>4, <2>5, <4>1 DEF RowsFollow
        <4>3. log[j].key \in Keys
          BY <1>1, <1>3, <4>1, LogTyped
        <4> QED  BY <2>2, <4>1, <4>2, <4>3
      <3> QED  BY <3>1, <3>2
    <2>6. \A q \in Runners : RunInOrder(q)'
      <3>1. RunInOrder(r)'
        <4>1. run'[r].pc = "resolve" /\ run'[r].i = i /\ inbox' = 1..i
          BY <1>1, <1>6, <2>2, <2>3
        <4>2. 1..(i - 1) \subseteq 1..i /\ i \in 1..i
          BY <1>2, <1>3
        <4> QED  BY <4>1, <4>2 DEF RunInOrder
      <3>2. \A q \in Runners \ {r} : RunInOrder(q)'
        BY <2>3 DEF RunInOrder
      <3> QED  BY <3>1, <3>2
    <2>7. InOrder'
      BY <1>1, <2>0 DEF InOrder
    <2>8. RowsFollow'
      BY <1>1, <2>4, <2>5, SameEvents DEF RowsFollow
    <2> QED  BY <1>1, <2>0, <2>2, <2>6, <2>7, <2>8 DEF Quiet
  <1>10. Rebuilding'
    <2>1. SUFFICES ASSUME shape.width = 1, recon.pc = "rebuilt", recon.since = faults' PROVE Rebuilding'
      BY <1>1 DEF Rebuilding
    <2>9. faults' # faults + 1
      BY <2>1, NoFaultSince
    <2>2. r = "tick" /\ faults' = faults
      <3>1. r = "tick"
        BY <1>1, <2>1, OnlyRun
      <3> QED  BY <1>5, <2>9, <3>1
    <2>0. run["tick"].upto = recon.upto /\ TakenAgain /\ RowsRestored
      BY <1>1, <2>1, <2>2 DEF Rebuilding
    <2>3. /\ next.pc = "resolve" /\ next.i = i /\ next.upto = run[r].upto
          /\ rows'[log[i].key] = RowAfter(i)
          /\ \A k \in Keys \ {log[i].key} : rows'[k] = rows[k]
      <3>1. rows \in [Keys -> Nat]
        BY DEF OwnerRows
      <3> QED  BY <1>4, <1>5, <2>9, <3>1
    <2>4. Done = i - 1 /\ Done' = i /\ inbox' \subseteq 1..i
      <3>1. Done = i - 1 /\ Done' = i
        BY <1>1, <1>2, <1>6, <2>2, <2>3 DEF Done
      <3>2. inbox \subseteq 1..(Done + 1)
        BY <1>1, <2>0, <2>2 DEF TakenAgain
      <3> QED  BY <1>1, <1>2, <3>1, <3>2
    <2>5. ASSUME NEW k \in Keys, NEW j \in 1..i, LastAbout(k, i, j)
          PROVE  rows'[k] = RowAfter(j)
      <3>1. CASE j = i
        BY <2>3, <2>5, <3>1 DEF LastAbout
      <3>2. CASE j # i
        <4>1. j \in 1..(i - 1) /\ log[i].key # k /\ LastAbout(k, i - 1, j)
          BY <2>5, <3>2 DEF LastAbout
        <4>2. rows[k] = RowAfter(j)
          BY <2>0, <2>4, <4>1 DEF RowsRestored
        <4> QED  BY <2>3, <4>1, <4>2
      <3> QED  BY <3>1, <3>2
    <2>6. RowsRestored'
      <3>1. \A k, j : LastAbout(k, Done, j)' <=> LastAbout(k, i, j)
        BY <1>1, <2>4 DEF LastAbout
      <3> QED  BY <1>1, <2>4, <2>5, <3>1, SameEvents DEF RowsRestored
    <2>7. run'["tick"].upto = recon'.upto
      BY <1>1, <1>6, <2>0, <2>2, <2>3
    <2>8. TakenAgain'
      BY <1>6, <2>2, <2>3, <2>4 DEF TakenAgain
    <2> QED  BY <2>6, <2>7, <2>8 DEF Rebuilding
  <1> QED  BY <1>8, <1>9, <1>10
\* Resolving an event, and the end of a run.
LEMMA ResolveRows ==
    ASSUME RunsInv, Positions, OneRun, OwnerRows, Quiet, Rebuilding,
           NEW r \in Runners, RunResolve(r) \/ RunEnd(r), ~ RunFault
    PROVE  OwnerRows' /\ Quiet' /\ Rebuilding'
  <1>1. /\ RunTypes /\ UNCHANGED <<shape, log, src, rows, inbox, recon, replay, faults, silent>>
        /\ run[r].pc \in {"consume", "resolve"} /\ dead' \subseteq dead
    BY DEF RunsInv, RunResolve, RunEnd
  <1>2. PICK i \in Nat : i = run[r].i /\ i >= 1 /\ run[r].upto \in Nat
    <2>1. run[r].i \in Nat /\ run[r].upto \in Nat /\ run[r].i >= 1
      BY <1>1, RunAt
    <2> QED  BY <2>1
  <1>3. /\ \A q \in Runners \ {r} : run'[q] = run[q]
        /\ \/ /\ run[r].pc = "resolve" /\ run'[r].pc = "consume"
              /\ run'[r].i = i + 1 /\ run'[r].upto = run[r].upto
           \/ run[r].pc = "consume" /\ run'[r].pc = "idle" /\ i = run[r].upto + 1
    <2>1. PICK next \in RunStates :
              /\ RunTo(r, next)
              /\ \/ /\ run[r].pc = "resolve"
                    /\ next = [pc |-> "consume", upto |-> run[r].upto, i |-> i + 1]
                 \/ run[r].pc = "consume" /\ next = RunIdle /\ i > run[r].upto
      BY <1>1, <1>2, RunNext DEF RunResolve, RunEnd, RunNextEvent, RunStates
    <2>2. run'[r] = next /\ \A q \in Runners \ {r} : run'[q] = run[q]
      BY <1>1, <2>1, RunToStep
    <2>3. i <= run[r].upto + 1
      BY <1>1, <1>2, RunAt
    <2>4. CASE /\ run[r].pc = "resolve"
               /\ next = [pc |-> "consume", upto |-> run[r].upto, i |-> i + 1]
      BY <2>2, <2>4
    <2>5. CASE run[r].pc = "consume" /\ next = RunIdle /\ i > run[r].upto
      <3>1. i = run[r].upto + 1
        BY <1>2, <2>3, <2>5
      <3>2. RunIdle.pc = "idle"
        BY DEF RunIdle
      <3> QED  BY <2>2, <2>5, <3>1, <3>2
    <2> QED  BY <2>1, <2>4, <2>5
  <1>4. OwnerRows'
    BY <1>1, SameOwnerRows
  <1>5. Quiet'
    <2>1. SUFFICES ASSUME shape.width = 1, shape.faults = 0 PROVE Quiet'
      BY <1>1 DEF Quiet
    <2>2. Applied' = Applied
      <3>1. \A q \in Runners : (run'[q].pc = "apply" <=> run[q].pc = "apply")
                                /\ (run[q].pc = "apply" => run'[q].i = run[q].i)
        BY <1>3
      <3>2. inbox' = inbox
        BY <1>1
      <3> QED  BY <3>1, <3>2 DEF Applied
    <2>3. dead = {} /\ replay = {} /\ InOrder /\ (\A q \in Runners : RunInOrder(q)) /\ RowsFollow
      BY <2>1 DEF Quiet
    <2>4. ASSUME NEW q \in Runners PROVE RunInOrder(q)'
      <3>1. CASE q = r /\ run'[r].pc # "idle"
        <4>1. run'[r].pc = "consume" /\ run'[r].i - 1 = i /\ run[r].pc = "resolve"
          BY <1>2, <1>3, <3>1
        <4>2. 1..i \subseteq inbox
          BY <1>2, <2>3, <4>1 DEF RunInOrder, InOrder
        <4> QED  BY <1>1, <3>1, <4>1, <4>2 DEF RunInOrder
      <3>2. CASE q # r
        BY <1>1, <1>3, <2>3, <3>2 DEF RunInOrder
      <3>3. CASE q = r /\ run'[r].pc = "idle"
        BY <3>3 DEF RunInOrder
      <3> QED  BY <3>1, <3>2, <3>3
    <2>5. InOrder'
      BY <1>1, <2>3 DEF InOrder
    <2>6. RowsFollow'
      BY <1>1, <2>2, <2>3, SameRowsFollow
    <2> QED  BY <1>1, <2>3, <2>4, <2>5, <2>6 DEF Quiet
  <1>6. Rebuilding'
    <2>1. SUFFICES ASSUME shape.width = 1, recon.pc = "rebuilt", recon.since = faults PROVE Rebuilding'
      BY <1>1 DEF Rebuilding
    <2>2. r = "tick"
      BY <1>1, <2>1, OnlyRun
    <2>0. run["tick"].upto = recon.upto /\ TakenAgain /\ RowsRestored
      BY <1>1, <2>1, <2>2 DEF Rebuilding
    <2>3. Done' = Done /\ run'["tick"].pc # "apply"
      <3>1. recon'.upto = recon.upto /\ run[r].upto = recon.upto
        BY <1>1, <2>0, <2>2
      <3>2. CASE run[r].pc = "resolve" /\ run'[r].pc = "consume" /\ run'[r].i = i + 1
        <4>1. Done' = run'[r].i - 1 /\ Done = i
          BY <1>2, <2>2, <3>2 DEF Done
        <4> QED  BY <1>2, <2>2, <3>2, <4>1
      <3>3. CASE run[r].pc = "consume" /\ run'[r].pc = "idle" /\ i = run[r].upto + 1
        <4>1. Done' = recon.upto /\ Done = i - 1
          BY <1>2, <2>2, <3>1, <3>3 DEF Done
        <4> QED  BY <1>2, <2>2, <3>1, <3>3, <4>1
      <3> QED  BY <1>3, <3>2, <3>3
    <2>4. run'["tick"].pc # "idle" => run'["tick"].upto = recon'.upto
      BY <1>1, <1>3, <2>0, <2>2
    <2>5. TakenAgain'
      BY <1>1, <2>0, <2>2, <2>3 DEF TakenAgain
    <2>6. RowsRestored'
      BY <1>1, <2>0, <2>3, SameRowsRestored
    <2> QED  BY <2>4, <2>5, <2>6 DEF Rebuilding
  <1> QED  BY <1>4, <1>5, <1>6

\* After a fault it is neither quiet nor a rebuild without faults.
LEMMA FaultRows ==
    ASSUME Positions, OwnerRows, UNCHANGED <<shape, log, src, rows, silent>>, RunFault,
           recon' = recon \/ recon'.pc = "idle"
    PROVE  OwnerRows' /\ Quiet' /\ Rebuilding'
  <1>1. faults < shape.faults /\ faults' = faults + 1
    BY DEF RunFault
  <1>2. OwnerRows'
    BY SameOwnerRows
  <1>3. Quiet'
    BY <1>1 DEF Quiet, Positions
  <1>4. Rebuilding'
    BY <1>1, NoFaultSince DEF Rebuilding
  <1> QED  BY <1>2, <1>3, <1>4

\* A crash, a listing or a resolution that fails, a reconciler that gives up.
LEMMA CrashRows ==
    ASSUME Positions, OwnerRows,
           \/ ReconcileFails
           \/ \E r \in Runners : RunCrash(r) \/ (RunFault /\ (RunResolve(r) \/ RunEnd(r)))
    PROVE  OwnerRows' /\ Quiet' /\ Rebuilding'
  <1>1. /\ UNCHANGED <<shape, log, src, rows, silent>> /\ RunFault
        /\ (recon' = recon \/ recon'.pc = "idle")
    BY DEF ReconcileFails, RunCrash, RunResolve, RunEnd, ReconResting
  <1> QED  BY <1>1, FaultRows

\* Replaying dead letters: there are none without faults, and a rebuild goes on.
LEMMA ReplayRows ==
    ASSUME OwnerRows, Quiet, Rebuilding, ReplayList \/ ReplayReset
    PROVE  OwnerRows' /\ Quiet' /\ Rebuilding'
  <1>1. /\ UNCHANGED <<shape, log, src, rows, dead, run, recon, faults, silent>> /\ inbox' \subseteq inbox
        /\ dead # {} \/ replay # {}
    BY DEF ReplayList, ReplayReset
  <1>2. OwnerRows'
    BY <1>1, SameOwnerRows
  <1>3. Quiet'
    BY <1>1 DEF Quiet
  <1>4. Rebuilding'
    <2>1. Done' = Done
      BY <1>1 DEF Done
    <2>2. RowsRestored => RowsRestored'
      BY <1>1, <2>1, SameRowsRestored
    <2>3. TakenAgain => TakenAgain'
      BY <1>1, <2>1 DEF TakenAgain
    <2> QED  BY <1>1, <2>2, <2>3 DEF Rebuilding
  <1> QED  BY <1>2, <1>3, <1>4

\* Starting a run; a rebuild begins with nothing taken.
LEMMA StartRows ==
    ASSUME RunsInv, Positions, OneRun, OwnerRows, Quiet, Rebuilding,
           ReadStart \/ ReconcileStart \/ ReconcileDrift \/ ReconcileMeasure
    PROVE  OwnerRows' /\ Quiet' /\ Rebuilding'
  <1>1. UNCHANGED <<shape, log, src, rows, dead, replay, faults, silent>>
    BY StartMoves
  <1>2. OwnerRows'
    BY <1>1, SameOwnerRows
  <1>3. Quiet'
    <2>1. SUFFICES ASSUME shape.width = 1, shape.faults = 0 PROVE Quiet'
      BY <1>1 DEF Quiet
    <2>0. dead = {} /\ replay = {} /\ InOrder /\ (\A q \in Runners : RunInOrder(q)) /\ RowsFollow
      BY <2>1 DEF Quiet
    <2>2. \A r \in Runners : \/ run'[r] = run[r]
                             \/ run[r] = RunIdle /\ run'[r].pc = "consume" /\ run'[r].i = 1
      BY StartMoves
    <2>3. CASE inbox' = inbox
      <3>0. \A r \in Runners : run'[r] = run[r] \/ (run[r].pc # "apply" /\ run'[r].pc # "apply")
        BY <2>2 DEF RunIdle
      <3>1. Applied' = Applied
        BY <2>3, <3>0 DEF Applied
      <3>2. ASSUME NEW r \in Runners PROVE RunInOrder(r)'
        BY <2>0, <2>2, <2>3 DEF RunInOrder
      <3>3. InOrder'
        BY <2>0, <2>3 DEF InOrder
      <3>4. RowsFollow'
        BY <1>1, <2>0, <3>1, SameRowsFollow
      <3> QED  BY <1>1, <2>0, <3>2, <3>3, <3>4 DEF Quiet
    <2>4. CASE inbox' = {} /\ recon.pc = "synced" /\ recon'.pc = "rebuilt"
      <3>1. /\ run["read"].pc = "idle" /\ run'["read"] = run["read"]
            /\ run'["tick"].pc = "consume" /\ run'["tick"].i = 1
        <4>1. run'["tick"] = Started /\ run'["read"] = run["read"]
          BY <2>4, StartMoves
        <4>2. run["read"].pc = "idle"
          BY <2>1, <2>4 DEF OneRun
        <4> QED  BY <4>1, <4>2 DEF Started
      <3>2. RowsFollow' /\ InOrder'
        BY <2>4 DEF Applied, RowsFollow, InOrder
      <3>3. \A r \in Runners : RunInOrder(r)'
        BY <3>1 DEF Runners, RunInOrder
      <3> QED  BY <1>1, <2>0, <3>2, <3>3 DEF Quiet
    <2> QED  BY <2>3, <2>4, StartMoves
  <1>4. Rebuilding'
    <2>1. SUFFICES ASSUME shape.width = 1, recon'.pc = "rebuilt", recon'.since = faults PROVE Rebuilding'
      BY <1>1 DEF Rebuilding
    <2>2. CASE recon' = recon /\ run'["tick"] = run["tick"]
      <3>1. inbox' = inbox
        BY <2>1, <2>2, StartMoves
      <3>2. Done' = Done
        BY <2>2 DEF Done
      <3>3. (run["tick"].pc # "idle" => run["tick"].upto = recon.upto) /\ TakenAgain /\ RowsRestored
        BY <2>1, <2>2 DEF Rebuilding
      <3>4. TakenAgain'
        BY <2>2, <3>1, <3>2, <3>3 DEF TakenAgain
      <3>5. RowsRestored'
        BY <1>1, <3>2, <3>3, SameRowsRestored
      <3> QED  BY <2>2, <3>3, <3>4, <3>5 DEF Rebuilding
    <2>3. CASE inbox' = {} /\ recon'.upto = Len(log) /\ run'["tick"] = Started
      <3>1. Done' = 0 /\ run'["tick"].upto = Len(log) /\ run'["tick"].pc = "consume"
        BY <2>3 DEF Done, Started
      <3>2. TakenAgain'
        BY <2>3 DEF TakenAgain
      <3>3. RowsRestored'
        BY <3>1 DEF RowsRestored
      <3> QED  BY <2>3, <3>1, <3>2, <3>3 DEF Rebuilding
    <2> QED  BY <2>1, <2>2, <2>3, StartMoves
  <1> QED  BY <1>2, <1>3, <1>4

\* There are neither events nor rows.
LEMMA RowsInitInv == ProjectionInit => RowsInv
  <1> SUFFICES ASSUME ProjectionInit PROVE RowsInv
    OBVIOUS
  <1>1. \A r \in Runners : run[r].pc = "idle"
    BY DEF ProjectionInit, RunIdle
  <1>2. Positions /\ OneRun
    BY <1>1 DEF ProjectionInit, Positions, RunPlaced, OneRun, Runners, ReconResting
  <1>3. OwnerRows
    BY DEF ProjectionInit, OwnerRows, OwnerFollows, RowsOwed
  <1>4. Quiet /\ Rebuilding
    BY <1>1 DEF ProjectionInit, Quiet, InOrder, RunInOrder, RowsFollow, Rebuilding, Applied, ReconResting
  <1> QED  BY <1>2, <1>3, <1>4, RunsInitInv DEF RowsInv

\* Every step keeps the invariant of the rows.
LEMMA RowsNextInv == RowsInv /\ [ProjectionNext]_projectionVars => RowsInv'
  <1> SUFFICES ASSUME RowsInv, [ProjectionNext]_projectionVars PROVE RowsInv'
    OBVIOUS
  <1>1. RunsInv' /\ Positions' /\ OneRun'
    BY RunsNextInv, PositionsNext DEF RowsInv
  <1>2. shape' = shape
    BY DEF ProjectionNext, OwnerWrite, OwnerSilent, ReconcileFails, ReadStart, ProjectionRun, RunConsume, RunApply, RunResolve,
           RunEnd, RunCrash, ReplayList, ReplayReset, ProjectionTick, ReconcileStart, ReconcileDrift,
           ReconcileMeasure, projectionVars
  <1>3. ASSUME shape.res \notin Unfollowed PROVE OwnerRows' /\ Quiet' /\ Rebuilding'
    <2>1. RunsInv /\ Positions /\ OneRun /\ OwnerRows /\ Quiet /\ Rebuilding
      BY <1>3 DEF RowsInv
    <2>2. CASE UNCHANGED projectionVars
      <3>1. UNCHANGED <<shape, log, src, rows, inbox, dead, run, recon, replay, faults, silent>>
        BY <2>2 DEF projectionVars
      <3>2. OwnerRows'
        BY <2>1, <3>1, SameOwnerRows
      <3>3. RowsFollow => RowsFollow'
        BY <3>1, SameRowsFollow DEF Applied
      <3>4. Quiet'
        BY <2>1, <3>1, <3>3 DEF Quiet, InOrder, RunInOrder
      <3>5. Done' = Done
        BY <3>1 DEF Done
      <3>6. RowsRestored => RowsRestored'
        BY <3>1, <3>5, SameRowsRestored
      <3>7. Rebuilding'
        BY <2>1, <3>1, <3>5, <3>6 DEF Rebuilding, TakenAgain
      <3> QED  BY <3>2, <3>4, <3>7
    <2>3. CASE \E k \in Keys, o \in {"create", "update", "delete"} : OwnerWrite(k, o)
      BY <1>3, <2>1, <2>3, OwnerWriteRows
    <2>4. CASE \E r \in Runners : ProjectionRun(r) \/ RunCrash(r)
      BY <1>3, <2>1, <2>4, ConsumeRows, ApplyRows, ResolveRows, CrashRows DEF ProjectionRun
    <2>7. CASE \E k \in Keys, o \in {"create", "update", "delete"} : OwnerSilent(k, o)
      BY <2>1, <2>7, SilentRows
    <2>8. CASE ReconcileFails
      BY <2>1, <2>8, CrashRows
    <2>5. CASE ReadStart \/ ProjectionTick
      BY <2>1, <2>5, StartRows DEF ProjectionTick
    <2>6. CASE ReplayList \/ ReplayReset
      BY <2>1, <2>6, ReplayRows
    <2> QED  BY <2>2, <2>3, <2>4, <2>5, <2>6, <2>7, <2>8 DEF ProjectionNext
  <1> QED  BY <1>1, <1>2, <1>3 DEF RowsInv

\* The invariant of the rows holds throughout.
LEMMA RowsInvariance == ProjectionSpec => []RowsInv
  BY RowsInitInv, RowsNextInv, PTL DEF ProjectionSpec

INSTANCE WellFoundedInduction

\* Where there is an event about a row there is a last one: the least bound of
\* their numbers is one of them.
LEMMA LastExists ==
    ASSUME NEW k, NEW n \in Nat, NEW i \in 1..n, log[i].key = k
    PROVE  \E j \in 1..n : LastAbout(k, n, j)
  <1> DEFINE Bound(u) == \A m \in 1..n : log[m].key = k => m <= u
             U == {u \in Nat : Bound(u)}
  <1>1. U \subseteq Nat /\ n \in U
    OBVIOUS
  <1>2. PICK u \in U : \A v \in U : <<v, u>> \notin OpToRel(<, Nat)
    <2>1. U # {}
      BY <1>1
    <2> HIDE DEF U
    <2> QED  BY <1>1, <2>1, WFMin, NatLessThanWellFounded
  <1>3. u \in Nat /\ u >= i /\ Bound(u)
    BY <1>2
  <1>4. u <= n /\ ~ Bound(u - 1)
    <2>1. \A v \in Nat : <<v, u>> \in OpToRel(<, Nat) <=> v < u
      BY <1>3 DEF OpToRel
    <2>2. \A v \in Nat : v < u => ~ Bound(v)
      BY <1>2, <2>1
    <2>3. Bound(n) /\ u - 1 \in Nat /\ u - 1 < u
      BY <1>3
    <2> HIDE DEF Bound
    <2> QED  BY <1>3, <2>2, <2>3
  <1>5. u \in 1..n /\ log[u].key = k
    BY <1>3, <1>4
  <1> QED  BY <1>3, <1>5 DEF LastAbout

\* Every read handler syncs before it reads: with one run at a time and no
\* failed call the read model has every change the owner made before the read
\* began, but those without an event, for every read model that follows its
\* owner and any rows.
THEOREM ReadsAreCurrent == ProjectionSpec => []ReadsCurrent
  <1>1. ASSUME RowsInv PROVE ReadsCurrent
    <2>1. SUFFICES ASSUME shape.width = 1, shape.faults = 0, shape.res \notin Unfollowed,
                          run["read"].pc = "consume", run["read"].i > run["read"].upto,
                          run["read"].upto = Len(log)
                   PROVE  ReadModelCurrent
      BY DEF ReadsCurrent
    <2>2. RunTypes /\ RunsInv /\ Positions /\ OneRun /\ OwnerRows /\ Quiet
      BY <1>1, <2>1 DEF RowsInv, RunsInv
    <2>3. Len(log) \in Nat /\ inbox = 1..Len(log)
      <3>1. Len(log) \in Nat /\ "read" \in Runners
        BY <2>2, LogTyped DEF Runners
      <3>2. run["read"].i = Len(log) + 1
        BY <2>1, <2>2, <3>1, RunAt
      <3>3. 1..(run["read"].i - 1) \subseteq inbox
        BY <2>1, <2>2, <3>1 DEF Quiet, RunInOrder
      <3>4. run["read"].i - 1 = Len(log) /\ inbox \subseteq 1..Len(log)
        BY <2>2, <3>1, <3>2 DEF Positions
      <3> QED  BY <3>1, <3>3, <3>4
    <2>4. Applied = inbox
      BY <2>1, <2>2, OnlyRun DEF Applied, Runners
    <2>5. ASSUME NEW k \in Keys \ silent, NEW j \in 1..Len(log), LastAbout(k, Len(log), j)
          PROVE  rows[k] = RowAfter(j) /\ (src[k] = RowAfter(j) \/ (shape.res = "users" /\ src[k] = 0))
      <3>1. j \in Applied /\ log[j].key = k /\ \A m \in Applied : m > j => log[m].key # log[j].key
        BY <2>3, <2>4, <2>5 DEF LastAbout
      <3>2. rows[k] = RowAfter(j)
        BY <2>1, <2>2, <3>1 DEF Quiet, RowsFollow
      <3>3. src[k] = RowAfter(j) \/ (shape.res = "users" /\ src[k] = 0)
        BY <2>2, <2>5 DEF OwnerRows, OwnerFollows
      <3> QED  BY <3>2, <3>3
    <2>6. ASSUME NEW k \in Keys \ silent
          PROVE  rows[k] = src[k] \/ (shape.res = "users" /\ src[k] = 0)
      <3>1. CASE \E i \in 1..Len(log) : log[i].key = k
        <4>1. PICK j \in 1..Len(log) : LastAbout(k, Len(log), j)
          BY <2>2, <2>3, <3>1, LastExists
        <4> QED  BY <2>5, <4>1
      <3>2. CASE ~ \E i \in 1..Len(log) : log[i].key = k
        BY <2>2, <3>2 DEF OwnerRows, RowsOwed
      <3> QED  BY <3>1, <3>2
    <2> QED  BY <2>6 DEF ReadModelCurrent
  <1> QED  BY <1>1, RowsInvariance, PTL

\* RegisterProjectionReconciler, "replays the event stream to rebuild it":
\* after a rebuild during which no call failed and the owner published nothing,
\* the read model equals the owner's rows, whatever was lost before and
\* whatever a replay reset meanwhile, but for rows last changed in silence.
THEOREM RebuildsRestore == ProjectionSpec => []RebuildRestores
  <1>1. ASSUME RowsInv PROVE RebuildRestores
    <2>1. SUFFICES ASSUME Undisturbed, ExactRows, shape.res \notin Unfollowed
                   PROVE  \A k \in Keys \ silent : rows[k] = src[k]
      BY DEF RebuildRestores
    <2>2. RunTypes /\ OwnerRows /\ Rebuilding /\ shape.res # "users"
      BY <1>1, <2>1 DEF RowsInv, RunsInv, ExactRows, ExactResources
    <2>3. /\ shape.width = 1 /\ recon.pc = "rebuilt" /\ recon.since = faults /\ Done = Len(log)
          /\ Len(log) \in Nat
      BY <2>1, <2>2, LogTyped DEF Undisturbed, Done, RunIdle
    <2>4. ASSUME NEW k \in Keys \ silent PROVE rows[k] = src[k]
      <3>1. CASE \E i \in 1..Len(log) : log[i].key = k
        <4>1. PICK j \in 1..Len(log) : LastAbout(k, Len(log), j)
          BY <2>2, <2>3, <3>1, LastExists
        <4>2. rows[k] = RowAfter(j)
          BY <2>2, <2>3, <4>1 DEF Rebuilding, RowsRestored
        <4>3. src[k] = RowAfter(j)
          BY <2>2, <4>1 DEF OwnerRows, OwnerFollows
        <4> QED  BY <4>2, <4>3
      <3>2. CASE ~ \E i \in 1..Len(log) : log[i].key = k
        BY <2>2, <3>2 DEF OwnerRows, RowsOwed
      <3> QED  BY <3>1, <3>2
    <2> QED  BY <2>4
  <1> QED  BY <1>1, RowsInvariance, PTL
=============================================================================
