----------------------------- MODULE ReadModels -----------------------------
(***************************************************************************)
(* What the read models make of the events their owners publish.           *)
(*                                                                         *)
(* An event carries its name and the action of its payload.  Where the     *)
(* payload nests the changed record under "new", a consumer unwraps it and *)
(* no longer sees the action beside it.  The projection of a consumer is a *)
(* set with at most one effect: the resource it mirrors, and whether the   *)
(* row is removed or written.                                              *)
(***************************************************************************)
EXTENDS Naturals

PlainEvent(name) == [name |-> name, action |-> "", nested |-> FALSE]
FlatEvent(name, action) == [name |-> name, action |-> action, nested |-> FALSE]
NestedEvent(name, action) == [name |-> name, action |-> action, nested |-> TRUE]

---------------------------------------------------------------------------
(* The events of the owners, by resource and kind of change.               *)

UserEvents == [create |-> PlainEvent("UserCreated"), update |-> PlainEvent("UserUpdated"),
               delete |-> PlainEvent("UserDisabled")]

ProjectEvents == [create |-> PlainEvent("ProjectCreated"), update |-> NestedEvent("ProjectUpdated", ""),
                  delete |-> PlainEvent("ProjectDeleted")]

MemberEvents == [create |-> PlainEvent("project_memberCreated"),
                 update |-> NestedEvent("project_memberUpdated", ""),
                 delete |-> PlainEvent("project_memberDeleted")]

GroupEvents == [create |-> FlatEvent("GroupMembershipChanged", "create"),
                update |-> NestedEvent("GroupMembershipChanged", ""),
                delete |-> FlatEvent("GroupMembershipChanged", "delete")]

PolicyRoleEvents == [create |-> FlatEvent("ProxyPolicyChanged", "role_create"),
                     update |-> FlatEvent("ProxyPolicyChanged", "role_update"),
                     delete |-> FlatEvent("ProxyPolicyChanged", "role_delete")]

AssignmentEvents == [create |-> FlatEvent("ProxyPolicyChanged", "role_user_assign"),
                     delete |-> FlatEvent("ProxyPolicyChanged", "role_user_unassign")]

PlanEvents == [create |-> NestedEvent("PlanChanged", "created"),
               update |-> NestedEvent("PlanChanged", "updated"),
               delete |-> NestedEvent("PlanChanged", "deleted")]

QueueEvents == [create |-> NestedEvent("QueueChanged", "created"),
                update |-> NestedEvent("QueueChanged", "updated"),
                delete |-> NestedEvent("QueueChanged", "deleted")]

FormEvents == [create |-> PlainEvent("FormCreated"), update |-> PlainEvent("FormUpdated")]

ImageRuleEvents == [create |-> PlainEvent("ImagePublished"), update |-> PlainEvent("ImagePublished"),
                    delete |-> PlainEvent("ImageUnpublished")]

JobEvents == [create |-> FlatEvent("JobSubmitted", "submitted"),
              update |-> FlatEvent("JobCancelRequested", "cancel")]

OwnerEvents ==
    [users |-> UserEvents, projects |-> ProjectEvents, members |-> MemberEvents,
     groups |-> GroupEvents, policyRoles |-> PolicyRoleEvents,
     assignments |-> AssignmentEvents, plans |-> PlanEvents, queues |-> QueueEvents,
     forms |-> FormEvents, imageRules |-> ImageRuleEvents, jobs |-> JobEvents]

\* The changes of a row that publish no event of it: settings, status and the
\* directory's restore of a user; members of a deleted project and of a deleted
\* group; the seeded roles, and the assignments of a deleted one; the plans of a
\* deleted queue; the statuses of a job; and the rule an approved request
\* writes (its event is of the request, under the request's id) or a deleted
\* tag takes along.
SilentChanges ==
    [users |-> {"update"}, projects |-> {}, members |-> {"delete"}, groups |-> {"delete"},
     policyRoles |-> {"create"}, assignments |-> {"delete"}, plans |-> {"update"}, queues |-> {},
     forms |-> {}, imageRules |-> {"create", "update", "delete"}, jobs |-> {"update"}]

\* The payload of these is the whole row, so a drift check can find the read
\* model equal to it; the others add or leave out fields.
ExactResources == {"projects", "members", "plans", "queues", "forms", "imageRules"}

---------------------------------------------------------------------------
(* The consumers.                                                          *)

UpsertRow(res) == {[res |-> res, removes |-> FALSE]}
RemoveRow(res) == {[res |-> res, removes |-> TRUE]}
WritesRow(e, names, res) == IF e.name \in names THEN UpsertRow(res) ELSE {}
RemovesRow(e, name, res) == IF e.name = name THEN RemoveRow(res) ELSE {}

\* The action a consumer sees, after it has unwrapped the payload.
SeenAction(e) == IF e.nested THEN "" ELSE e.action

OnUsers(e) == WritesRow(e, {"UserCreated", "UserUpdated", "UserDisabled"}, "users")
                    \cup RemovesRow(e, "UserDeleted", "users")
OnIdentityRoles(e) == WritesRow(e, {"RoleCreated", "RoleUpdated"}, "identityRoles")
                            \cup RemovesRow(e, "RoleDeleted", "identityRoles")
OnProjects(e) == WritesRow(e, {"ProjectCreated", "ProjectUpdated"}, "projects")
                       \cup RemovesRow(e, "ProjectDeleted", "projects")
OnMembers(e) == WritesRow(e, {"project_memberCreated", "project_memberUpdated"}, "members")
                      \cup RemovesRow(e, "project_memberDeleted", "members")
OnGroups(e, deletions) ==
    IF e.name # "GroupMembershipChanged" THEN {}
    ELSE IF SeenAction(e) \in deletions THEN RemoveRow("groups") ELSE UpsertRow("groups")
OnPolicyRoles(e) ==
    IF e.name # "ProxyPolicyChanged" THEN {}
    ELSE IF SeenAction(e) \in {"role_create", "role_update"} THEN UpsertRow("policyRoles")
    ELSE IF SeenAction(e) = "role_delete" THEN RemoveRow("policyRoles") ELSE {}

GpuProjection(e) ==
    OnUsers(e) \cup OnIdentityRoles(e) \cup OnProjects(e) \cup OnPolicyRoles(e)
    \cup WritesRow(e, {"JobSubmitted", "JobQueued", "JobRunning", "JobSucceeded", "JobFailed",
                    "JobCancelled"}, "jobs")

ClusterProjection(e) ==
    OnUsers(e) \cup OnIdentityRoles(e) \cup OnProjects(e) \cup OnMembers(e)
    \cup OnGroups(e, {"delete", "deleted"}) \cup OnPolicyRoles(e)
    \cup (IF e.name # "ProxyPolicyChanged" THEN {}
          ELSE IF SeenAction(e) = "role_user_assign" THEN UpsertRow("assignments")
          ELSE IF SeenAction(e) = "role_user_unassign" THEN RemoveRow("assignments") ELSE {})

AuditMemberProjection(e) == OnMembers(e)

AuditGroupProjection(e) == OnGroups(e, {"delete"})

\* As if a removed project were written again, with what the event carries.
ImageProjectionKeepsProjects(e) ==
    OnUsers(e) \cup OnIdentityRoles(e) \cup OnMembers(e) \cup OnGroups(e, {"delete", "deleted"})
    \cup WritesRow(e, {"ProjectCreated", "ProjectUpdated", "ProjectDeleted"}, "projects")

ImageProjection(e) ==
    OnUsers(e) \cup OnIdentityRoles(e) \cup OnProjects(e) \cup OnMembers(e)
    \cup OnGroups(e, {"delete", "deleted"})

PolicyIdentityProjection(e) == OnUsers(e) \cup OnIdentityRoles(e)

\* Plans: a payload without a field of the running plan is left alone; the
\* unwrapped record of a deleted plan has none.
PolicyDataProjection(e) ==
    OnProjects(e)
    \cup (IF e.name # "PlanChanged" THEN {}
          ELSE IF SeenAction(e) = "deleted" THEN RemoveRow("plans")
          ELSE IF e.action \in {"deleted", "bound_project"} THEN {}
          ELSE UpsertRow("plans"))
    \cup WritesRow(e, {"ImageApproved", "ImagePublished"}, "imageRules")
    \cup RemovesRow(e, "ImageUnpublished", "imageRules")
    \cup RemovesRow(e, "ProjectImageRemoved", "imageRules")

ProxyAdminProjection(e) == OnUsers(e) \cup OnIdentityRoles(e)

ProjectAccessProjection(e) == OnProjects(e) \cup OnMembers(e) \cup OnGroups(e, {"delete", "deleted"})

OrgIdentityProjection(e) == OnUsers(e) \cup OnIdentityRoles(e)

DashboardProjection(e) ==
    OnUsers(e) \cup OnProjects(e) \cup OnMembers(e)
    \cup WritesRow(e, {"FormCreated", "FormUpdated"}, "forms")
    \cup RemovesRow(e, "FormDeleted", "forms")
    \cup WritesRow(e, {"live_quotaCreated", "live_quotaUpdated"}, "liveQuotas")
    \cup RemovesRow(e, "live_quotaDeleted", "liveQuotas")
    \cup WritesRow(e, {"QueueCreated", "QueueUpdated"}, "queues")
    \cup RemovesRow(e, "QueueDeleted", "queues")

IdeProjection(e) ==
    OnUsers(e) \cup OnIdentityRoles(e) \cup OnProjects(e) \cup OnMembers(e)
    \cup OnGroups(e, {"delete", "deleted"}) \cup OnPolicyRoles(e)

\* The names, of any consumer.
Projection(consumer, e) ==
    CASE consumer = "gpu" -> GpuProjection(e)
      [] consumer = "cluster" -> ClusterProjection(e)
      [] consumer = "auditMember" -> AuditMemberProjection(e)
      [] consumer = "auditGroup" -> AuditGroupProjection(e)
      [] consumer = "image" -> ImageProjection(e)
      [] consumer = "policyIdentity" -> PolicyIdentityProjection(e)
      [] consumer = "policyData" -> PolicyDataProjection(e)
      [] consumer = "proxyAdmin" -> ProxyAdminProjection(e)
      [] consumer = "projectAccess" -> ProjectAccessProjection(e)
      [] consumer = "org" -> OrgIdentityProjection(e)
      [] consumer = "dashboard" -> DashboardProjection(e)
      [] consumer = "ide" -> IdeProjection(e)

---------------------------------------------------------------------------
(* The owner resources each drift check compares; the consumers without    *)
(* one have no reconciler.                                                 *)

GpuDrift == {"users", "identityRoles", "policyRoles", "projects", "jobs"}
ClusterDrift == {"users", "identityRoles", "policyRoles", "projects", "members", "groups"}
ImageDrift == {"users", "identityRoles", "projects", "members", "groups"}
PolicyDrift == {"users", "identityRoles", "projects", "plans", "imageRules"}
ProjectAccessDrift == {"projects", "members", "groups"}
DashboardDrift == {"users", "projects", "members", "forms", "liveQuotas", "queues"}
IdeDrift == {"users", "identityRoles", "policyRoles", "projects", "members", "groups"}

Reconciled ==
    [gpu |-> GpuDrift, cluster |-> ClusterDrift, image |-> ImageDrift,
     policyIdentity |-> PolicyDrift \cap {"users", "identityRoles"},
     policyData |-> PolicyDrift \ {"users", "identityRoles"}, projectAccess |-> ProjectAccessDrift,
     dashboard |-> DashboardDrift, ide |-> IdeDrift]

Unreconciled ==
    [cluster |-> {"assignments"}, auditMember |-> {"members"}, auditGroup |-> {"groups"},
     proxyAdmin |-> {"users"}, org |-> {"users"}]

=============================================================================
