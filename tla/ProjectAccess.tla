---- MODULE ProjectAccess ----
(***************************************************************************)
(* Who may use a project: the same question, answered by ten services.     *)
(*                                                                         *)
(* Each service keeps its own copies of the project, member and membership *)
(* rows and has its own resolution of a user's role.  The copies are taken *)
(* to be current here (how they are kept current is the subject of         *)
(* Projection), so that what is compared is the resolution itself.  A user *)
(* stands for a caller without the admin panel.                            *)
(***************************************************************************)
EXTENDS Organisation

IsPersonal(u) == project # NoProject /\ project.personal = u

InOwnerGroup(u) == project # NoProject /\ isGroupMember(u, project.owner)

(***************************************************************************)
(* Services that resolve a role.                                           *)
(***************************************************************************)

imageProjectRole(u) ==
    IF IsPersonal(u) THEN "admin"
    ELSE IF InOwnerGroup(u) THEN groupRole[project.owner][u]
    ELSE directRole[u]

\* The direct row is looked at before the owning group.
DirectFirst(u) ==
    IF IsPersonal(u) THEN "admin"
    ELSE IF directRole[u] # "" THEN directRole[u]
    ELSE IF project # NoProject THEN groupRole[project.owner][u] ELSE ""

storageProjectRole(u) ==
    IF IsPersonal(u) THEN "admin"
    ELSE IF project # NoProject /\ groupRole[project.owner][u] # "" THEN groupRole[project.owner][u]
    ELSE directRole[u]

imageRequireProjectRead(u) == project # NoProject /\ canReadProject(imageProjectRole(u))

storageRequireProjectRead(u) == project # NoProject /\ canReadProject(storageProjectRole(u))

imageRequireProjectManager(u) == project # NoProject /\ canManageProject(imageProjectRole(u))

storageRequireProjectManager(u) == project # NoProject /\ canManageProject(storageProjectRole(u))

(***************************************************************************)
(* Services that only ask whether the user belongs to the project.         *)
(***************************************************************************)

\* The workspace service does not ask whether the project of a member row exists.
ideCanAccessProject(u) == IsPersonal(u) \/ InOwnerGroup(u) \/ directRole[u] # ""

\* Neither does the cluster view, which also shows what is below a project of the user or of the
\* user's groups.
clusterVisibleProject(u) ==
    \/ IsPersonal(u) \/ InOwnerGroup(u) \/ directRole[u] # ""
    \/ project # NoProject /\ u \in project.above

requireAdmissionProjectAccess(u) ==
    /\ project # NoProject
    /\ IsPersonal(u) \/ directRole[u] # "" \/ InOwnerGroup(u)

canCreateProjectForm(u) ==
    /\ project # NoProject
    /\ IsPersonal(u) \/ directRole[u] # "" \/ InOwnerGroup(u)

(***************************************************************************)
(* Services that look at direct member rows only.                          *)
(***************************************************************************)

workloadProjectAccess(u) == project # NoProject /\ directRole[u] # ""

\* The list of a user's jobs is filtered by member rows alone.
authorizedWorkloadProject(u) == directRole[u] # ""

auditCanReadProject(u) == directRole[u] # ""

canQueryProjectAuditLogs(u) == directRole[u] = "admin"

ideProjectRoleCanViewAll(u) == canManageProject(directRole[u])

dashboardProject(u) == project # NoProject /\ (directRole[u] # "" \/ IsPersonal(u))

(***************************************************************************)
(* Agreement.                                                              *)
(***************************************************************************)

\* For a project that exists: the image and the storage service give a user the role the owner of
\* the data gives, whatever rows the user has in the group and in the project; the workspace,
\* admission and form services let in exactly the users that role lets read, and the cluster view
\* lets in these and the users of a project above; and the members page lists every user the role
\* lets read, except the personal user, with that role.  The services that look at member rows only
\* let in nobody else.
RolesAgree ==
    project # NoProject =>
        \A u \in OrgUsers :
            LET role == projectRoleForUser(u)
                reads == requireProjectRead(u)
            IN /\ imageProjectRole(u) = role /\ storageProjectRole(u) = role
               /\ imageRequireProjectRead(u) = reads /\ storageRequireProjectRead(u) = reads
               /\ imageRequireProjectManager(u) = canManageProject(role)
               /\ storageRequireProjectManager(u) = canManageProject(role)
               /\ ideCanAccessProject(u) = reads
               /\ clusterVisibleProject(u) = (reads \/ u \in project.above)
               /\ requireAdmissionProjectAccess(u) = reads /\ canCreateProjectForm(u) = reads
               /\ u = project.personal \/ mergedProjectMembers[u] = role
               /\ (\/ workloadProjectAccess(u) \/ authorizedWorkloadProject(u) \/ dashboardProject(u)
                   \/ auditCanReadProject(u) \/ canQueryProjectAuditLogs(u) \/ ideProjectRoleCanViewAll(u))
                  => reads

====
