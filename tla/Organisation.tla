---- MODULE Organisation ----
(***************************************************************************)
(* Groups, projects, members, quotas and GPU claims of the organisation    *)
(* service.                                                                *)
(*                                                                         *)
(* One project identifier is followed, and the groups that may own it.     *)
(* Every handler reads first (does the project exist, may the caller do    *)
(* this, is there a row already) and writes in a transaction afterwards;   *)
(* the tables carry no foreign keys, so between the two steps the project  *)
(* or the group may go.  A request is in orgreq between its two steps.     *)
(* Root is a caller with the admin panel, a user any other caller.  The    *)
(* values of quotas and claims are left out: only the rows matter here.    *)
(***************************************************************************)
EXTENDS FiniteSets

CONSTANTS
    OrgUsers,    \* the users, all of them visible
    OrgGroups,   \* the identifiers groups may have
    OrgCallers,  \* the requests that may be served at once
    Root,        \* the caller with the admin panel
    NoUser,      \* no personal user, no target user
    NoProject    \* there is no project row

ASSUME OrganisationAssumption ==
    /\ Root \notin OrgUsers
    /\ NoProject \notin [owner : OrgGroups, personal : OrgUsers \cup {NoUser}, bound : BOOLEAN,
                         above : SUBSET OrgUsers]

VARIABLES
    groupRows,   \* the groups that exist
    groupRole,   \* membership rows: [group, user] -> role, "" if there is none
    project,     \* the project row: its owner group, personal user and plan, and the users to whom
                 \* a project its path names belongs, by themselves or through their groups
    directRole,  \* project member rows: user -> role, "" if there is none
    quotaRows,   \* users with a quota row of the project
    claimRows,   \* users with a GPU claim of the project
    orgreq,      \* the requests between their check and their write
    raced        \* history: has a delete been served together with another request, or missed rows
                 \* because it could not list them?

orgVars == <<groupRows, groupRole, project, directRole, quotaRows, claimRows, orgreq, raced>>

Roles == {"admin", "manager", "user"}

RowsOf == {"member", "quota", "claim"}

OrgAsk(kind, u, role, g) == [kind |-> kind, user |-> u, role |-> role, group |-> g, seen |-> {}]

OrgIdle == OrgAsk("idle", NoUser, "", NoUser)

OrganisationInit ==
    /\ groupRows = OrgGroups
    /\ groupRole = [g \in OrgGroups |-> [u \in OrgUsers |-> ""]]
    /\ project = NoProject
    /\ directRole = [u \in OrgUsers |-> ""]
    /\ quotaRows = {} /\ claimRows = {}
    /\ orgreq = [c \in OrgCallers |-> OrgIdle]
    /\ raced = FALSE

(***************************************************************************)
(* The role of a user in the project.                                      *)
(***************************************************************************)

isGroupMember(u, g) == groupRole[g][u] # ""

isGroupAdmin(a, g) == a = Root \/ (a \in OrgUsers /\ groupRole[g][a] = "admin")

\* The admin panel and the personal user come first, then the owning group, then the direct row.
projectRoleForUser(a) ==
    IF a = Root \/ a = project.personal THEN "admin"
    ELSE IF isGroupMember(a, project.owner) THEN groupRole[project.owner][a]
    ELSE directRole[a]

canReadProject(role) == role \in Roles

canManageProject(role) == role \in {"admin", "manager"}

requireProjectRead(a) == project # NoProject /\ canReadProject(projectRoleForUser(a))

requireProjectAdmin(a) == project # NoProject /\ projectRoleForUser(a) = "admin"

\* The members page: the owning group's members, then the direct members not yet listed.
mergedProjectMembers ==
    [u \in OrgUsers |-> IF isGroupMember(u, project.owner) THEN groupRole[project.owner][u]
                                                           ELSE directRole[u]]

(***************************************************************************)
(* The checks.                                                             *)
(***************************************************************************)

OrgDeletes == {"deleteProject", "deleteGroup"}

\* The rows of the project that a delete takes along.
ProjectRows ==
    {<<"member", u>> : u \in {v \in OrgUsers : directRole[v] # ""}}
    \cup ({"quota"} \X quotaRows) \cup ({"claim"} \X claimRows)

\* The request r of caller c has passed its checks.
OrgChecked(c, r) ==
    /\ orgreq[c] = OrgIdle
    /\ orgreq' = [orgreq EXCEPT ![c] = r]
    /\ raced' = \/ raced
                \/ \E d \in OrgCallers \ {c} : /\ orgreq[d] # OrgIdle
                                               /\ {r.kind, orgreq[d].kind} \cap OrgDeletes # {}
                \/ r.kind = "deleteProject" /\ r.seen # ProjectRows
    /\ UNCHANGED <<groupRows, groupRole, project, directRole, quotaRows, claimRows>>

\* createGroup: the admin panel, and no group of that name.
createGroup(c, g) ==
    /\ g \notin groupRows
    /\ OrgChecked(c, OrgAsk("createGroup", NoUser, "", g))

\* deleteGroup: the group must exist.
deleteGroup(c, g) ==
    /\ g \in groupRows
    /\ OrgChecked(c, OrgAsk("deleteGroup", NoUser, "", g))

\* validateMembershipRequest: only the admin panel makes admins; the caller administers the group.
validateMembershipRequest(a, g, role) ==
    /\ role = "admin" => a = Root
    /\ isGroupAdmin(a, g)
    /\ g \in groupRows

\* createMembership: a row that exists is updated if the caller asked for an upsert, refused if not.
createMembership(c, a, g, u, role, upsert) ==
    /\ validateMembershipRequest(a, g, role)
    /\ isGroupMember(u, g) => upsert
    /\ OrgChecked(c, OrgAsk(IF isGroupMember(u, g) THEN "setRole" ELSE "join", u, role, g))

removeUserFromGroup(c, a, g, u) ==
    /\ isGroupAdmin(a, g) /\ isGroupMember(u, g)
    /\ OrgChecked(c, OrgAsk("leave", u, "", g))

createProject(c, g, u) ==
    /\ g \in groupRows
    /\ OrgChecked(c, OrgAsk("createProject", u, "", g))

\* updateProject: names an owner group, which must exist, or a personal user, who is not looked up.
updateProject(c, kind, g, u) ==
    /\ project # NoProject
    /\ kind = "updateOwner" => g \in groupRows
    /\ OrgChecked(c, OrgAsk(kind, u, "", g))

\* deleteProject: the rows to delete are listed outside the transaction, before it deletes; a list
\* that fails is empty or cut short.
deleteProject(c) ==
    /\ project # NoProject
    /\ \E seen \in SUBSET ProjectRows :
          OrgChecked(c, [OrgAsk("deleteProject", NoUser, "", NoUser) EXCEPT !.seen = seen])

\* A direct member may not be a member of the owning group as well.
createDirectProjectMember(c, a, u, role) ==
    /\ requireProjectAdmin(a) /\ ~isGroupMember(u, project.owner)
    /\ OrgChecked(c, OrgAsk("addMember", u, role, NoUser))

updateDirectProjectMemberRole(c, a, u, role) ==
    /\ requireProjectAdmin(a) /\ ~isGroupMember(u, project.owner) /\ directRole[u] # ""
    /\ OrgChecked(c, OrgAsk("setMember", u, role, NoUser))

deleteDirectProjectMember(c, a, u) ==
    /\ requireProjectAdmin(a) /\ ~isGroupMember(u, project.owner) /\ directRole[u] # ""
    /\ OrgChecked(c, OrgAsk("removeMember", u, "", NoUser))

\* A quota may be set for any user, member or not.
upsertProjectMemberQuota(c, a, u) == requireProjectAdmin(a) /\ OrgChecked(c, OrgAsk("setQuota", u, "", NoUser))

deleteProjectMemberQuota(c, a, u) == requireProjectAdmin(a) /\ OrgChecked(c, OrgAsk("dropQuota", u, "", NoUser))

createGPUClaim(c, u) == requireProjectRead(u) /\ OrgChecked(c, OrgAsk("claim", u, "", NoUser))

deleteGPUClaim(c, a, u) ==
    /\ requireProjectRead(a) /\ u \in claimRows
    /\ a = u \/ canManageProject(projectRoleForUser(a))
    /\ OrgChecked(c, OrgAsk("unclaim", u, "", NoUser))

(***************************************************************************)
(* The writes.  A create finds a row of that key or makes one, an update   *)
(* or a delete of a row that is gone fails; none looks at the project or   *)
(* the group again.                                                        *)
(***************************************************************************)

OrgAnswered(c, kinds) ==
    /\ orgreq[c].kind \in kinds
    /\ orgreq' = [orgreq EXCEPT ![c] = OrgIdle]
    /\ UNCHANGED raced

CreateGroupWithEvent(c) ==
    /\ OrgAnswered(c, {"createGroup"})
    /\ groupRows' = groupRows \cup {orgreq[c].group}
    /\ UNCHANGED <<groupRole, project, directRole, quotaRows, claimRows>>

\* The memberships go with the group; a project the group owned keeps its owner.
DeleteGroupCascadeTx(c) ==
    /\ OrgAnswered(c, {"deleteGroup"})
    /\ IF orgreq[c].group \in groupRows
       THEN /\ groupRows' = groupRows \ {orgreq[c].group}
            /\ groupRole' = [groupRole EXCEPT ![orgreq[c].group] = [u \in OrgUsers |-> ""]]
       ELSE UNCHANGED <<groupRows, groupRole>>
    /\ UNCHANGED <<project, directRole, quotaRows, claimRows>>

\* The memberships could not be listed: the group goes without them.
DeleteGroupUnlisted(c) ==
    /\ orgreq[c].kind = "deleteGroup"
    /\ orgreq' = [orgreq EXCEPT ![c] = OrgIdle]
    /\ groupRows' = groupRows \ {orgreq[c].group}
    /\ raced' = TRUE
    /\ UNCHANGED <<groupRole, project, directRole, quotaRows, claimRows>>

MembershipTx(c) ==
    /\ OrgAnswered(c, {"join", "setRole", "leave"})
    /\ LET r == orgreq[c]
           writes == isGroupMember(r.user, r.group) <=> r.kind # "join"
       IN groupRole' = IF writes THEN [groupRole EXCEPT ![r.group][r.user] = r.role] ELSE groupRole
    /\ UNCHANGED <<groupRows, project, directRole, quotaRows, claimRows>>

\* Creating needs that there is no row, updating that there is one.
ProjectWithEvent(c) ==
    /\ OrgAnswered(c, {"createProject", "updateOwner", "updatePersonal"})
    /\ LET r == orgreq[c]
       IN project' = IF ~(project = NoProject <=> r.kind = "createProject") THEN project
                     ELSE CASE r.kind = "updateOwner" -> [project EXCEPT !.owner = r.group]
                            [] r.kind = "updatePersonal" -> [project EXCEPT !.personal = r.user]
                            [] OTHER -> [owner |-> r.group, personal |-> r.user, bound |-> FALSE, above |-> {}]
    /\ UNCHANGED <<groupRows, groupRole, directRole, quotaRows, claimRows>>

\* The claims are left behind.
CascadeKeepsClaims(c) ==
    /\ OrgAnswered(c, {"deleteProject"})
    /\ project' = NoProject
    /\ directRole' = [u \in OrgUsers |-> IF <<"member", u>> \in orgreq[c].seen THEN "" ELSE directRole[u]]
    /\ quotaRows' = quotaRows \ {u \in OrgUsers : <<"quota", u>> \in orgreq[c].seen}
    /\ UNCHANGED <<groupRows, groupRole, claimRows>>

\* The project, and the member rows, quotas and claims that were listed, in one transaction.
DeleteProjectCascadeTx(c) ==
    /\ OrgAnswered(c, {"deleteProject"})
    /\ LET gone(kind) == {u \in OrgUsers : project # NoProject /\ <<kind, u>> \in orgreq[c].seen}
       IN /\ directRole' = [u \in OrgUsers |-> IF u \in gone("member") THEN "" ELSE directRole[u]]
          /\ quotaRows' = quotaRows \ gone("quota")
          /\ claimRows' = claimRows \ gone("claim")
    /\ project' = NoProject
    /\ UNCHANGED <<groupRows, groupRole>>

\* Removing a member removes the member's quota in the same transaction.
DirectProjectMemberTx(c) ==
    /\ OrgAnswered(c, {"addMember", "setMember", "removeMember"})
    /\ LET r == orgreq[c]
           writes == (directRole[r.user] = "") <=> r.kind = "addMember"
       IN /\ directRole' = IF writes THEN [directRole EXCEPT ![r.user] = r.role] ELSE directRole
          /\ quotaRows' = IF writes /\ r.kind = "removeMember" THEN quotaRows \ {r.user} ELSE quotaRows
    /\ UNCHANGED <<groupRows, groupRole, project, claimRows>>

ProjectUserQuotaTx(c) ==
    /\ OrgAnswered(c, {"setQuota", "dropQuota"})
    /\ quotaRows' = IF orgreq[c].kind = "setQuota" THEN quotaRows \cup {orgreq[c].user}
                                                   ELSE quotaRows \ {orgreq[c].user}
    /\ UNCHANGED <<groupRows, groupRole, project, directRole, claimRows>>

GPUClaimTx(c) ==
    /\ OrgAnswered(c, {"claim", "unclaim"})
    /\ claimRows' = IF orgreq[c].kind = "claim" THEN claimRows \cup {orgreq[c].user}
                                                ELSE claimRows \ {orgreq[c].user}
    /\ UNCHANGED <<groupRows, groupRole, project, directRole, quotaRows>>

\* A transaction that cannot be committed changes nothing.
OrgTxError(c) ==
    /\ orgreq[c] # OrgIdle
    /\ orgreq' = [orgreq EXCEPT ![c] = OrgIdle]
    /\ UNCHANGED <<groupRows, groupRole, project, directRole, quotaRows, claimRows, raced>>

\* The scheduler binds the project's plan, or clears it when the plan is deleted; each is one update.
bindProjectPlan ==
    /\ project # NoProject
    /\ project' = [project EXCEPT !.bound = TRUE]
    /\ UNCHANGED <<groupRows, groupRole, directRole, quotaRows, claimRows, orgreq, raced>>

clearProjectsPlan ==
    /\ project # NoProject /\ project.bound
    /\ project' = [project EXCEPT !.bound = FALSE]
    /\ UNCHANGED <<groupRows, groupRole, directRole, quotaRows, claimRows, orgreq, raced>>

\* The path a project was created with may name others.  Those are created, given away and deleted
\* too, and their groups change.
projectAboveChanges(users) ==
    /\ project # NoProject
    /\ project' = [project EXCEPT !.above = users]
    /\ UNCHANGED <<groupRows, groupRole, directRole, quotaRows, claimRows, orgreq, raced>>

GroupStep(c) ==
    \/ \E g \in OrgGroups : createGroup(c, g) \/ deleteGroup(c, g)
    \/ \E a \in OrgUsers \cup {Root}, g \in OrgGroups, u \in OrgUsers, role \in Roles, upsert \in BOOLEAN :
          createMembership(c, a, g, u, role, upsert)
    \/ \E a \in OrgUsers \cup {Root}, g \in OrgGroups, u \in OrgUsers : removeUserFromGroup(c, a, g, u)
    \/ CreateGroupWithEvent(c) \/ DeleteGroupCascadeTx(c) \/ DeleteGroupUnlisted(c) \/ MembershipTx(c)

ProjectStep(c) ==
    \/ \E g \in OrgGroups, u \in OrgUsers \cup {NoUser} : createProject(c, g, u)
    \/ \E g \in OrgGroups : updateProject(c, "updateOwner", g, NoUser)
    \/ \E u \in OrgUsers \cup {NoUser} : updateProject(c, "updatePersonal", NoUser, u)
    \/ deleteProject(c)
    \/ ProjectWithEvent(c) \/ DeleteProjectCascadeTx(c) \/ OrgTxError(c)

MemberStep(c) ==
    \/ \E a \in OrgUsers \cup {Root}, u \in OrgUsers :
          \/ \E role \in Roles : \/ createDirectProjectMember(c, a, u, role)
                                 \/ updateDirectProjectMemberRole(c, a, u, role)
          \/ deleteDirectProjectMember(c, a, u)
          \/ upsertProjectMemberQuota(c, a, u) \/ deleteProjectMemberQuota(c, a, u)
          \/ createGPUClaim(c, u) \/ deleteGPUClaim(c, a, u)
    \/ DirectProjectMemberTx(c) \/ ProjectUserQuotaTx(c) \/ GPUClaimTx(c)

OrganisationNext ==
    \/ \E c \in OrgCallers : GroupStep(c) \/ ProjectStep(c) \/ MemberStep(c)
    \/ bindProjectPlan \/ clearProjectsPlan
    \/ \E users \in SUBSET OrgUsers : projectAboveChanges(users)

OrganisationSpec == OrganisationInit /\ [][OrganisationNext]_orgVars

OrganisationTypeOK ==
    /\ groupRows \subseteq OrgGroups
    /\ groupRole \in [OrgGroups -> [OrgUsers -> Roles \cup {""}]]
    /\ project \in [owner : OrgGroups, personal : OrgUsers \cup {NoUser}, bound : BOOLEAN,
                    above : SUBSET OrgUsers] \cup {NoProject}
    /\ directRole \in [OrgUsers -> Roles \cup {""}]
    /\ quotaRows \subseteq OrgUsers /\ claimRows \subseteq OrgUsers
    /\ \A c \in OrgCallers :
          /\ orgreq[c].user \in OrgUsers \cup {NoUser}
          /\ orgreq[c].role \in Roles \cup {""}
          /\ orgreq[c].group \in OrgGroups \cup {NoUser}
          /\ orgreq[c].seen \subseteq RowsOf \X OrgUsers
    /\ raced \in BOOLEAN

\* As long as no delete was served together with another request and every delete could list what it
\* was to take along, deleting a project or a group leaves none of its rows behind (members, quotas
\* and claims; memberships): what deleteProject and deleteGroup cascade to is everything the other
\* handlers make.
OrphansOnlyByRace ==
    ~raced => /\ project = NoProject => /\ \A u \in OrgUsers : directRole[u] = ""
                                        /\ quotaRows = {} /\ claimRows = {}
              /\ \A g \in OrgGroups \ groupRows, u \in OrgUsers : groupRole[g][u] = ""
====
