---------------------------- MODULE ServiceProofs ----------------------------
(***************************************************************************)
(* The organisation, the image registry and the reservations, for any      *)
(* number of callers: a delete leaves no row behind unless it was raced,   *)
(* every service resolves the role the organisation service resolves, what *)
(* is published was scanned and signed, a cancelled build stays cancelled, *)
(* and reservations implement the ledger.                                  *)
(***************************************************************************)
EXTENDS ProjectAccess, ImageCatalog, Reservation, TLAPS

\* A leaf is tried with Zenon, and where that fails with the SMT solver.
USE Zenon, SMTT(30)

-----------------------------------------------------------------------------
(* The organisation, and the access to projects.                             *)

\* Requests about the project, and the other kinds that write a row for a user or a group.
OfProject == {"updateOwner", "updatePersonal", "deleteProject", "addMember", "setMember",
              "removeMember", "setQuota", "dropQuota", "claim", "unclaim"}
OfGroup == {"join", "setRole", "leave"}
OfUser == OfGroup \cup {"addMember", "setMember", "removeMember", "setQuota", "dropQuota", "claim", "unclaim"}
OrgRequestKinds == OfProject \cup OfGroup \cup {"idle", "createGroup", "deleteGroup", "createProject"}

OrgRequests ==
    {r \in [kind : OrgRequestKinds, user : OrgUsers \cup {NoUser}, role : Roles \cup {""},
            group : OrgGroups \cup {NoUser}, seen : SUBSET (RowsOf \X OrgUsers)] :
        /\ r.kind \in OfUser => r.user \in OrgUsers
        /\ r.kind \in OfGroup \cup {"createGroup", "deleteGroup", "createProject", "updateOwner"} =>
              r.group \in OrgGroups}

Projects == [owner : OrgGroups, personal : OrgUsers \cup {NoUser}, bound : BOOLEAN, above : SUBSET OrgUsers]

OrgTypes ==
    /\ groupRows \subseteq OrgGroups
    /\ groupRole \in [OrgGroups -> [OrgUsers -> Roles \cup {""}]]
    /\ project \in Projects \cup {NoProject}
    /\ directRole \in [OrgUsers -> Roles \cup {""}]
    /\ quotaRows \subseteq OrgUsers /\ claimRows \subseteq OrgUsers
    /\ orgreq \in [OrgCallers -> OrgRequests]
    /\ raced \in BOOLEAN

\* What the checks of a request found is still so when it writes.
StillHolds(r) ==
    /\ r.kind \in OfProject => project # NoProject
    /\ r.kind \in {"join", "setRole"} => r.group \in groupRows
    /\ r.kind = "deleteProject" =>
          /\ \A u \in OrgUsers : directRole[u] # "" => <<"member", u>> \in r.seen
          /\ \A u \in quotaRows : <<"quota", u>> \in r.seen
          /\ \A u \in claimRows : <<"claim", u>> \in r.seen

\* A delete that no other request was served with is alone, and nothing changed under a request.
Unraced ==
    ~raced => \A c \in OrgCallers :
                /\ StillHolds(orgreq[c])
                /\ orgreq[c].kind \in OrgDeletes => \A d \in OrgCallers \ {c} : orgreq[d] = OrgIdle

OrgInv == OrgTypes /\ Unraced /\ OrphansOnlyByRace

\* An idle caller is a request.
LEMMA OrgIdleType == OrgIdle \in OrgRequests /\ OrgIdle.kind = "idle"
<1>1. "idle" \in OrgRequestKinds /\ "idle" \notin OfUser /\ "idle" \notin OfGroup
  BY DEF OrgRequestKinds, OfUser, OfGroup
<1>2. QED BY <1>1 DEF OrgIdle, OrgAsk, OrgRequests

\* A request that passed its checks: if a delete is under way, or this is one and another request
\* is, or it missed rows, that is on record.
LEMMA CheckedKeeps ==
    ASSUME OrgInv, NEW c \in OrgCallers, NEW r \in OrgRequests, OrgChecked(c, r), StillHolds(r) \/ raced'
    PROVE  OrgInv'
<1>1. UNCHANGED <<groupRows, groupRole, project, directRole, quotaRows, claimRows>>
  BY DEF OrgChecked
<1>2. /\ orgreq' \in [OrgCallers -> OrgRequests]
      /\ orgreq'[c] = r
      /\ \A d \in OrgCallers : d # c => orgreq'[d] = orgreq[d]
  BY DEF OrgChecked, OrgInv, OrgTypes
<1>3. raced' \in BOOLEAN
  BY DEF OrgChecked
<1>4. OrgTypes'
  BY <1>1, <1>2, <1>3 DEF OrgInv, OrgTypes
<1>5. ~raced' => ~raced
  BY DEF OrgChecked, OrgInv, OrgTypes
<1>6. ~raced' => \A d \in OrgCallers \ {c} : orgreq[d] # OrgIdle =>
                    r.kind \notin OrgDeletes /\ orgreq[d].kind \notin OrgDeletes
  BY DEF OrgChecked
<1>7. Unraced'
  <2> SUFFICES ASSUME ~raced', NEW e \in OrgCallers
               PROVE  /\ StillHolds(orgreq[e])'
                      /\ orgreq'[e].kind \in OrgDeletes => \A d \in OrgCallers \ {e} : orgreq'[d] = OrgIdle
    BY DEF Unraced
  <2>1. StillHolds(orgreq[e]) /\ (orgreq[e].kind \in OrgDeletes => \A d \in OrgCallers \ {e} : orgreq[d] = OrgIdle)
    BY <1>5 DEF OrgInv, Unraced
  <2>2. StillHolds(orgreq[e])'
    BY <1>1, <1>2, <2>1 DEF StillHolds
  <2>3. orgreq'[e].kind \in OrgDeletes => \A d \in OrgCallers \ {e} : orgreq'[d] = OrgIdle
    <3>1. CASE e = c
      BY <1>2, <1>6, <3>1
    <3>2. CASE e # c
      <4>1. OrgIdle.kind \notin OrgDeletes
        BY OrgIdleType DEF OrgDeletes
      <4>2. QED BY <1>2, <1>6, <3>2, <4>1
    <3>3. QED BY <3>1, <3>2
  <2>4. QED BY <2>2, <2>3
<1>8. OrphansOnlyByRace'
  BY <1>1, <1>5 DEF OrgInv, OrphansOnlyByRace
<1>9. QED BY <1>4, <1>7, <1>8 DEF OrgInv

\* A write that is not a delete takes away neither the project nor a group.  What other requests
\* found stays so: beside a delete there are none.
LEMMA AnsweredKeeps ==
    ASSUME OrgInv, NEW c \in OrgCallers, orgreq[c] # OrgIdle,
           orgreq' = [orgreq EXCEPT ![c] = OrgIdle], raced' = raced,
           orgreq[c].kind \notin OrgDeletes =>
              (project # NoProject => project' # NoProject) /\ groupRows \subseteq groupRows',
           groupRows' \subseteq OrgGroups,
           groupRole' \in [OrgGroups -> [OrgUsers -> Roles \cup {""}]],
           project' \in Projects \cup {NoProject},
           directRole' \in [OrgUsers -> Roles \cup {""}],
           quotaRows' \subseteq OrgUsers, claimRows' \subseteq OrgUsers,
           OrphansOnlyByRace'
    PROVE  OrgInv'
<1>1. /\ orgreq' \in [OrgCallers -> OrgRequests]
      /\ orgreq'[c] = OrgIdle
      /\ \A d \in OrgCallers : d # c => orgreq'[d] = orgreq[d]
  BY OrgIdleType DEF OrgInv, OrgTypes
<1>2. OrgTypes'
  BY <1>1 DEF OrgInv, OrgTypes
<1>3. Unraced'
  <2> SUFFICES ASSUME ~raced, NEW e \in OrgCallers
               PROVE  /\ StillHolds(orgreq[e])'
                      /\ orgreq'[e].kind \in OrgDeletes => \A d \in OrgCallers \ {e} : orgreq'[d] = OrgIdle
    BY DEF Unraced
  <2>1. \A d \in OrgCallers : StillHolds(orgreq[d])
                           /\ (orgreq[d].kind \in OrgDeletes => \A x \in OrgCallers \ {d} : orgreq[x] = OrgIdle)
    BY DEF OrgInv, Unraced
  <2>2. CASE orgreq'[e] = OrgIdle
    BY <2>2, OrgIdleType DEF StillHolds, OfProject, OrgDeletes
  <2>3. CASE orgreq'[e] # OrgIdle
    <3>1. e # c /\ orgreq'[e] = orgreq[e] /\ orgreq[e].kind \notin OrgDeletes /\ orgreq[c].kind \notin OrgDeletes
      BY <1>1, <2>1, <2>3
    <3>2. (project # NoProject => project' # NoProject) /\ groupRows \subseteq groupRows'
      BY <3>1
    <3>3. QED BY <2>1, <3>1, <3>2 DEF StillHolds, OrgDeletes
  <2>4. QED BY <2>2, <2>3
<1>4. QED BY <1>2, <1>3 DEF OrgInv

\* Every check establishes what its request will rely on.
LEMMA AskKeeps ==
    ASSUME OrgInv, NEW c \in OrgCallers, NEW k \in OrgRequestKinds \ {"deleteProject"},
           NEW u \in OrgUsers \cup {NoUser}, NEW role \in Roles \cup {""}, NEW g \in OrgGroups \cup {NoUser},
           OrgChecked(c, OrgAsk(k, u, role, g)),
           k \in OfUser => u \in OrgUsers,
           k \in OfGroup \cup {"createGroup", "deleteGroup", "createProject", "updateOwner"} => g \in OrgGroups,
           k \in OfProject => project # NoProject,
           k \in {"join", "setRole"} => g \in groupRows
    PROVE  OrgInv'
<1> DEFINE r == OrgAsk(k, u, role, g)
<1>1. r \in OrgRequests /\ r.kind = k /\ r.group = g
  BY DEF OrgAsk, OrgRequests
<1> HIDE DEF r
<1>2. StillHolds(r)
  BY <1>1 DEF StillHolds
<1>3. OrgChecked(c, r)
  BY DEF r
<1>4. QED BY <1>1, <1>2, <1>3, CheckedKeeps

\* Where the kinds of request belong.
LEMMA OrgKinds ==
    /\ {"createGroup", "deleteGroup", "join", "setRole", "leave", "createProject"} \subseteq OrgRequestKinds \ OfProject
    /\ {"updateOwner", "updatePersonal", "addMember", "setMember", "removeMember", "setQuota", "dropQuota",
        "claim", "unclaim"} \subseteq OrgRequestKinds
    /\ "deleteProject" \in OfProject
    /\ \A k \in {"createGroup", "deleteGroup", "createProject", "updateOwner", "updatePersonal"} :
          k \notin OfUser /\ k \notin OfGroup
    /\ \A k \in {"addMember", "setMember", "removeMember", "setQuota", "dropQuota", "claim", "unclaim"} :
          k \notin OfGroup
  BY DEF OrgRequestKinds, OfProject, OfUser, OfGroup

\* The checks of the group handlers: what they found holds when they are done.
LEMMA GroupChecks ==
    ASSUME OrgInv, NEW c \in OrgCallers,
           \/ \E g \in OrgGroups : createGroup(c, g) \/ deleteGroup(c, g)
           \/ \E a \in OrgUsers \cup {Root}, g \in OrgGroups, u \in OrgUsers, role \in Roles, upsert \in BOOLEAN :
                 createMembership(c, a, g, u, role, upsert)
           \/ \E a \in OrgUsers \cup {Root}, g \in OrgGroups, u \in OrgUsers : removeUserFromGroup(c, a, g, u)
    PROVE  OrgInv'
<1>1. ASSUME NEW g \in OrgGroups, NEW k \in {"createGroup", "deleteGroup"}, OrgChecked(c, OrgAsk(k, NoUser, "", g))
      PROVE  OrgInv'
  <2>1. k \in OrgRequestKinds \ {"deleteProject"} /\ k \notin OfUser /\ k \notin OfProject
    BY OrgKinds
  <2>2. QED BY <1>1, <2>1, AskKeeps
<1>2. ASSUME NEW a \in OrgUsers \cup {Root}, NEW g \in OrgGroups, NEW u \in OrgUsers, NEW role \in Roles,
             NEW upsert \in BOOLEAN, createMembership(c, a, g, u, role, upsert)
      PROVE  OrgInv'
  <2>1. PICK k \in {"join", "setRole"} : OrgChecked(c, OrgAsk(k, u, role, g))
    BY <1>2 DEF createMembership
  <2>2. k \in OrgRequestKinds \ {"deleteProject"} /\ k \notin OfProject
    BY OrgKinds
  <2>3. g \in groupRows
    BY <1>2 DEF createMembership, validateMembershipRequest
  <2>4. QED BY <2>1, <2>2, <2>3, AskKeeps
<1>3. ASSUME NEW a \in OrgUsers \cup {Root}, NEW g \in OrgGroups, NEW u \in OrgUsers, removeUserFromGroup(c, a, g, u)
      PROVE  OrgInv'
  <2>1. PICK k \in {"leave"} : OrgChecked(c, OrgAsk(k, u, "", g))
    BY <1>3 DEF removeUserFromGroup
  <2>2. k \in OrgRequestKinds \ {"deleteProject"} /\ k \notin OfProject
    BY OrgKinds
  <2>3. QED BY <2>1, <2>2, AskKeeps
<1>4. QED BY <1>1, <1>2, <1>3 DEF createGroup, deleteGroup

\* The checks of the project handlers.
LEMMA ProjectChecks ==
    ASSUME OrgInv, NEW c \in OrgCallers,
           \/ \E g \in OrgGroups, u \in OrgUsers \cup {NoUser} : createProject(c, g, u)
           \/ \E g \in OrgGroups : updateProject(c, "updateOwner", g, NoUser)
           \/ \E u \in OrgUsers \cup {NoUser} : updateProject(c, "updatePersonal", NoUser, u)
           \/ deleteProject(c)
    PROVE  OrgInv'
<1>1. ASSUME NEW g \in OrgGroups, NEW u \in OrgUsers \cup {NoUser}, createProject(c, g, u)
      PROVE  OrgInv'
  <2>1. PICK k \in {"createProject"} : OrgChecked(c, OrgAsk(k, u, "", g))
    BY <1>1 DEF createProject
  <2>2. k \in OrgRequestKinds \ {"deleteProject"} /\ k \notin OfProject /\ k \notin OfUser
    BY OrgKinds
  <2>3. QED BY <2>1, <2>2, AskKeeps
<1>2. ASSUME NEW g \in OrgGroups, updateProject(c, "updateOwner", g, NoUser)
      PROVE  OrgInv'
  <2>1. PICK k \in {"updateOwner"} : OrgChecked(c, OrgAsk(k, NoUser, "", g))
    BY <1>2 DEF updateProject
  <2>2. k \in OrgRequestKinds \ {"deleteProject"} /\ k \notin OfUser
    BY OrgKinds
  <2>3. project # NoProject
    BY <1>2 DEF updateProject
  <2>4. QED BY <2>1, <2>2, <2>3, AskKeeps
<1>3. ASSUME NEW u \in OrgUsers \cup {NoUser}, updateProject(c, "updatePersonal", NoUser, u)
      PROVE  OrgInv'
  <2>1. PICK k \in {"updatePersonal"} : OrgChecked(c, OrgAsk(k, u, "", NoUser))
    BY <1>3 DEF updateProject
  <2>2. k \in OrgRequestKinds \ {"deleteProject"} /\ k \notin OfUser /\ k \notin OfGroup
    BY OrgKinds
  <2>3. project # NoProject
    BY <1>3 DEF updateProject
  <2>4. QED BY <2>1, <2>2, <2>3, AskKeeps
<1>4. CASE deleteProject(c)
  <2> DEFINE ask == OrgAsk("deleteProject", NoUser, "", NoUser)
  <2>1. PICK seen \in SUBSET ProjectRows : OrgChecked(c, [ask EXCEPT !.seen = seen])
    BY <1>4 DEF deleteProject
  <2> DEFINE r == [ask EXCEPT !.seen = seen]
  <2>2. project # NoProject
    BY <1>4 DEF deleteProject
  <2>3. ProjectRows \subseteq RowsOf \X OrgUsers
    <3>1. \A x \in {<<"member", u>> : u \in {v \in OrgUsers : directRole[v] # ""}} :
              \E u \in OrgUsers : x = <<"member", u>>
      OBVIOUS
    <3>2. \A u \in OrgUsers : <<"member", u>> \in RowsOf \X OrgUsers
      BY DEF RowsOf
    <3>3. {<<"member", u>> : u \in {v \in OrgUsers : directRole[v] # ""}} \subseteq RowsOf \X OrgUsers
      BY <3>1, <3>2
    <3>4. ({"quota"} \X quotaRows) \subseteq RowsOf \X OrgUsers
      BY DEF RowsOf, OrgInv, OrgTypes
    <3>5. ({"claim"} \X claimRows) \subseteq RowsOf \X OrgUsers
      BY DEF RowsOf, OrgInv, OrgTypes
    <3>6. QED BY <3>3, <3>4, <3>5 DEF ProjectRows
  <2>4. /\ \A u \in OrgUsers : directRole[u] # "" => <<"member", u>> \in ProjectRows
        /\ \A u \in quotaRows : <<"quota", u>> \in ProjectRows
        /\ \A u \in claimRows : <<"claim", u>> \in ProjectRows
    BY DEF ProjectRows
  <2>5. "deleteProject" \in OrgRequestKinds /\ "deleteProject" \notin OfUser /\ "deleteProject" \notin OfGroup
    BY DEF OrgRequestKinds, OfProject, OfUser, OfGroup
  <2>6. seen \in SUBSET (RowsOf \X OrgUsers)
    BY <2>3
  <2>7. r \in OrgRequests /\ r.kind = "deleteProject" /\ r.seen = seen
    BY <2>5, <2>6 DEF OrgRequests, OrgAsk
  <2>8. OrgChecked(c, r)
    BY <2>1
  <2> HIDE DEF r, ask
  <2>9. CASE seen = ProjectRows
    <3>1. StillHolds(r)
      BY <2>2, <2>4, <2>7, <2>9 DEF StillHolds
    <3>2. QED BY <2>7, <2>8, <3>1, CheckedKeeps
  <2>10. CASE seen # ProjectRows
    <3>1. raced'
      BY <2>7, <2>8, <2>10 DEF OrgChecked
    <3>2. QED BY <2>7, <2>8, <3>1, CheckedKeeps
  <2>11. QED BY <2>9, <2>10
<1>5. QED BY <1>1, <1>2, <1>3, <1>4

\* The checks of the handlers of members, quotas and GPU claims.
LEMMA MemberChecks ==
    ASSUME OrgInv, NEW c \in OrgCallers, NEW a \in OrgUsers \cup {Root}, NEW u \in OrgUsers,
           \/ \E role \in Roles : createDirectProjectMember(c, a, u, role) \/ updateDirectProjectMemberRole(c, a, u, role)
           \/ deleteDirectProjectMember(c, a, u)
           \/ upsertProjectMemberQuota(c, a, u) \/ deleteProjectMemberQuota(c, a, u)
           \/ createGPUClaim(c, u) \/ deleteGPUClaim(c, a, u)
    PROVE  OrgInv'
<1> DEFINE kinds == {"addMember", "setMember", "removeMember", "setQuota", "dropQuota", "claim", "unclaim"}
<1>1. PICK k \in kinds, role \in Roles \cup {""} : OrgChecked(c, OrgAsk(k, u, role, NoUser))
  BY DEF createDirectProjectMember, updateDirectProjectMemberRole, deleteDirectProjectMember,
         upsertProjectMemberQuota, deleteProjectMemberQuota, createGPUClaim, deleteGPUClaim
<1>2. project # NoProject
  BY DEF createDirectProjectMember, updateDirectProjectMemberRole, deleteDirectProjectMember,
         upsertProjectMemberQuota, deleteProjectMemberQuota, createGPUClaim, deleteGPUClaim,
         requireProjectAdmin, requireProjectRead
<1>3. k \in OrgRequestKinds \ {"deleteProject"} /\ k \notin OfGroup
  BY OrgKinds
<1>4. k \notin {"createGroup", "deleteGroup", "createProject", "updateOwner", "join", "setRole"}
  OBVIOUS
<1> HIDE DEF kinds
<1>5. QED BY <1>1, <1>2, <1>3, <1>4, AskKeeps

\* The rows of groups and memberships: a row is made for a group that is there.
LEMMA GroupTransactions ==
    ASSUME OrgInv, NEW c \in OrgCallers, CreateGroupWithEvent(c) \/ DeleteGroupCascadeTx(c) \/ MembershipTx(c)
    PROVE  OrgInv'
<1> DEFINE r == orgreq[c]
<1>1. /\ r \in OrgRequests /\ r # OrgIdle
      /\ orgreq' = [orgreq EXCEPT ![c] = OrgIdle] /\ raced' = raced
      /\ UNCHANGED <<project, directRole, quotaRows, claimRows>>
      /\ r.kind \in {"createGroup", "deleteGroup", "join", "setRole", "leave"}
  BY OrgIdleType DEF CreateGroupWithEvent, DeleteGroupCascadeTx, MembershipTx, OrgAnswered, OrgInv, OrgTypes
<1>2. /\ r.group \in OrgGroups /\ r.role \in Roles \cup {""}
      /\ r.kind \in {"join", "setRole", "leave"} => r.user \in OrgUsers
  BY <1>1 DEF OrgRequests, OfGroup, OfUser
<1>3. ~raced => StillHolds(r)
  BY DEF OrgInv, Unraced
<1> HIDE DEF r
<1>4. CASE CreateGroupWithEvent(c)
  <2>1. groupRows' = groupRows \cup {r.group} /\ groupRole' = groupRole
    BY <1>4 DEF CreateGroupWithEvent, r
  <2>2. OrphansOnlyByRace'
    BY <1>1, <2>1 DEF OrgInv, OrphansOnlyByRace
  <2>3. QED BY <1>1, <1>2, <2>1, <2>2, AnsweredKeeps DEF OrgInv, OrgTypes, r
<1>5. CASE DeleteGroupCascadeTx(c)
  <2> DEFINE Row == [OrgUsers -> Roles \cup {""}]
             blank == [u \in OrgUsers |-> ""]
  <2>1. \/ UNCHANGED <<groupRows, groupRole>>
        \/ groupRows' = groupRows \ {r.group} /\ groupRole' = [groupRole EXCEPT ![r.group] = blank]
    BY <1>5 DEF DeleteGroupCascadeTx, r
  <2>2. r.kind \in OrgDeletes
    BY <1>5 DEF DeleteGroupCascadeTx, OrgAnswered, OrgDeletes, r
  <2>3. blank \in Row /\ \A u \in OrgUsers : blank[u] = ""
    OBVIOUS
  <2>4. groupRole \in [OrgGroups -> Row] /\ groupRows \subseteq OrgGroups
    BY DEF OrgInv, OrgTypes
  <2> HIDE DEF Row, blank
  <2>5. groupRole' \in [OrgGroups -> Row] /\ groupRows' \subseteq OrgGroups
    BY <2>1, <2>3, <2>4
  <2>6. \A g \in OrgGroups \ groupRows' : groupRole'[g] = blank \/ (g \notin groupRows /\ groupRole'[g] = groupRole[g])
    BY <1>2, <2>1, <2>4
  <2>7. OrphansOnlyByRace'
    <3>1. ~raced => \A g \in OrgGroups \ groupRows' : \A u \in OrgUsers : groupRole'[g][u] = ""
      BY <2>3, <2>6 DEF OrgInv, OrphansOnlyByRace
    <3>2. QED BY <1>1, <3>1 DEF OrgInv, OrphansOnlyByRace
  <2>8. QED BY <1>1, <2>2, <2>5, <2>7, AnsweredKeeps DEF OrgInv, OrgTypes, r, Row
<1>6. CASE MembershipTx(c)
  <2>1. r.kind \in {"join", "setRole", "leave"} /\ groupRows' = groupRows
    BY <1>6 DEF MembershipTx, OrgAnswered, r
  <2>2. \/ groupRole' = groupRole
        \/ /\ groupRole' = [groupRole EXCEPT ![r.group][r.user] = r.role]
           /\ isGroupMember(r.user, r.group) <=> r.kind # "join"
    BY <1>6 DEF MembershipTx, r
  <2>3. groupRole' \in [OrgGroups -> [OrgUsers -> Roles \cup {""}]]
    <3> DEFINE Role == Roles \cup {""}
               Row == [OrgUsers -> Role]
    <3>1. groupRole \in [OrgGroups -> Row] /\ r.role \in Role /\ r.user \in OrgUsers
      BY <1>2, <2>1 DEF OrgInv, OrgTypes
    <3> HIDE DEF Role
    <3>2. [groupRole[r.group] EXCEPT ![r.user] = r.role] \in Row
      BY <1>2, <3>1
    <3> HIDE DEF Row
    <3>3. groupRole' \in [OrgGroups -> Row]
      BY <1>2, <2>2, <3>1, <3>2
    <3>4. QED BY <3>3 DEF Row, Role
  <2>4. ~raced => \A g \in OrgGroups \ groupRows, u \in OrgUsers : groupRole'[g][u] = ""
    <3>1. ~raced => \A g \in OrgGroups \ groupRows, u \in OrgUsers : groupRole[g][u] = ""
      BY DEF OrgInv, OrphansOnlyByRace
    <3>2. ~raced /\ groupRole' # groupRole => r.group \in groupRows
      BY <1>2, <1>3, <2>1, <2>2, <3>1 DEF StillHolds, isGroupMember
    <3>3. ASSUME NEW g \in OrgGroups \ groupRows, ~raced PROVE groupRole'[g] = groupRole[g]
      <4>1. groupRole' = groupRole \/ g # r.group
        BY <3>2, <3>3
      <4>2. QED BY <2>2, <4>1 DEF OrgInv, OrgTypes
    <3>4. QED BY <3>1, <3>3
  <2>5. OrphansOnlyByRace'
    BY <1>1, <2>1, <2>4 DEF OrgInv, OrphansOnlyByRace
  <2>6. QED BY <1>1, <2>1, <2>3, <2>5, AnsweredKeeps DEF OrgInv, OrgTypes, r
<1>7. QED BY <1>4, <1>5, <1>6

\* A group that goes without its memberships is on record.
LEMMA UnlistedKeeps ==
    ASSUME OrgInv, NEW c \in OrgCallers, DeleteGroupUnlisted(c)
    PROVE  OrgInv'
<1>1. orgreq' \in [OrgCallers -> OrgRequests]
  BY OrgIdleType DEF DeleteGroupUnlisted, OrgInv, OrgTypes
<1>2. OrgTypes'
  BY <1>1 DEF DeleteGroupUnlisted, OrgInv, OrgTypes
<1>3. Unraced' /\ OrphansOnlyByRace'
  BY DEF DeleteGroupUnlisted, Unraced, OrphansOnlyByRace
<1>4. QED BY <1>2, <1>3 DEF OrgInv

\* The project row: creating it where there is none leaves no row behind that was not there.
LEMMA ProjectTransactions ==
    ASSUME OrgInv, NEW c \in OrgCallers, ProjectWithEvent(c)
    PROVE  OrgInv'
<1> DEFINE r == orgreq[c]
<1>1. /\ r \in OrgRequests /\ r # OrgIdle
      /\ orgreq' = [orgreq EXCEPT ![c] = OrgIdle] /\ raced' = raced
      /\ UNCHANGED <<groupRows, groupRole, directRole, quotaRows, claimRows>>
      /\ r.kind \in {"createProject", "updateOwner", "updatePersonal"}
  BY OrgIdleType DEF ProjectWithEvent, OrgAnswered, OrgInv, OrgTypes
<1>2. r.user \in OrgUsers \cup {NoUser} /\ (r.kind # "updatePersonal" => r.group \in OrgGroups)
  BY <1>1 DEF OrgRequests
<1>3. project' = IF ~(project = NoProject <=> r.kind = "createProject") THEN project
                 ELSE CASE r.kind = "updateOwner" -> [project EXCEPT !.owner = r.group]
                        [] r.kind = "updatePersonal" -> [project EXCEPT !.personal = r.user]
                        [] OTHER -> [owner |-> r.group, personal |-> r.user, bound |-> FALSE, above |-> {}]
  BY DEF ProjectWithEvent
<1> HIDE DEF r
<1>4. project' = project \/ project' \in Projects
  <2>1. CASE project = NoProject /\ r.kind = "createProject"
    BY <1>1, <1>2, <1>3, <2>1 DEF Projects
  <2>2. CASE project # NoProject /\ r.kind = "updateOwner"
    <3>1. project \in Projects /\ project' = [project EXCEPT !.owner = r.group]
      BY <1>3, <2>2 DEF OrgInv, OrgTypes
    <3>2. QED BY <1>2, <2>2, <3>1 DEF Projects
  <2>3. CASE project # NoProject /\ r.kind = "updatePersonal"
    <3>1. project \in Projects /\ project' = [project EXCEPT !.personal = r.user]
      BY <1>3, <2>3 DEF OrgInv, OrgTypes
    <3>2. QED BY <1>2, <3>1 DEF Projects
  <2>4. CASE ~(project = NoProject <=> r.kind = "createProject")
    BY <1>3, <2>4
  <2>5. r.kind = "createProject" \/ r.kind = "updateOwner" \/ r.kind = "updatePersonal"
    BY <1>1
  <2>6. r.kind # "createProject" => r.kind = "updateOwner" \/ r.kind = "updatePersonal"
    BY <2>5
  <2>7. QED BY <2>1, <2>2, <2>3, <2>4, <2>6
<1>5. NoProject \notin Projects
  BY OrganisationAssumption DEF Projects
<1>6. (project # NoProject => project' # NoProject) /\ project' \in Projects \cup {NoProject}
  BY <1>4, <1>5 DEF OrgInv, OrgTypes
<1>7. OrphansOnlyByRace'
  BY <1>1, <1>4, <1>5 DEF OrgInv, OrphansOnlyByRace
<1>8. r.kind \notin OrgDeletes
  BY <1>1 DEF OrgDeletes
<1>9. QED BY <1>1, <1>6, <1>7, <1>8, AnsweredKeeps DEF OrgInv, OrgTypes, r

\* The delete listed every row there was, and no row was made since unless a request raced it.
LEMMA DeleteProjectKeeps ==
    ASSUME OrgInv, NEW c \in OrgCallers, DeleteProjectCascadeTx(c)
    PROVE  OrgInv'
<1> DEFINE r == orgreq[c]
           gone(kind) == {u \in OrgUsers : project # NoProject /\ <<kind, u>> \in r.seen}
<1>1. /\ r \in OrgRequests /\ r # OrgIdle
      /\ orgreq' = [orgreq EXCEPT ![c] = OrgIdle] /\ raced' = raced
      /\ UNCHANGED <<groupRows, groupRole>> /\ project' = NoProject
      /\ r.kind = "deleteProject"
  BY OrgIdleType DEF DeleteProjectCascadeTx, OrgAnswered, OrgInv, OrgTypes
<1>2. /\ directRole' = [u \in OrgUsers |-> IF u \in gone("member") THEN "" ELSE directRole[u]]
      /\ quotaRows' = quotaRows \ gone("quota") /\ claimRows' = claimRows \ gone("claim")
  BY DEF DeleteProjectCascadeTx
<1>3. ~raced => StillHolds(r) /\ project # NoProject
  BY <1>1 DEF OrgInv, Unraced, StillHolds, OfProject
<1>4. directRole' \in [OrgUsers -> Roles \cup {""}] /\ quotaRows' \subseteq OrgUsers /\ claimRows' \subseteq OrgUsers
  <2>1. \A u \in OrgUsers : directRole[u] \in Roles \cup {""}
    BY DEF OrgInv, OrgTypes
  <2> HIDE DEF gone
  <2>2. QED BY <1>2, <2>1 DEF OrgInv, OrgTypes
<1>5. ~raced => /\ \A u \in OrgUsers : directRole'[u] = ""
                /\ quotaRows' = {} /\ claimRows' = {}
  <2> SUFFICES ASSUME ~raced PROVE (\A u \in OrgUsers : directRole'[u] = "") /\ quotaRows' = {} /\ claimRows' = {}
    OBVIOUS
  <2>1. /\ \A u \in OrgUsers : directRole[u] # "" => u \in gone("member")
        /\ \A u \in quotaRows : u \in gone("quota")
        /\ \A u \in claimRows : u \in gone("claim")
    BY <1>1, <1>3 DEF StillHolds, OrgInv, OrgTypes
  <2> HIDE DEF gone
  <2>2. QED BY <1>2, <2>1
<1>6. OrphansOnlyByRace'
  BY <1>1, <1>5 DEF OrgInv, OrphansOnlyByRace
<1>7. r.kind \in OrgDeletes
  BY <1>1 DEF OrgDeletes
<1> HIDE DEF r
<1>8. QED BY <1>1, <1>4, <1>6, <1>7, AnsweredKeeps DEF OrgInv, OrgTypes, r
\* The rows of a project's members: while nothing raced a delete, the project is there.
LEMMA MemberTransactions ==
    ASSUME OrgInv, NEW c \in OrgCallers, DirectProjectMemberTx(c) \/ ProjectUserQuotaTx(c) \/ GPUClaimTx(c)
    PROVE  OrgInv'
<1> DEFINE r == orgreq[c]
           kinds == {"addMember", "setMember", "removeMember", "setQuota", "dropQuota", "claim", "unclaim"}
<1>1. /\ r \in OrgRequests /\ r # OrgIdle
      /\ orgreq' = [orgreq EXCEPT ![c] = OrgIdle] /\ raced' = raced
      /\ UNCHANGED <<groupRows, groupRole, project>>
      /\ r.kind \in kinds
  BY OrgIdleType DEF DirectProjectMemberTx, ProjectUserQuotaTx, GPUClaimTx, OrgAnswered, OrgInv, OrgTypes
<1>2. r.user \in OrgUsers /\ r.role \in Roles \cup {""}
  BY <1>1 DEF OrgRequests, OfUser
<1>3. r.kind \in OfProject /\ r.kind \notin OrgDeletes
  BY <1>1 DEF OfProject, OrgDeletes
<1>4. ~raced => project # NoProject
  BY <1>3 DEF OrgInv, Unraced, StillHolds
<1>5. directRole' \in [OrgUsers -> Roles \cup {""}]
  <2> DEFINE Role == Roles \cup {""}
  <2>1. directRole \in [OrgUsers -> Role] /\ r.role \in Role
    BY <1>2 DEF OrgInv, OrgTypes
  <2>2. directRole' = directRole \/ directRole' = [directRole EXCEPT ![r.user] = r.role]
    BY DEF DirectProjectMemberTx, ProjectUserQuotaTx, GPUClaimTx
  <2> HIDE DEF Role, r
  <2>3. directRole' \in [OrgUsers -> Role]
    BY <1>2, <2>1, <2>2
  <2>4. QED BY <2>3 DEF Role
<1>6. quotaRows' \subseteq OrgUsers /\ claimRows' \subseteq OrgUsers
  <2>1. quotaRows \subseteq OrgUsers /\ claimRows \subseteq OrgUsers
    BY DEF OrgInv, OrgTypes
  <2>2. quotaRows' \subseteq quotaRows \cup {r.user} /\ claimRows' \subseteq claimRows \cup {r.user}
    BY DEF DirectProjectMemberTx, ProjectUserQuotaTx, GPUClaimTx
  <2>3. QED BY <1>2, <2>1, <2>2
<1>7. OrphansOnlyByRace'
  BY <1>1, <1>4 DEF OrgInv, OrphansOnlyByRace
<1> HIDE DEF r, kinds
<1>8. QED BY <1>1, <1>3, <1>5, <1>6, <1>7, AnsweredKeeps DEF OrgInv, OrgTypes, r

\* The plan of a project and the projects above it change under the requests; none of them
\* relies on these.
LEMMA PlanUpdates ==
    ASSUME OrgInv, NEW users \in SUBSET OrgUsers,
           bindProjectPlan \/ clearProjectsPlan \/ projectAboveChanges(users)
    PROVE  OrgInv'
<1>1. /\ project # NoProject
      /\ UNCHANGED <<groupRows, groupRole, directRole, quotaRows, claimRows, orgreq, raced>>
  BY DEF bindProjectPlan, clearProjectsPlan, projectAboveChanges
<1>2. \/ \E b \in BOOLEAN : project' = [project EXCEPT !.bound = b]
      \/ project' = [project EXCEPT !.above = users]
  BY DEF bindProjectPlan, clearProjectsPlan, projectAboveChanges
<1>3. project' \in Projects
  <2>1. project \in Projects
    BY <1>1 DEF OrgInv, OrgTypes
  <2>2. CASE \E b \in BOOLEAN : project' = [project EXCEPT !.bound = b]
    BY <2>1, <2>2 DEF Projects
  <2>3. CASE project' = [project EXCEPT !.above = users]
    BY <2>1, <2>3 DEF Projects
  <2>4. QED BY <1>2, <2>2, <2>3
<1>4. project' # NoProject
  BY <1>3, OrganisationAssumption DEF Projects
<1>5. OrgTypes'
  BY <1>1, <1>3 DEF OrgInv, OrgTypes
<1>6. Unraced'
  BY <1>1, <1>4 DEF OrgInv, Unraced, StillHolds
<1>7. OrphansOnlyByRace'
  BY <1>1, <1>4 DEF OrgInv, OrphansOnlyByRace
<1>8. QED BY <1>5, <1>6, <1>7 DEF OrgInv

\* There is nothing to be orphaned.
LEMMA OrganisationInitInv == OrganisationInit => OrgInv
<1> SUFFICES ASSUME OrganisationInit PROVE OrgInv
  OBVIOUS
<1>1. \A c \in OrgCallers : orgreq[c] = OrgIdle
  BY DEF OrganisationInit
<1>2. orgreq \in [OrgCallers -> OrgRequests]
  BY OrgIdleType DEF OrganisationInit
<1>3. groupRole \in [OrgGroups -> [OrgUsers -> Roles \cup {""}]]
  <2> DEFINE Row == [OrgUsers -> Roles \cup {""}]
             blank == [u \in OrgUsers |-> ""]
  <2>1. blank \in Row
    OBVIOUS
  <2>2. groupRole = [g \in OrgGroups |-> blank]
    BY DEF OrganisationInit
  <2> HIDE DEF Row, blank
  <2>3. groupRole \in [OrgGroups -> Row]
    BY <2>1, <2>2
  <2>4. QED BY <2>3 DEF Row
<1>4. directRole \in [OrgUsers -> Roles \cup {""}]
  BY DEF OrganisationInit
<1>5. OrgTypes
  BY <1>2, <1>3, <1>4 DEF OrganisationInit, OrgTypes
<1>6. Unraced
  BY <1>1, OrgIdleType DEF Unraced, StillHolds, OfProject, OrgDeletes
<1>7. OrphansOnlyByRace
  BY DEF OrganisationInit, OrphansOnlyByRace
<1>8. QED BY <1>5, <1>6, <1>7 DEF OrgInv

\* Every check and every transaction keeps the invariant.
LEMMA OrganisationStepInv == OrgInv /\ [OrganisationNext]_orgVars => OrgInv'
<1> SUFFICES ASSUME OrgInv, [OrganisationNext]_orgVars PROVE OrgInv'
  OBVIOUS
<1>1. ASSUME NEW c \in OrgCallers, GroupStep(c)
      PROVE  OrgInv'
  BY <1>1, GroupChecks, GroupTransactions, UnlistedKeeps DEF GroupStep
<1>2. ASSUME NEW c \in OrgCallers, ProjectStep(c)
      PROVE  OrgInv'
  <2>1. CASE OrgTxError(c)
    <3>1. OrphansOnlyByRace'
      BY <2>1 DEF OrgTxError, OrgInv, OrphansOnlyByRace
    <3>2. QED BY <2>1, <3>1, AnsweredKeeps DEF OrgTxError, OrgInv, OrgTypes
  <2>2. CASE ProjectWithEvent(c) \/ DeleteProjectCascadeTx(c)
    BY <2>2, ProjectTransactions, DeleteProjectKeeps
  <2>3. QED BY <1>2, <2>1, <2>2, ProjectChecks DEF ProjectStep
<1>3. ASSUME NEW c \in OrgCallers, MemberStep(c)
      PROVE  OrgInv'
  BY <1>3, MemberChecks, MemberTransactions DEF MemberStep
<1>4. CASE UNCHANGED orgVars
  <2>1. UNCHANGED <<groupRows, groupRole, project, directRole, quotaRows, claimRows, orgreq, raced>>
    BY <1>4 DEF orgVars
  <2>2. OrgTypes' /\ OrphansOnlyByRace'
    BY <2>1 DEF OrgInv, OrgTypes, OrphansOnlyByRace
  <2>3. Unraced'
    BY <2>1 DEF OrgInv, Unraced, StillHolds
  <2>4. QED BY <2>2, <2>3 DEF OrgInv
<1>5. CASE bindProjectPlan \/ clearProjectsPlan \/ \E users \in SUBSET OrgUsers : projectAboveChanges(users)
  BY <1>5, PlanUpdates
<1>6. QED BY <1>1, <1>2, <1>3, <1>4, <1>5 DEF OrganisationNext

(* However the requests of the organisation service overlap, a row of a      *)
(* deleted project or group is left behind only where a delete was served    *)
(* together with another request, or could not list the rows it was to take  *)
(* along (DeleteProjectCascadeTx, DeleteGroupCascadeTx).                     *)
THEOREM DeletesCascade == OrganisationSpec => []OrphansOnlyByRace
<1>1. OrgInv => OrphansOnlyByRace
  BY DEF OrgInv
<1>2. QED BY <1>1, OrganisationInitInv, OrganisationStepInv, PTL DEF OrganisationSpec

\* The role a user has is one of the three, or none; who has one may read.
LEMMA RolesResolve ==
    ASSUME OrgTypes, project # NoProject, NEW u \in OrgUsers
    PROVE  /\ projectRoleForUser(u) \in Roles \cup {""}
           /\ projectRoleForUser(u) = imageProjectRole(u)
           /\ projectRoleForUser(u) = storageProjectRole(u)
           /\ requireProjectRead(u) <=> (IsPersonal(u) \/ InOwnerGroup(u) \/ directRole[u] # "")
           /\ u # project.personal => mergedProjectMembers[u] = projectRoleForUser(u)
<1>1. project.owner \in OrgGroups /\ u # Root
  BY OrganisationAssumption DEF OrgTypes, Projects
<1>2. groupRole[project.owner][u] \in Roles \cup {""} /\ directRole[u] \in Roles \cup {""}
  BY <1>1 DEF OrgTypes
<1>3. "admin" \in Roles /\ "" \notin Roles
  BY DEF Roles
<1>4. projectRoleForUser(u) = imageProjectRole(u)
  BY <1>1 DEF projectRoleForUser, imageProjectRole, IsPersonal, InOwnerGroup
<1>5. projectRoleForUser(u) = storageProjectRole(u)
  BY <1>1 DEF projectRoleForUser, storageProjectRole, IsPersonal, isGroupMember
<1>6. projectRoleForUser(u) \in Roles \cup {""}
  BY <1>1, <1>2, <1>3 DEF projectRoleForUser
<1>7. projectRoleForUser(u) \in Roles <=> (IsPersonal(u) \/ InOwnerGroup(u) \/ directRole[u] # "")
  BY <1>1, <1>2, <1>3 DEF projectRoleForUser, IsPersonal, InOwnerGroup, isGroupMember
<1>8. u # project.personal => mergedProjectMembers[u] = projectRoleForUser(u)
  BY <1>1 DEF mergedProjectMembers, projectRoleForUser
<1>9. QED BY <1>4, <1>5, <1>6, <1>7, <1>8 DEF requireProjectRead, canReadProject

(* Whatever rows a user has in the owning group and in the project, every    *)
(* service resolves the role the owner of the data resolves, or lets in no   *)
(* user that role does not let read; the cluster view alone lets in those of *)
(* a project above too (projectRoleForUser, imageProjectRole,                *)
(* storageProjectRole and the access checks of the other services).          *)
THEOREM ServicesAgreeOnRoles == OrganisationSpec => []RolesAgree
<1>1. ASSUME OrgTypes, project # NoProject, NEW u \in OrgUsers
      PROVE  LET role == projectRoleForUser(u)
                 reads == requireProjectRead(u)
             IN /\ imageProjectRole(u) = role /\ storageProjectRole(u) = role
                /\ imageRequireProjectRead(u) = reads /\ storageRequireProjectRead(u) = reads
                /\ imageRequireProjectManager(u) = canManageProject(role)
                /\ storageRequireProjectManager(u) = canManageProject(role)
                /\ ideCanAccessProject(u) = reads
                /\ clusterVisibleProject(u) = (reads \/ u \in project.above)
                /\ requireAdmissionProjectAccess(u) = reads /\ canCreateProjectForm(u) = reads
                /\ u = project.personal \/ mergedProjectMembers[u] = role
                /\ (\/ workloadProjectAccess(u) \/ authorizedWorkloadProject(u) \/ dashboardProject(u)
                    \/ auditCanReadProject(u) \/ canQueryProjectAuditLogs(u) \/ ideProjectRoleCanViewAll(u))
                   => reads
  <2>1. imageProjectRole(u) = projectRoleForUser(u) /\ storageProjectRole(u) = projectRoleForUser(u)
    BY <1>1, RolesResolve
  <2>2. requireProjectRead(u) = (IsPersonal(u) \/ InOwnerGroup(u) \/ directRole[u] # "")
    BY <1>1, RolesResolve DEF requireProjectRead, canReadProject
  <2>3. /\ imageRequireProjectRead(u) = requireProjectRead(u)
        /\ storageRequireProjectRead(u) = requireProjectRead(u)
    BY <1>1, <2>1 DEF imageRequireProjectRead, storageRequireProjectRead, requireProjectRead
  <2>4. /\ imageRequireProjectManager(u) = canManageProject(projectRoleForUser(u))
        /\ storageRequireProjectManager(u) = canManageProject(projectRoleForUser(u))
    BY <1>1, <2>1 DEF imageRequireProjectManager, storageRequireProjectManager, canManageProject
  <2>5. /\ ideCanAccessProject(u) = requireProjectRead(u)
        /\ clusterVisibleProject(u) = (requireProjectRead(u) \/ u \in project.above)
    BY <1>1, <2>2 DEF ideCanAccessProject, clusterVisibleProject
  <2>6. requireAdmissionProjectAccess(u) = requireProjectRead(u) /\ canCreateProjectForm(u) = requireProjectRead(u)
    BY <1>1, <2>2 DEF requireAdmissionProjectAccess, canCreateProjectForm
  <2>7. u = project.personal \/ mergedProjectMembers[u] = projectRoleForUser(u)
    BY <1>1, RolesResolve
  <2>8. (\/ workloadProjectAccess(u) \/ authorizedWorkloadProject(u) \/ dashboardProject(u)
         \/ auditCanReadProject(u) \/ canQueryProjectAuditLogs(u) \/ ideProjectRoleCanViewAll(u))
        => requireProjectRead(u)
    BY <2>2 DEF workloadProjectAccess, authorizedWorkloadProject, dashboardProject, auditCanReadProject,
                canQueryProjectAuditLogs, ideProjectRoleCanViewAll, canManageProject
  <2>9. QED BY <2>1, <2>3, <2>4, <2>5, <2>6, <2>7, <2>8
<1>2. OrgTypes => RolesAgree
  BY <1>1 DEF RolesAgree
<1>3. OrgInv => RolesAgree
  BY <1>2 DEF OrgInv
<1>4. QED BY <1>3, OrganisationInitInv, OrganisationStepInv, PTL DEF OrganisationSpec

-----------------------------------------------------------------------------
(* Image builds.                                                             *)

Outcomes == {"none", "error", "unsigned", "scanFailed", "passed"}
RunnerRecords == [pc : {"idle", "mark", "execute", "record"}, build : Nat,
                  outcome : Outcomes, digest : Nat]

(* Only a runner that executed its build has an outcome to record.           *)
BuildTypes ==
    /\ builds \in [Ids -> BuildRecords \cup {NoBuild}]
    /\ creating \in [BuildCallers -> [pc : {"idle", "admit", "create"}, key : BuildKeys \cup {NoKey}]]
    /\ runner \in [BuildRunners -> RunnerRecords]
    /\ pushes \in Nat
    /\ \A w \in BuildRunners :
          /\ runner[w].pc = "idle" => runner[w].build = 0
          /\ runner[w].pc # "idle" => runner[w].build \in Ids /\ Exists(runner[w].build)
          /\ runner[w].pc = "record" <=> runner[w].outcome # "none"

(* What a runner is about to record as passed, and what the records call     *)
(* succeeded, is signed.                                                     *)
SignedBefore ==
    /\ \A w \in BuildRunners : runner[w].outcome = "passed" => runner[w].digest \in signed
    /\ \A b \in Ids : (Exists(b) /\ builds[b].status = "succeeded") => builds[b].digest \in signed

BuildInv == BuildTypes /\ SignedBefore

(* The row the gate let through, and every rule made from it, names a signed *)
(* digest, whatever happened to the build since.                             *)
GatedSigned ==
    /\ publisher \in [pc : {"idle", "publish", "unpublish"}, left : SUBSET ImageProjects,
                      seen : TagRecords \cup {NoTag}]
    /\ publisher.pc = "publish" => publisher.seen # NoTag /\ publisher.seen.digest \in signed
    /\ rules \in [ImageProjects -> RuleRecords \cup {NoRule}]
    /\ \A p \in ImageProjects : rules[p] # NoRule => rules[p].gated \in signed

ImageInv ==
    /\ BuildInv
    /\ tag \in TagRecords \cup {NoTag}
    /\ harbor \in Artifacts
    /\ syncing \in [pc : {"idle", "find", "write"},
                    status : {"none", "sync_requested", "degraded", "synced"}, artifact : Artifacts]
    /\ GatedSigned

(* A record the pipeline's result is merged into stays a build record, and   *)
(* only a passed outcome makes it succeeded, with the digest it pushed.      *)
LEMMA ResultUpdate ==
    ASSUME NEW x \in BuildRecords, NEW outcome \in Outcomes \ {"none"}, NEW digest \in Nat
    PROVE  LET y == buildResultUpdate(x, outcome, digest)
           IN  /\ y \in BuildRecords
               /\ y.status \in {"failed", "succeeded"}
               /\ y.status = "succeeded" => outcome = "passed" /\ y.digest = digest
<1>1. CASE outcome = "error"
      BY <1>1 DEF buildResultUpdate, BuildRecords, BuildStatuses, CheckStates
<1>2. CASE outcome = "unsigned"
      BY <1>2 DEF buildResultUpdate, BuildRecords, BuildStatuses, CheckStates
<1>3. CASE outcome = "scanFailed"
      BY <1>3 DEF buildResultUpdate, BuildRecords, BuildStatuses, CheckStates
<1>4. CASE outcome = "passed"
      BY <1>4 DEF buildResultUpdate, BuildRecords, BuildStatuses, CheckStates
<1>5. QED BY <1>1, <1>2, <1>3, <1>4 DEF Outcomes

\* A new build is a queued record.
LEMMA NewBuildRecord ==
    ASSUME NEW key \in BuildKeys \cup {NoKey}
    PROVE  /\ newImageBuildRecord(key) \in BuildRecords
           /\ newImageBuildRecord(key).status = "queued"
BY DEF newImageBuildRecord, BuildRecords, BuildStatuses, CheckStates

\* A runner that takes a build has no outcome yet.
LEMMA RunningRecord ==
    ASSUME NEW pc \in {"idle", "mark"}, NEW b \in Nat
    PROVE  /\ Running(pc, b) \in RunnerRecords
           /\ Running(pc, b).pc = pc /\ Running(pc, b).build = b
           /\ Running(pc, b).outcome = "none"
BY DEF Running, RunnerRecords, Outcomes

\* There are no builds and no images.
LEMMA BuildInvInit == BuildsInit => BuildInv
<1>1. SUFFICES ASSUME BuildsInit PROVE BuildInv
      OBVIOUS
<1>2. RunnerIdle \in RunnerRecords /\ RunnerIdle.pc = "idle" /\ RunnerIdle.build = 0
         /\ RunnerIdle.outcome = "none"
      BY RunningRecord DEF RunnerIdle
<1>3. BuildTypes
      BY <1>1, <1>2 DEF BuildsInit, BuildTypes
<1>4. SignedBefore
      BY <1>1, <1>2 DEF BuildsInit, SignedBefore, Exists
<1>5. QED BY <1>3, <1>4 DEF BuildInv

\* Every step of the builds keeps the invariant, and a signature stays.
LEMMA BuildInvNext ==
    ASSUME BuildInv, BuildsNext
    PROVE  BuildInv' /\ signed \subseteq signed'
<1> USE BuildsAssumption
<1>i. RunnerIdle \in RunnerRecords /\ RunnerIdle.pc = "idle" /\ RunnerIdle.build = 0
         /\ RunnerIdle.outcome = "none"
      BY RunningRecord DEF RunnerIdle
<1>1. ASSUME NEW c \in BuildCallers, CreateAdmit(c) \/ CreateCount(c)
      PROVE  BuildInv' /\ signed \subseteq signed'
  <2>1. creating' \in [BuildCallers -> [pc : {"idle", "admit", "create"}, key : BuildKeys \cup {NoKey}]]
        BY <1>1 DEF CreateAdmit, CreateCount, BuildInv, BuildTypes
  <2>2. UNCHANGED <<builds, runner, pushes, signed>>
        BY <1>1 DEF CreateAdmit, CreateCount
  <2>3. QED BY <2>1, <2>2 DEF BuildInv, BuildTypes, SignedBefore, Exists
<1>2. ASSUME NEW c \in BuildCallers, CreateBuild(c)
      PROVE  BuildInv' /\ signed \subseteq signed'
  <2>1. PICK b \in Ids : /\ ~Exists(b)
                         /\ builds' = [builds EXCEPT ![b] = newImageBuildRecord(creating[c].key)]
        BY <1>2 DEF CreateBuild
  <2>2. creating[c].key \in BuildKeys \cup {NoKey}
        BY <1>2 DEF BuildInv, BuildTypes
  <2>3. /\ creating' \in [BuildCallers -> [pc : {"idle", "admit", "create"}, key : BuildKeys \cup {NoKey}]]
        /\ UNCHANGED <<runner, pushes, signed>>
        BY <1>2 DEF CreateBuild, BuildInv, BuildTypes
  <2>4. newImageBuildRecord(creating[c].key) # NoBuild
        BY <2>2, NewBuildRecord
  <2>5. BuildTypes'
        BY <2>1, <2>2, <2>3, <2>4, NewBuildRecord DEF BuildInv, BuildTypes, Exists
  <2>6. SignedBefore'
        BY <2>1, <2>2, <2>3, NewBuildRecord DEF BuildInv, BuildTypes, SignedBefore, Exists
  <2>7. QED BY <2>3, <2>5, <2>6 DEF BuildInv
<1>3. ASSUME NEW b \in Ids, NEW keyed \in BOOLEAN, CancelBuild(b, keyed)
      PROVE  BuildInv' /\ signed \subseteq signed'
  <2>1. builds[b] \in BuildRecords
        BY <1>3 DEF CancelBuild, Exists, BuildInv, BuildTypes
  <2> DEFINE x == [builds[b] EXCEPT !.status = "cancelled", !.cancelKey = keyed \/ builds[b].cancelKey]
  <2>2. x \in BuildRecords /\ x.status = "cancelled"
        BY <2>1 DEF BuildRecords, BuildStatuses
  <2>3. builds' = [builds EXCEPT ![b] = x] /\ UNCHANGED <<creating, runner, pushes, signed>>
        BY <1>3, <2>1 DEF CancelBuild, BuildRecords, BuildInv, BuildTypes
  <2> HIDE DEF x
  <2>4. BuildTypes'
        BY <2>2, <2>3 DEF BuildInv, BuildTypes, Exists
  <2>5. SignedBefore'
        BY <2>2, <2>3 DEF BuildInv, BuildTypes, SignedBefore, Exists
  <2>6. QED BY <2>3, <2>4, <2>5 DEF BuildInv
<1>4. ASSUME NEW w \in BuildRunners, RunPick(w)
      PROVE  BuildInv' /\ signed \subseteq signed'
  <2>1. PICK b \in queuedBuilds : runner' = [runner EXCEPT ![w] = Running("mark", b)]
        BY <1>4 DEF RunPick
  <2>2. b \in Ids /\ b \in Nat /\ Exists(b)
        BY <2>1 DEF queuedBuilds, Ids
  <2>3. UNCHANGED <<builds, creating, pushes, signed>>
        BY <1>4 DEF RunPick
  <2>4. BuildTypes'
        BY <2>1, <2>2, <2>3, RunningRecord DEF BuildInv, BuildTypes, Exists
  <2>5. SignedBefore'
        BY <2>1, <2>2, <2>3, RunningRecord DEF BuildInv, BuildTypes, SignedBefore, Exists
  <2>6. QED BY <2>3, <2>4, <2>5 DEF BuildInv
<1>5. ASSUME NEW w \in BuildRunners, RunMark(w)
      PROVE  BuildInv' /\ signed \subseteq signed'
  <2> DEFINE b == runner[w].build
  <2> DEFINE x == [builds[b] EXCEPT !.status = "building"]
  <2> DEFINE r == [runner[w] EXCEPT !.pc = "execute"]
  <2>1. b \in Ids /\ builds[b] \in BuildRecords
        BY <1>5 DEF RunMark, Exists, BuildInv, BuildTypes
  <2>2. x \in BuildRecords /\ x.status = "building"
        BY <2>1 DEF BuildRecords, BuildStatuses
  <2>3. r \in RunnerRecords /\ r.pc = "execute" /\ r.build = b /\ r.outcome = runner[w].outcome
           /\ r.digest = runner[w].digest
        BY DEF RunnerRecords, BuildInv, BuildTypes
  <2>4. /\ builds' = [builds EXCEPT ![b] = x] /\ runner' = [runner EXCEPT ![w] = r]
        /\ UNCHANGED <<creating, pushes, signed>>
        BY <1>5 DEF RunMark
  <2>5. runner[w].outcome = "none"
        BY <1>5 DEF RunMark, BuildInv, BuildTypes
  <2>6. builds[b] # NoBuild
        BY <2>1
  <2> HIDE DEF x, r, b
  <2>7. BuildTypes'
        BY <2>1, <2>2, <2>3, <2>4, <2>5, <2>6 DEF BuildInv, BuildTypes, Exists
  <2>8. SignedBefore'
        BY <2>1, <2>2, <2>3, <2>4, <2>5 DEF BuildInv, BuildTypes, SignedBefore, Exists
  <2>9. QED BY <2>4, <2>7, <2>8 DEF BuildInv
<1>6. ASSUME NEW w \in BuildRunners, RunUnbuilt(w) \/ RunExecute(w)
      PROVE  BuildInv' /\ signed \subseteq signed'
  <2>1. runner[w] \in RunnerRecords /\ runner[w].pc = "execute" /\ pushes \in Nat
        BY <1>6 DEF RunUnbuilt, RunExecute, BuildInv, BuildTypes
  <2>2. PICK outcome \in Outcomes \ {"none"}, digest \in Nat :
           /\ runner' = [runner EXCEPT ![w] = [runner[w] EXCEPT !.pc = "record", !.outcome = outcome,
                                                                !.digest = digest]]
           /\ signed \subseteq signed'
           /\ outcome = "passed" => digest \in signed'
    <3>1. CASE RunUnbuilt(w)
      <4>1. runner' = [runner EXCEPT ![w] = [runner[w] EXCEPT !.pc = "record", !.outcome = "error",
                                                              !.digest = runner[w].digest]]
            BY <3>1, <2>1 DEF RunUnbuilt, RunnerRecords, BuildInv, BuildTypes
      <4>2. runner[w].digest \in Nat /\ "error" \in Outcomes \ {"none"} /\ signed' = signed
            BY <3>1, <2>1 DEF RunUnbuilt, RunnerRecords, Outcomes
      <4>3. QED BY <4>1, <4>2
    <3>2. CASE RunExecute(w)
      <4>1. PICK outcome \in {"error", "unsigned", "scanFailed", "passed"} :
               /\ runner' = [runner EXCEPT ![w].pc = "record", ![w].outcome = outcome,
                                           ![w].digest = pushes']
               /\ signed' = IF outcome = "passed" THEN signed \cup {pushes'} ELSE signed
            BY <3>2 DEF RunExecute
      <4>2. outcome \in Outcomes \ {"none"} /\ pushes' \in Nat
            BY <2>1, <3>2 DEF RunExecute, Outcomes
      <4>3. runner' = [runner EXCEPT ![w] = [runner[w] EXCEPT !.pc = "record", !.outcome = outcome,
                                                              !.digest = pushes']]
            BY <4>1, <2>1 DEF RunnerRecords, BuildInv, BuildTypes
      <4>4. QED BY <4>1, <4>2, <4>3
    <3>3. QED BY <1>6, <3>1, <3>2
  <2> DEFINE r == [runner[w] EXCEPT !.pc = "record", !.outcome = outcome, !.digest = digest]
  <2>3. r \in RunnerRecords /\ r.pc = "record" /\ r.build = runner[w].build /\ r.outcome = outcome
           /\ r.digest = digest
        BY <2>1, <2>2 DEF RunnerRecords
  <2>4. runner' = [runner EXCEPT ![w] = r] /\ UNCHANGED <<builds, creating>> /\ pushes' \in Nat
        BY <1>6, <2>1, <2>2 DEF RunUnbuilt, RunExecute
  <2> HIDE DEF r
  <2>5. BuildTypes'
        BY <2>1, <2>2, <2>3, <2>4 DEF BuildInv, BuildTypes, Exists
  <2>6. SignedBefore'
        BY <2>2, <2>3, <2>4 DEF BuildInv, BuildTypes, SignedBefore, Exists
  <2>7. QED BY <2>2, <2>5, <2>6 DEF BuildInv
<1>7. ASSUME NEW w \in BuildRunners, RunRecord(w)
      PROVE  BuildInv' /\ signed \subseteq signed'
  <2> DEFINE b == runner[w].build
  <2> DEFINE x == buildResultUpdate(builds[b], runner[w].outcome, runner[w].digest)
  <2>1. b \in Ids /\ builds[b] \in BuildRecords
        BY <1>7 DEF RunRecord, Exists, BuildInv, BuildTypes
  <2>2. runner[w].outcome \in Outcomes \ {"none"} /\ runner[w].digest \in Nat
        BY <1>7 DEF RunRecord, BuildInv, BuildTypes, RunnerRecords
  <2>3. /\ x \in BuildRecords
        /\ x.status = "succeeded" => runner[w].outcome = "passed" /\ x.digest = runner[w].digest
    <3> DEFINE o == runner[w].outcome
               d == runner[w].digest
               z == builds[b]
    <3>1. z \in BuildRecords /\ o \in Outcomes \ {"none"} /\ d \in Nat
        BY <2>1, <2>2
    <3> HIDE DEF o, d, z
    <3>2. LET y == buildResultUpdate(z, o, d)
          IN  y \in BuildRecords /\ (y.status = "succeeded" => o = "passed" /\ y.digest = d)
        BY <3>1, ResultUpdate
    <3>3. QED BY <3>2 DEF o, d, z
  <2>4. /\ builds' = [builds EXCEPT ![b] = x] /\ runner' = [runner EXCEPT ![w] = RunnerIdle]
        /\ UNCHANGED <<creating, pushes, signed>>
        BY <1>7 DEF RunRecord
  <2> HIDE DEF x, b
  <2>5. BuildTypes'
        BY <1>i, <2>1, <2>3, <2>4 DEF BuildInv, BuildTypes, Exists
  <2>6. SignedBefore'
        BY <1>i, <2>1, <2>3, <2>4 DEF BuildInv, BuildTypes, SignedBefore, Exists
  <2>7. QED BY <2>4, <2>5, <2>6 DEF BuildInv
<1>8. ASSUME NEW w \in BuildRunners, RunStop(w)
      PROVE  BuildInv' /\ signed \subseteq signed'
  <2>1. runner' = [runner EXCEPT ![w] = RunnerIdle] /\ UNCHANGED <<builds, creating, pushes, signed>>
        BY <1>8 DEF RunStop
  <2>2. BuildTypes'
        BY <1>i, <2>1 DEF BuildInv, BuildTypes, Exists
  <2>3. SignedBefore'
        BY <1>i, <2>1 DEF BuildInv, BuildTypes, SignedBefore, Exists
  <2>4. QED BY <2>1, <2>2, <2>3 DEF BuildInv
<1>9. ASSUME HarborChanges
      PROVE  BuildInv' /\ signed \subseteq signed'
  <2>1. pushes' \in Nat /\ UNCHANGED <<builds, creating, runner, signed>>
        BY <1>9 DEF HarborChanges, BuildInv, BuildTypes
  <2>2. QED BY <2>1 DEF BuildInv, BuildTypes, SignedBefore, Exists
<1>10. QED BY <1>1, <1>2, <1>3, <1>4, <1>5, <1>6, <1>7, <1>8, <1>9 DEF BuildsNext
(* No step takes a build that is cancelled and in no runner's hands out of   *)
(* that state: a runner only writes the build it has, and picks only a       *)
(* queued one.                                                               *)
LEMMA CancelledStays ==
    ASSUME BuildInv, BuildsNext, NEW b \in Ids, CancelledFree(b)
    PROVE  CancelledFree(b)'
<1> USE BuildsAssumption
<1>0. /\ Exists(b) /\ builds[b] \in BuildRecords /\ builds[b].status = "cancelled"
      /\ \A w \in BuildRunners : runner[w].build # b
      /\ b # 0
      BY DEF CancelledFree, Exists, BuildInv, BuildTypes, Ids
<1>1. ASSUME NEW c \in BuildCallers, CreateAdmit(c) \/ CreateCount(c) \/ CreateBuild(c)
      PROVE  CancelledFree(b)'
  <2>1. builds'[b] = builds[b] /\ runner' = runner
        BY <1>0, <1>1 DEF CreateAdmit, CreateCount, CreateBuild, BuildInv, BuildTypes
  <2>2. QED BY <1>0, <2>1 DEF CancelledFree, Exists
<1>2. ASSUME NEW a \in Ids, NEW keyed \in BOOLEAN, CancelBuild(a, keyed)
      PROVE  CancelledFree(b)'
  <2>1. builds'[b].status = "cancelled" /\ builds'[b] \in BuildRecords /\ runner' = runner
    <3>1. CASE a = b
          BY <1>0, <1>2, <3>1 DEF CancelBuild, BuildRecords, BuildStatuses, BuildInv, BuildTypes
    <3>2. CASE a # b
          BY <1>0, <1>2, <3>2 DEF CancelBuild, BuildInv, BuildTypes
    <3>3. QED BY <3>1, <3>2
  <2>2. QED BY <1>0, <2>1 DEF CancelledFree, Exists
<1>3. ASSUME NEW w \in BuildRunners, RunPick(w)
      PROVE  CancelledFree(b)'
  <2>1. PICK a \in queuedBuilds : runner' = [runner EXCEPT ![w] = Running("mark", a)]
        BY <1>3 DEF RunPick
  <2>2. a # b /\ Running("mark", a).build = a /\ builds' = builds
        BY <1>0, <1>3, <2>1 DEF queuedBuilds, Running, RunPick
  <2>3. QED BY <1>0, <2>1, <2>2 DEF CancelledFree, Exists, BuildInv, BuildTypes
<1>4. ASSUME NEW w \in BuildRunners,
             RunMark(w) \/ RunUnbuilt(w) \/ RunExecute(w) \/ RunRecord(w) \/ RunStop(w)
      PROVE  CancelledFree(b)'
  <2>1. builds'[b] = builds[b]
        BY <1>0, <1>4 DEF RunMark, RunUnbuilt, RunExecute, RunRecord, RunStop, BuildInv, BuildTypes
  <2>2. runner'[w].build \in {runner[w].build, 0}
    <3>1. runner[w] \in RunnerRecords /\ RunnerIdle.build = 0
          BY DEF BuildInv, BuildTypes, RunnerIdle, Running
    <3>2. CASE RunMark(w)
          BY <3>1, <3>2 DEF RunMark, RunnerRecords, BuildInv, BuildTypes
    <3>3. CASE RunUnbuilt(w)
          BY <3>1, <3>3 DEF RunUnbuilt, RunnerRecords, BuildInv, BuildTypes
    <3>4. CASE RunExecute(w)
          BY <3>1, <3>4 DEF RunExecute, RunnerRecords, BuildInv, BuildTypes
    <3>5. CASE RunRecord(w) \/ RunStop(w)
          BY <3>1, <3>5 DEF RunRecord, RunStop, BuildInv, BuildTypes
    <3>6. QED BY <1>4, <3>2, <3>3, <3>4, <3>5
  <2>3. ASSUME NEW v \in BuildRunners, v # w PROVE runner'[v] = runner[v]
        BY <1>4, <2>3 DEF RunMark, RunUnbuilt, RunExecute, RunRecord, RunStop, BuildInv, BuildTypes
  <2>4. QED BY <1>0, <2>1, <2>2, <2>3 DEF CancelledFree, Exists
<1>5. ASSUME HarborChanges PROVE CancelledFree(b)'
      BY <1>5 DEF HarborChanges, CancelledFree, Exists
<1>6. QED BY <1>1, <1>2, <1>3, <1>4, <1>5 DEF BuildsNext

(* The catalogue.                                                            *)

\* There is neither a tag nor a rule.
LEMMA ImageInvInit == ImageInit => ImageInv
<1>1. SUFFICES ASSUME ImageInit PROVE ImageInv
      OBVIOUS
<1>2. AtRest \in [pc : {"idle", "publish", "unpublish"}, left : SUBSET ImageProjects,
                  seen : TagRecords \cup {NoTag}] /\ AtRest.pc = "idle"
      BY DEF AtRest
<1>3. GatedSigned
      BY <1>1, <1>2 DEF ImageInit, CatalogInit, GatedSigned
<1>4. BuildInv
      BY <1>1, BuildInvInit DEF ImageInit
<1>5. harbor \in Artifacts /\ Missing \in Artifacts
      BY <1>1 DEF ImageInit, BuildsInit, Artifacts, Missing
<1>6. QED BY <1>1, <1>3, <1>4, <1>5 DEF ImageInit, CatalogInit, ImageInv

(* A row that passes the provenance gate has a succeeded build of its digest,*)
(* and so a signed digest.                                                   *)
LEMMA GateSeesSigned ==
    ASSUME BuildInv, NEW t, ~buildProvenanceRejection(t)
    PROVE  t.digest \in signed
<1>1. PICK b \in DOMAIN builds : /\ builds[b] # NoBuild /\ builds[b].digest = t.digest
                                 /\ builds[b].status = "succeeded"
      BY DEF buildProvenanceRejection
<1>2. b \in Ids
      BY <1>1 DEF BuildInv, BuildTypes
<1>3. QED BY <1>1, <1>2 DEF BuildInv, SignedBefore, Exists

(* The publisher and the rules, while the signed digests only grow.          *)
LEMMA GatedFrame ==
    ASSUME GatedSigned, UNCHANGED <<publisher, rules>>, signed \subseteq signed'
    PROVE  GatedSigned'
BY DEF GatedSigned

\* The steps of the catalogue leave the builds alone.
LEMMA BuildFrame ==
    ASSUME BuildInv, UNCHANGED buildVars
    PROVE  BuildInv' /\ signed' = signed /\ harbor' = harbor
BY DEF BuildInv, BuildTypes, SignedBefore, Exists, buildVars

\* A push leaves an artifact under the tag.
LEMMA HarborStep ==
    ASSUME harbor \in Artifacts, pushes \in Nat, BuildsNext
    PROVE  harbor' \in Artifacts
<1>1. CASE HarborChanges
      BY <1>1 DEF HarborChanges, Artifacts
<1>2. ASSUME NEW w \in BuildRunners, RunExecute(w) PROVE harbor' \in Artifacts
      BY <1>2 DEF RunExecute, Artifacts
<1>3. CASE UNCHANGED harbor
      BY <1>3
<1>4. QED BY <1>1, <1>2, <1>3 DEF BuildsNext, CreateAdmit, CreateCount, CreateBuild, CancelBuild,
             RunPick, RunMark, RunUnbuilt, RunRecord, RunStop
(* The sync writes what Harbor had; it touches no rule.                      *)
LEMMA SyncStep ==
    ASSUME ImageInv, SyncRequest \/ retryHarborCatalogSync \/ SyncFind \/ SyncWrite
    PROVE  ImageInv'
<1> DEFINE S == [pc : {"idle", "find", "write"},
                 status : {"none", "sync_requested", "degraded", "synced"}, artifact : Artifacts]
<1>1. syncing \in S /\ harbor \in Artifacts /\ tag \in TagRecords \cup {NoTag} /\ Missing \in Artifacts
      BY DEF ImageInv, Missing, Artifacts
<1>2. syncing' \in S
      BY <1>1 DEF SyncRequest, retryHarborCatalogSync, SyncFind, SyncWrite
<1>3. tag' \in TagRecords \cup {NoTag}
  <2>1. CASE SyncWrite
    <3>1. ASSUME NEW attested \in BOOLEAN
          PROVE  harborCatalogRecord(syncing.artifact, attested) \in TagRecords
          BY <1>1 DEF harborCatalogRecord, TagRecords, Artifacts
    <3>2. tag # NoTag => [tag EXCEPT !.deleted = TRUE] \in TagRecords
          BY <1>1 DEF TagRecords
    <3>3. QED BY <2>1, <3>1, <3>2 DEF SyncWrite
  <2>2. CASE tag' = tag
        BY <1>1, <2>2
  <2>3. QED BY <2>1, <2>2 DEF SyncRequest, retryHarborCatalogSync, SyncFind
<1>4. UNCHANGED <<buildVars, publisher, rules>>
      BY DEF SyncRequest, retryHarborCatalogSync, SyncFind, SyncWrite
<1>5. BuildInv' /\ GatedSigned' /\ harbor' \in Artifacts
      BY <1>1, <1>4, BuildFrame, GatedFrame DEF ImageInv
<1>6. QED BY <1>2, <1>3, <1>5 DEF ImageInv

(* Publishing and unpublishing, step by step, and the deletes.               *)
LEMMA RuleStep ==
    ASSUME ImageInv,
           \/ PublishGate \/ Unpublish \/ PublisherError \/ deleteCatalogArtifact
           \/ \E p \in ImageProjects : PublishRule(p) \/ UnpublishRule(p) \/ RemoveRule(p)
    PROVE  ImageInv'
<1> DEFINE P == [pc : {"idle", "publish", "unpublish"}, left : SUBSET ImageProjects,
                 seen : TagRecords \cup {NoTag}]
<1>1. /\ publisher \in P /\ tag \in TagRecords \cup {NoTag}
      /\ publisher.pc = "publish" => publisher.seen # NoTag /\ publisher.seen.digest \in signed
      /\ rules \in [ImageProjects -> RuleRecords \cup {NoRule}]
      /\ \A p \in ImageProjects : rules[p] # NoRule => rules[p].gated \in signed
      BY DEF ImageInv, GatedSigned
<1>2. UNCHANGED buildVars /\ UNCHANGED syncing /\ tag' \in {tag, NoTag}
      BY DEF PublishGate, Unpublish, PublisherError, deleteCatalogArtifact, PublishRule,
             UnpublishRule, RemoveRule
<1>3. BuildInv' /\ harbor' = harbor /\ signed' = signed
      BY <1>2, BuildFrame DEF ImageInv
<1>4. SUFFICES GatedSigned'
      BY <1>1, <1>2, <1>3 DEF ImageInv
<1>5. AtRest \in P /\ AtRest.pc = "idle"
      BY DEF AtRest
<1>6. CASE PublishGate
  <2>1. tag # NoTag /\ tag.digest \in signed
        BY <1>6, GateSeesSigned DEF PublishGate, catalogAllowListRejection, ImageInv
  <2>2. PICK chosen \in SUBSET ImageProjects :
           publisher' = [pc |-> "publish", left |-> chosen, seen |-> tag]
        BY <1>6 DEF PublishGate
  <2>3. publisher' \in P /\ publisher'.seen = tag
        BY <1>1, <2>2
  <2>4. rules' = rules
        BY <1>6 DEF PublishGate
  <2>5. QED BY <1>1, <1>3, <2>1, <2>3, <2>4 DEF GatedSigned
<1>7. CASE Unpublish
  <2>1. publisher' \in P /\ publisher'.pc = "unpublish" /\ rules' = rules
        BY <1>7 DEF Unpublish
  <2>2. QED BY <1>1, <1>3, <2>1 DEF GatedSigned
<1>8. CASE PublisherError
      BY <1>1, <1>3, <1>5, <1>8 DEF PublisherError, GatedSigned
<1>9. CASE deleteCatalogArtifact
      BY <1>1, <1>3, <1>9 DEF deleteCatalogArtifact, GatedSigned
<1>10. ASSUME NEW p \in ImageProjects, PublishRule(p) \/ UnpublishRule(p) \/ RemoveRule(p)
       PROVE  GatedSigned'
  <2>1. publisher'.pc = "publish" => publisher'.seen # NoTag /\ publisher'.seen.digest \in signed
    <3>1. CASE publisher' = publisher \/ publisher' = AtRest
          BY <1>1, <1>5, <3>1
    <3>2. CASE publisher' = [publisher EXCEPT !.left = @ \ {p}]
          BY <1>1, <3>2
    <3>3. QED BY <1>10, <3>1, <3>2 DEF PublishRule, UnpublishRule, RemoveRule
  <2>2. publisher' \in P
    <3>1. CASE publisher' = publisher \/ publisher' = AtRest
          BY <1>1, <1>5, <3>1
    <3>2. CASE publisher' = [publisher EXCEPT !.left = @ \ {p}]
          BY <1>1, <3>2
    <3>3. QED BY <1>10, <3>1, <3>2 DEF PublishRule, UnpublishRule, RemoveRule
  <2>3. PICK rule \in RuleRecords \cup {NoRule} :
           /\ rules' = [rules EXCEPT ![p] = rule]
           /\ rule # NoRule => rule.gated \in signed
    <3>1. CASE PublishRule(p)
      <4>1. allowRuleFromCatalog(p) \in RuleRecords \cup {NoRule}
        <5>1. publisher.seen.digest \in Nat
              BY <1>1, <3>1 DEF PublishRule, TagRecords
        <5>2. QED BY <1>1, <5>1 DEF allowRuleFromCatalog, RuleRecords, TagRecords
      <4>2. allowRuleFromCatalog(p) # NoRule => allowRuleFromCatalog(p).gated \in signed
            BY <1>1, <3>1 DEF allowRuleFromCatalog, PublishRule
      <4>3. QED BY <3>1, <4>1, <4>2 DEF PublishRule
    <3>2. CASE UnpublishRule(p) \/ RemoveRule(p)
          BY <3>2 DEF UnpublishRule, RemoveRule
    <3>3. QED BY <1>10, <3>1, <3>2
  <2>4. QED BY <1>1, <1>3, <2>1, <2>2, <2>3 DEF GatedSigned
<1>11. QED BY <1>6, <1>7, <1>8, <1>9, <1>10

\* Every step of builds and catalogue keeps the invariant.
LEMMA ImageInvNext == ImageInv /\ [ImageNext]_imageVars => ImageInv'
<1> SUFFICES ASSUME ImageInv, [ImageNext]_imageVars PROVE ImageInv'
    OBVIOUS
<1>1. CASE BuildsNext /\ UNCHANGED catalogVars
  <2>1. BuildInv' /\ signed \subseteq signed' /\ harbor' \in Artifacts
        BY <1>1, BuildInvNext, HarborStep DEF ImageInv, BuildInv, BuildTypes
  <2>2. UNCHANGED <<tag, syncing, publisher, rules>>
        BY <1>1 DEF catalogVars
  <2>3. GatedSigned'
        BY <2>1, <2>2, GatedFrame DEF ImageInv
  <2>4. QED BY <2>1, <2>2, <2>3 DEF ImageInv
<1>2. CASE SyncRequest \/ retryHarborCatalogSync \/ SyncFind \/ SyncWrite
      BY <1>2, SyncStep
<1>3. CASE \/ PublishGate \/ Unpublish \/ PublisherError \/ deleteCatalogArtifact
           \/ \E p \in ImageProjects : PublishRule(p) \/ UnpublishRule(p) \/ RemoveRule(p)
      BY <1>3, RuleStep
<1>4. CASE UNCHANGED <<buildVars, tag, syncing, publisher, rules>>
  <2>1. BuildInv' /\ harbor' = harbor /\ GatedSigned'
        BY <1>4, BuildFrame, GatedFrame DEF ImageInv
  <2>2. QED BY <1>4, <2>1 DEF ImageInv
<1>5. ASSUME NEW p \in ImageProjects,
             \/ RequestImage(p) \/ upsertApprovedRule(p)
             \/ \E s \in {"approved", "rejected", "pending"} : setImageRequestStatus(p, s)
      PROVE  UNCHANGED <<buildVars, tag, syncing, publisher, rules>>
      BY <1>5 DEF RequestImage, upsertApprovedRule, setImageRequestStatus
<1>6. CASE UNCHANGED imageVars
      BY <1>4, <1>6 DEF imageVars, catalogVars
<1>7. QED BY <1>1, <1>2, <1>3, <1>4, <1>5, <1>6 DEF ImageNext, CatalogNext

(* Every rule publishCatalog writes for the digest its gate saw, and every   *)
(* build that reads "succeeded", is for an image that passed the scan and    *)
(* was signed: with any number of runners that overlap, builds cancelled     *)
(* and run again, pushes past the platform and rules written one by one.     *)
THEOREM PublishedIsVerified == ImageSpec => []PublishedVerified
<1>1. ImageInv => PublishedVerified
      BY DEF ImageInv, GatedSigned, BuildInv, BuildTypes, SignedBefore, PublishedVerified, Exists
<1>2. QED BY <1>1, ImageInvInit, ImageInvNext, PTL DEF ImageSpec

(* A build that is cancelled while no runner has it stays cancelled, and no  *)
(* runner picks it up, whatever the create and cancel handlers, the runners  *)
(* and the catalogue do.                                                     *)
THEOREM CancelledIsKept == ImageSpec => CancelKept
<1>1. ImageInv /\ [ImageNext]_imageVars =>
         [\A b \in Ids : CancelledFree(b) => CancelledFree(b)']_buildVars
  <2> SUFFICES ASSUME ImageInv, [ImageNext]_imageVars, ~UNCHANGED buildVars
               PROVE  \A b \in Ids : CancelledFree(b) => CancelledFree(b)'
      OBVIOUS
  <2>1. CASE BuildsNext
        BY <2>1, CancelledStays DEF ImageInv
  <2>2. CASE CatalogNext
        BY <2>2 DEF CatalogNext, SyncRequest, retryHarborCatalogSync, SyncFind, SyncWrite, PublishGate,
             Unpublish, PublisherError, deleteCatalogArtifact, PublishRule, UnpublishRule, RemoveRule,
             RequestImage, upsertApprovedRule, setImageRequestStatus
  <2>3. QED BY <2>1, <2>2 DEF ImageNext, imageVars
<1>2. QED BY <1>1, ImageInvInit, ImageInvNext, PTL DEF ImageSpec, CancelKept

-----------------------------------------------------------------------------
(* Reservations.                                                             *)

\* Where requests do not overlap: at most one request is between its read and
\* its update, and the move it is about to make is still allowed.
SerialInv ==
    \A i \in Reservations \ Overlap :
        /\ \A q \in Serving(i) : transitionAllowed(state[i], req[q].want)
        /\ \A p, q \in Serving(i) : p = q

IInv == TypeOK /\ LedgerFollowsEvents /\ OkIsAnnounced /\ SerialInv

\* The last place of a sequence is one of its places.
LEMMA LastInDomain ==
    ASSUME NEW S, NEW t \in Seq(S), t # << >>
    PROVE  Len(t) \in DOMAIN t
  OBVIOUS

\* What a transaction does to the record and the outbox.
LEMMA WriteStep ==
    ASSUME TypeOK, LedgerFollowsEvents, NEW i \in Reservations, NEW s \in ReservationStates \ {"none"},
           Write(i, s)
    PROVE  /\ state' \in [Reservations -> ReservationStates]
           /\ version' \in [Reservations -> Nat]
           /\ events' \in [Reservations -> Seq(ReservationStates)]
           /\ LedgerFollowsEvents'
           /\ \A j \in Reservations \ {i} : state'[j] = state[j] /\ events'[j] = events[j]
           /\ state'[i] = s /\ events'[i] = Append(events[i], s)
  <1>1. /\ state' \in [Reservations -> ReservationStates]
        /\ version' \in [Reservations -> Nat]
        /\ events' \in [Reservations -> Seq(ReservationStates)]
    BY DEF TypeOK, Write
  <1>2. /\ \A j \in Reservations \ {i} : /\ state'[j] = state[j] /\ events'[j] = events[j]
                                         /\ version'[j] = version[j]
        /\ state'[i] = s /\ events'[i] = Append(events[i], s) /\ version'[i] = version[i] + 1
    BY DEF TypeOK, Write
  <1>3. events[i] \in Seq(ReservationStates) /\ version[i] = Len(events[i])
    BY DEF TypeOK, LedgerFollowsEvents
  <1>4. /\ Len(events'[i]) = Len(events[i]) + 1
        /\ events'[i][Len(events[i]) + 1] = s
        /\ events'[i] # << >>
    BY <1>2, <1>3
  <1>5. LedgerFollowsEvents'
    BY <1>2, <1>3, <1>4, ZenonT(30) DEF LedgerFollowsEvents
  <1> QED  BY <1>1, <1>2, <1>5

\* What was announced stays announced.
LEMMA AnnouncedStays ==
    ASSUME TypeOK, NEW i \in Reservations, NEW s \in ReservationStates,
           events' = [events EXCEPT ![i] = Append(@, s)]
    PROVE  /\ \A j \in Reservations : \A n \in DOMAIN events[j] :
                  n \in DOMAIN events'[j] /\ events'[j][n] = events[j][n]
           /\ \E n \in DOMAIN events'[i] : events'[i][n] = s
  <1>1. \A j \in Reservations : events[j] \in Seq(ReservationStates)
    BY DEF TypeOK
  <1>2. \A j \in Reservations \ {i} : events'[j] = events[j]
    BY DEF TypeOK
  <1>3. events'[i] = Append(events[i], s)
    BY DEF TypeOK
  <1>4. /\ \A n \in DOMAIN events[i] : n \in DOMAIN events'[i] /\ events'[i][n] = events[i][n]
        /\ Len(events[i]) + 1 \in DOMAIN events'[i] /\ events'[i][Len(events[i]) + 1] = s
    BY <1>1, <1>3
  <1> QED  BY <1>2, <1>4

\* The initial states satisfy the invariant.
LEMMA InitInv == Init => IInv
  <1> SUFFICES ASSUME Init PROVE IInv
    OBVIOUS
  <1>1. TypeOK
    BY DEF Init, TypeOK, ReservationStates
  <1>2. LedgerFollowsEvents
    BY DEF Init, LedgerFollowsEvents
  <1>3. OkIsAnnounced
    BY DEF Init, OkIsAnnounced
  <1>4. SerialInv
    BY DEF Init, SerialInv, Serving
  <1> QED  BY <1>1, <1>2, <1>3, <1>4 DEF IInv

\* An answer puts the request out of service and leaves the others alone.
LEMMA AnswerStep ==
    ASSUME TypeOK, NEW q \in Requests, NEW i \in Reservations, NEW s \in Moves,
           NEW a \in Answers, Answer(q, i, s, a)
    PROVE  /\ req' \in [Requests -> Local]
           /\ \A p \in Requests \ {q} : req'[p] = req[p]
           /\ req'[q].pc = "idle" /\ req'[q].id = i /\ req'[q].want = s /\ req'[q].answer = a
           /\ \A j \in Reservations : Serving(j)' = Serving(j) \ {q}
  <1>1. [pc |-> "idle", id |-> i, want |-> s, answer |-> a] \in Local
    BY DEF Local
  <1>2. /\ req' \in [Requests -> Local]
        /\ \A p \in Requests \ {q} : req'[p] = req[p]
        /\ req'[q] = [pc |-> "idle", id |-> i, want |-> s, answer |-> a]
    BY <1>1 DEF TypeOK, Answer
  <1> QED  BY <1>2 DEF Serving

\* A new reservation.
LEMMA ReserveStep ==
    ASSUME IInv, NEW i \in Reservations, Reserve(i)
    PROVE  IInv'
  <1>0. "reserved" \in ReservationStates \ {"none"}
    BY DEF ReservationStates
  <1>1. /\ TypeOK /\ LedgerFollowsEvents /\ OkIsAnnounced /\ SerialInv
        /\ Write(i, "reserved") /\ req' = req /\ state[i] = "none"
    BY DEF IInv, Reserve
  <1>2. TypeOK' /\ LedgerFollowsEvents'
    BY <1>0, <1>1, WriteStep DEF TypeOK
  <1>3. OkIsAnnounced'
    <2>1. \A j \in Reservations : \A n \in DOMAIN events[j] :
              n \in DOMAIN events'[j] /\ events'[j][n] = events[j][n]
      BY <1>0, <1>1, AnnouncedStays DEF Write
    <2>2. \A q \in Requests : req[q].id \in Reservations
      BY <1>1 DEF TypeOK, Local
    <2> QED  BY <1>1, <2>1, <2>2 DEF OkIsAnnounced
  <1>4. SerialInv'
    <2>1. \A j \in Reservations \ {i} : state'[j] = state[j]
      BY <1>0, <1>1, WriteStep
    <2>2. \A j \in Reservations : Serving(j)' = Serving(j)
      BY <1>1 DEF Serving
    <2>3. i \notin Overlap => Serving(i) = {}
      BY <1>1 DEF SerialInv, transitionAllowed
    <2> QED  BY <1>1, <2>1, <2>2, <2>3 DEF SerialInv
  <1> QED  BY <1>2, <1>3, <1>4 DEF IInv

\* The first half of a handler writes nothing.
LEMMA ReadStep ==
    ASSUME IInv, NEW q \in Requests, NEW i \in Reservations, NEW s \in Moves, Read(q, i, s)
    PROVE  IInv'
  <1>1. /\ TypeOK /\ LedgerFollowsEvents /\ OkIsAnnounced /\ SerialInv
        /\ state' = state /\ version' = version /\ events' = events
        /\ req[q].pc = "idle" /\ (i \in Overlap \/ Serving(i) = {})
    BY DEF IInv, Read
  <1>2. LedgerFollowsEvents'
    BY <1>1 DEF LedgerFollowsEvents
  <1>3. ASSUME NEW a \in Answers, Answer(q, i, s, a), a = "ok" => state[i] = s
        PROVE  TypeOK' /\ OkIsAnnounced' /\ SerialInv'
    <2>1. TypeOK'
      BY <1>1, <1>3, AnswerStep DEF TypeOK
    <2>2. a = "ok" => \E n \in DOMAIN events[i] : events[i][n] = s
      <3>1. a = "ok" => events[i] # << >> /\ events[i][Len(events[i])] = s
        BY <1>1, <1>3 DEF LedgerFollowsEvents, Moves
      <3>2. events[i] \in Seq(ReservationStates)
        BY <1>1 DEF TypeOK
      <3>3. events[i] # << >> => Len(events[i]) \in DOMAIN events[i]
        BY <3>2, LastInDomain
      <3> QED  BY <3>1, <3>3
    <2>3. OkIsAnnounced'
      <3>1. /\ \A p \in Requests \ {q} : req'[p] = req[p]
            /\ req'[q].id = i /\ req'[q].want = s /\ req'[q].answer = a
        BY <1>1, <1>3, AnswerStep
      <3> QED  BY <1>1, <2>2, <3>1 DEF OkIsAnnounced
    <2>4. SerialInv'
      <3>1. \A j \in Reservations : Serving(j)' = Serving(j) \ {q}
        BY <1>1, <1>3, AnswerStep
      <3>2. \A p \in Requests \ {q} : req'[p] = req[p]
        BY <1>1, <1>3, AnswerStep
      <3>3. \A j \in Reservations : \A p \in Serving(j)' : p \in Serving(j) /\ req'[p] = req[p]
        BY <3>1, <3>2 DEF Serving
      <3> QED  BY <1>1, <3>3 DEF SerialInv
    <2> QED  BY <2>1, <2>3, <2>4
  <1>4. ASSUME transitionAllowed(state[i], s),
               req' = [req EXCEPT ![q] = [pc |-> "update", id |-> i, want |-> s, answer |-> "none"]]
        PROVE  TypeOK' /\ OkIsAnnounced' /\ SerialInv'
    <2> DEFINE u == [pc |-> "update", id |-> i, want |-> s, answer |-> "none"]
    <2>1. u \in Local /\ u.id = i /\ u.want = s /\ u.answer # "ok"
      BY DEF Local, Answers
    <2>a. req' = [req EXCEPT ![q] = u]
      BY <1>4
    <2> HIDE DEF u
    <2>2. /\ req' \in [Requests -> Local]
          /\ \A p \in Requests \ {q} : req'[p] = req[p]
          /\ req'[q] = u
      BY <1>1, <2>1, <2>a DEF TypeOK
    <2>3. ASSUME NEW j \in Reservations, NEW p \in Serving(j)'
          PROVE  IF p = q THEN j = i ELSE p \in Serving(j) /\ req'[p] = req[p]
      BY <2>1, <2>2, <2>3 DEF Serving
    <2>4. SerialInv'
      <3>1. ASSUME NEW j \in Reservations \ Overlap, NEW p \in Serving(j)'
            PROVE  transitionAllowed(state[j], req'[p].want)
        <4>1. CASE p = q
          <5>1. j = i
            BY <2>3, <3>1, <4>1
          <5>2. req'[p].want = s
            BY <2>1, <2>2, <4>1
          <5> QED  BY <1>4, <5>1, <5>2
        <4>2. CASE p # q
          <5>1. p \in Serving(j) /\ req'[p] = req[p]
            BY <2>3, <3>1, <4>2
          <5> QED  BY <1>1, <3>1, <5>1 DEF SerialInv
        <4> QED  BY <4>1, <4>2
      <3>2. ASSUME NEW j \in Reservations \ Overlap, NEW p \in Serving(j)', NEW r \in Serving(j)'
            PROVE  p = r
        <4>1. \A t, v \in Serving(j) : t = v
          BY <1>1, <3>2 DEF SerialInv
        <4>2. j = i => Serving(j) = {}
          BY <1>1, <3>2
        <4>3. /\ IF p = q THEN j = i ELSE p \in Serving(j)
              /\ IF r = q THEN j = i ELSE r \in Serving(j)
          BY <2>3, <3>2
        <4> QED  BY <4>1, <4>2, <4>3
      <3> QED  BY <1>1, <3>1, <3>2 DEF SerialInv
    <2>5. TypeOK'
      BY <1>1, <2>2 DEF TypeOK
    <2>6. OkIsAnnounced'
      <3>1. req'[q].answer # "ok"
        BY <2>1, <2>2
      <3> QED  BY <1>1, <2>2, <3>1, ZenonT(30) DEF OkIsAnnounced
    <2> QED  BY <2>4, <2>5, <2>6
  <1>5. TypeOK' /\ OkIsAnnounced' /\ SerialInv'
    BY <1>3, <1>4 DEF Read, Answers
  <1> QED  BY <1>2, <1>5 DEF IInv

\* The second half of a handler: with or without its transaction, and told
\* "ok" only with it.
LEMMA UpdateStep ==
    ASSUME IInv, NEW q \in Requests, Update(q) \/ UpdateError(q)
    PROVE  IInv'
  <1>1. /\ TypeOK /\ LedgerFollowsEvents /\ OkIsAnnounced /\ SerialInv
        /\ req[q].id \in Reservations /\ req[q].want \in Moves /\ req[q].pc = "update"
    BY DEF IInv, TypeOK, Local, Update, UpdateError
  <1>2. PICK i \in Reservations, s \in Moves : i = req[q].id /\ s = req[q].want
    BY <1>1
  <1>3. s \in ReservationStates \ {"none"} /\ q \in Serving(i)
    BY <1>1, <1>2 DEF Moves, ReservationStates, Serving
  <1>4. PICK a \in {"ok", "error"} :
               /\ Answer(q, i, s, a)
               /\ \/ Write(i, s)
                  \/ a = "error" /\ state' = state /\ version' = version /\ events' = events
    BY <1>2 DEF Update, UpdateError
  <1>5. a \in Answers
    BY <1>4 DEF Answers
  <1>6. /\ req' \in [Requests -> Local]
        /\ \A p \in Requests \ {q} : req'[p] = req[p]
        /\ req'[q].id = i /\ req'[q].want = s /\ req'[q].answer = a
        /\ \A j \in Reservations : Serving(j)' = Serving(j) \ {q}
    BY <1>1, <1>4, <1>5, AnswerStep
  <1>7. \A p \in Requests : req[p].id \in Reservations
    BY <1>1 DEF TypeOK, Local
  <1>8. CASE Write(i, s)
    <2>1. TypeOK' /\ LedgerFollowsEvents'
      BY <1>1, <1>3, <1>6, <1>8, WriteStep DEF TypeOK
    <2>2. /\ \A j \in Reservations : \A n \in DOMAIN events[j] :
                 n \in DOMAIN events'[j] /\ events'[j][n] = events[j][n]
          /\ \E n \in DOMAIN events'[i] : events'[i][n] = s
      <3>1. events' = [events EXCEPT ![i] = Append(@, s)] /\ s \in ReservationStates
        BY <1>3, <1>8 DEF Write
      <3> QED  BY <1>1, <3>1, AnnouncedStays, ZenonT(30)
    <2>3. OkIsAnnounced'
      <3>1. ASSUME NEW p \in Requests \ {q}, req'[p].answer = "ok"
            PROVE  \E n \in DOMAIN events'[req'[p].id] : events'[req'[p].id][n] = req'[p].want
        <4>1. \E n \in DOMAIN events[req[p].id] : events[req[p].id][n] = req[p].want
          BY <1>1, <1>6, <3>1 DEF OkIsAnnounced
        <4>2. req'[p] = req[p] /\ req[p].id \in Reservations
          BY <1>6, <1>7
        <4>3. \E n \in DOMAIN events'[req[p].id] : events'[req[p].id][n] = req[p].want
          BY <2>2, <4>1, <4>2
        <4> QED  BY <4>2, <4>3
      <3>2. \E n \in DOMAIN events'[req'[q].id] : events'[req'[q].id][n] = req'[q].want
        BY <1>6, <2>2
      <3> QED  BY <3>1, <3>2 DEF OkIsAnnounced
    <2>4. \A j \in Reservations \ {i} : state'[j] = state[j]
      BY <1>1, <1>3, <1>8, WriteStep
    <2>5. i \notin Overlap => Serving(i)' = {}
      <3>1. i \notin Overlap => \A p \in Serving(i) : p = q
        BY <1>1, <1>3 DEF SerialInv
      <3>2. Serving(i)' = Serving(i) \ {q}
        BY <1>6
      <3> QED  BY <3>1, <3>2
    <2>6. \A j \in Reservations \ {i} : \A p \in Serving(j)' : p \in Serving(j) /\ req'[p] = req[p]
      BY <1>6 DEF Serving
    <2>7. SerialInv'
      BY <1>1, <2>4, <2>5, <2>6 DEF SerialInv
    <2> QED  BY <2>1, <2>3, <2>7 DEF IInv
  <1>9. CASE a = "error" /\ state' = state /\ version' = version /\ events' = events
    <2>1. TypeOK' /\ LedgerFollowsEvents'
      BY <1>1, <1>6, <1>9 DEF TypeOK, LedgerFollowsEvents
    <2>2. OkIsAnnounced'
      BY <1>1, <1>6, <1>9 DEF OkIsAnnounced
    <2>3. \A j \in Reservations : \A p \in Serving(j)' : p \in Serving(j) /\ req'[p] = req[p]
      BY <1>6 DEF Serving
    <2>4. SerialInv'
      BY <1>1, <1>9, <2>3 DEF SerialInv
    <2> QED  BY <2>1, <2>2, <2>4 DEF IInv
  <1> QED  BY <1>4, <1>8, <1>9

\* The invariant is inductive.
LEMMA NextInv == IInv /\ [Next]_vars => IInv'
  <1> SUFFICES ASSUME IInv, [Next]_vars PROVE IInv'
    OBVIOUS
  <1>1. CASE UNCHANGED vars
    BY <1>1 DEF IInv, TypeOK, LedgerFollowsEvents, OkIsAnnounced, SerialInv, Serving, vars
  <1>2. CASE Next
    BY <1>2, ReserveStep, ReadStep, UpdateStep DEF Next
  <1> QED  BY <1>1, <1>2

-----------------------------------------------------------------------------

\* The invariant holds in every reachable state.
THEOREM ReservationInvariance == Spec => []IInv
  <1> QED  BY InitInv, NextInv, PTL DEF Spec

\* Every variable keeps its type.
THEOREM ReservationTypes == Spec => []TypeOK
  <1>1. IInv => TypeOK
    BY DEF IInv
  <1> QED  BY <1>1, ReservationInvariance, PTL

\* Record and outbox agree however many handlers of reservation.go overlap.
THEOREM RecordsAgree == Spec => []LedgerFollowsEvents
  <1>1. IInv => LedgerFollowsEvents
    BY DEF IInv
  <1> QED  BY <1>1, ReservationInvariance, PTL

\* A transition answered with 200 has been announced.
THEOREM AnswersHold == Spec => []OkIsAnnounced
  <1>1. IInv => OkIsAnnounced
    BY DEF IInv
  <1> QED  BY <1>1, ReservationInvariance, PTL

-----------------------------------------------------------------------------
(* The refinement.                                                         *)

\* The events of the reservations whose requests do not overlap.
Announced == [i \in Reservations \ Overlap |-> events[i]]

\* A transaction is a move in the ledger of its reservation, or touches none.
LEMMA WriteRecords ==
    ASSUME TypeOK, NEW i \in Reservations, NEW s \in ReservationStates, Write(i, s)
    PROVE  /\ i \in Overlap => Announced' = Announced
           /\ i \notin Overlap => Announced' = [Announced EXCEPT ![i] = Append(@, s)]
  <1>1. /\ \A j \in Reservations \ {i} : events'[j] = events[j]
        /\ events'[i] = Append(events[i], s)
    BY DEF TypeOK, Write
  <1> QED  BY <1>1 DEF Announced

\* The state of a record is the last move in its ledger.
LEMMA StandingIsState ==
    ASSUME IInv, NEW i \in Reservations \ Overlap
    PROVE  Ledger!Standing(i) = state[i]
  <1>1. Announced[i] = events[i]
    BY DEF Announced
  <1> QED  BY <1>1 DEF IInv, LedgerFollowsEvents, Ledger!Standing, Announced

\* Where requests for a reservation do not overlap, the handlers of
\* reservation.go implement the ledger: every move is allowed by the one
\* before it, and none comes after a release.
THEOREM Refinement == Spec => ImplementsLedger
  <1>1. Init => Ledger!Init
    BY DEF Init, Ledger!Init
  <1>2. IInv /\ [Next]_vars => [Ledger!Next]_Announced
    <2> SUFFICES ASSUME IInv, [Next]_vars, Announced' # Announced
                 PROVE  Ledger!Next
      OBVIOUS
    <2>1. TypeOK /\ SerialInv
      BY DEF IInv
    <2>2. ASSUME NEW i \in Reservations, Reserve(i)
          PROVE  Ledger!Next
      <3>1. "reserved" \in ReservationStates
        BY DEF ReservationStates
      <3>2. Write(i, "reserved") /\ state[i] = "none"
        BY <2>2 DEF Reserve
      <3>3. i \notin Overlap /\ Announced' = [Announced EXCEPT ![i] = Append(@, "reserved")]
        BY <2>1, <3>1, <3>2, WriteRecords
      <3>4. Ledger!Standing(i) = "none"
        BY <3>2, <3>3, StandingIsState
      <3> QED  BY <3>3, <3>4 DEF Ledger!Next, Ledger!Reserve, Ledger!Record, Announced
    <2>3. ASSUME NEW q \in Requests, NEW i \in Reservations, NEW s \in Moves, Read(q, i, s)
          PROVE  Ledger!Next
      BY <2>3 DEF Read, Announced
    <2>4. ASSUME NEW q \in Requests, Update(q) \/ UpdateError(q)
          PROVE  Ledger!Next
      <3>1. req[q].id \in Reservations /\ req[q].want \in Moves /\ req[q].pc = "update"
        BY <2>1, <2>4 DEF TypeOK, Local, Update, UpdateError
      <3>2. PICK i \in Reservations, s \in Moves : i = req[q].id /\ s = req[q].want
        BY <3>1
      <3>3. Write(i, s)
        BY <2>4, <3>2 DEF Update, UpdateError, Announced
      <3>4. s \in ReservationStates
        BY DEF Moves, ReservationStates
      <3>5. i \notin Overlap /\ Announced' = [Announced EXCEPT ![i] = Append(@, s)]
        BY <2>1, <3>3, <3>4, WriteRecords
      <3>6. transitionAllowed(state[i], s)
        BY <2>1, <3>1, <3>2, <3>5 DEF SerialInv, Serving
      <3>7. Ledger!Standing(i) = state[i]
        BY <3>5, StandingIsState
      <3>8. CASE s = "committed"
        BY <3>5, <3>6, <3>7, <3>8
           DEF Ledger!Next, Ledger!Commit, Ledger!Record, Announced, transitionAllowed
      <3>9. CASE s = "released"
        BY <3>5, <3>6, <3>7, <3>9
           DEF Ledger!Next, Ledger!Release, Ledger!Record, Announced, transitionAllowed
      <3> QED  BY <3>8, <3>9 DEF Moves
    <2>5. Next
      BY DEF vars, Announced
    <2> QED  BY <2>2, <2>3, <2>4, <2>5 DEF Next
  <1> QED  BY <1>1, <1>2, ReservationInvariance, PTL DEF Spec, ImplementsLedger, Ledger!Spec, Announced

=============================================================================
