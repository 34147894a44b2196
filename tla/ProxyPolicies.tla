---------------------------- MODULE ProxyPolicies ----------------------------
(***************************************************************************)
(* Proxy policies with their rules, assignments, roles and role members    *)
(* (services/authorizationpolicy: policies.go, assignments.go, roles.go,   *)
(* authorization_policy_repository.go).                                    *)
(*                                                                         *)
(* Every handler first ensures the default rows, which are created once    *)
(* under a marker, row by row and in no transaction.  It then checks in    *)
(* one access and writes in a transaction, whose reads go to the committed *)
(* store.  A transaction that updates a policy holds its row until it      *)
(* commits.  Locks on the other rows only make one of two transactions     *)
(* wait or fail, and are left out.  The store tells no reader that it      *)
(* failed: a row is then not found, and a list is empty or cut short.      *)
(* Nothing follows from a marker that is not found but a claim that fails, *)
(* nor from any other row but an answer of 404.  One rule stands for the   *)
(* rules a request gives; each default is one row; names of roles and the  *)
(* fields a role update writes are left out.                               *)
(***************************************************************************)
EXTENDS Naturals, Sequences

CONSTANTS PolicyCallers,   \* requests being served
          PolicyIds, DefaultPolicy,
          PolicyNames, DefaultName,
          ProxyRoleIds, DefaultRole,
          PolicyUsers,
          NoPolicy,        \* no such row, no name in the request
          MaxPolicyRows    \* bound on generated ids

VARIABLES proxyPolicies,  \* policy id -> its name
          proxyRules,     \* rows [id, policy]
          assignments,    \* rows [id, policy, target]
          proxyRoles,     \* ids
          roleUsers,      \* rows [role, user]
          seedMarkers,
          preq,           \* caller -> where its request is
          lastRow,        \* the last id that NextID returned
          given,          \* history: policy -> ids of the rules it was last given
          dropped,        \* history: defaults that a request deleted
          upset           \* history: what overlapped or failed, and so may not hold

policyRows == <<proxyPolicies, proxyRules, assignments, proxyRoles, roleUsers>>
policyVars == <<policyRows, seedMarkers, preq, lastRow, given, dropped, upset>>

PolicyTargets == ProxyRoleIds \cup PolicyUsers

PolicyIdle ==
    [pc |-> "idle", kind |-> "none", id |-> NoPolicy, name |-> NoPolicy, targets |-> {},
     seen |-> {}, seeds |-> << >>, rows |-> << >>, lock |-> FALSE]

\* The default rows: of each seed in the order they are created.
DefaultRows == [policies |-> <<"policy", "rule">>, roles |-> <<"role">>, assignments |-> <<"check", "assignment">>]
DefaultRule == [id |-> 0, policy |-> DefaultPolicy]
DefaultAssignment == [id |-> 0, policy |-> DefaultPolicy, target |-> DefaultRole]

NothingSeeded ==
    /\ seedMarkers = {}
    /\ proxyPolicies = [p \in PolicyIds |-> NoPolicy]
    /\ proxyRules = {} /\ assignments = {} /\ proxyRoles = {}
    /\ given = [p \in PolicyIds |-> {}]

AllSeeded ==
    /\ seedMarkers = DOMAIN DefaultRows
    /\ proxyPolicies = [p \in PolicyIds |-> IF p = DefaultPolicy THEN DefaultName ELSE NoPolicy]
    /\ proxyRules = {DefaultRule} /\ assignments = {DefaultAssignment} /\ proxyRoles = {DefaultRole}
    /\ given = [p \in PolicyIds |-> IF p = DefaultPolicy THEN {0} ELSE {}]

ProxyPoliciesInit ==
    /\ NothingSeeded \/ AllSeeded
    /\ roleUsers = {}
    /\ preq = [c \in PolicyCallers |-> PolicyIdle]
    /\ lastRow = 0 /\ dropped = {} /\ upset = {}

LOCAL Become(c, r) == preq' = [preq EXCEPT ![c] = r]
LOCAL Done(c) == Become(c, PolicyIdle)
LOCAL At(c, pc) == preq[c].pc = pc
LOCAL Others(c, kinds, id) ==
    \E d \in PolicyCallers \ {c} : preq[d].pc # "idle" /\ preq[d].kind \in kinds /\ preq[d].id = id
LOCAL Seeding(c) == \E d \in PolicyCallers \ {c} : preq[d].pc \in {"claim", "seed"}
LOCAL Upset(tags) == upset' = upset \cup tags
LOCAL If(cond, tag) == IF cond THEN {tag} ELSE {}
LOCAL RulesOf(p) == {r \in proxyRules : r.policy = p}
LOCAL NameTaken(p, n) == \E q \in PolicyIds \ {p} : proxyPolicies[q] = n

\* The store lists all the rows, or some of them when it fails; what the
\* request does with a failed list may not hold.
LOCAL Listed(some, all, tags) == some \subseteq all /\ Upset(IF some = all THEN {} ELSE tags)

-----------------------------------------------------------------------------
(***************************************************************************)
(* The defaults.                                                           *)
(***************************************************************************)

\* What a handler ensures: the repository methods it calls do.
SeedsOf(kind) ==
    CASE kind \in {"create", "update", "delete"} -> <<"policies">>
      [] kind \in {"createRole", "deleteRole", "member"} -> <<"roles">>
      [] kind \in {"assign", "unassign", "list"} -> <<"policies", "roles", "assignments">>
      [] OTHER -> << >>

\* seedMarked: the seeds from the first on that is not marked.
LOCAL Unmarked(seeds) == LET open(s) == s \notin seedMarkers IN
    IF \E i \in DOMAIN seeds : open(seeds[i])
    THEN SubSeq(seeds, CHOOSE i \in DOMAIN seeds : open(seeds[i]) /\ \A j \in 1..(i - 1) : ~open(seeds[j]), Len(seeds))
    ELSE << >>

\* The request after it has ensured seeds: the rest of them, or the handler.
LOCAL Ensured(r, seeds) ==
    LET left == Unmarked(seeds)
    IN  [r EXCEPT !.pc = IF left = << >> THEN "handler" ELSE "ensure", !.seeds = left, !.rows = << >>]

PolicyRequest(c, r) ==
    /\ At(c, "idle")
    /\ Become(c, Ensured(r, SeedsOf(r.kind)))
    /\ UNCHANGED <<policyRows, seedMarkers, lastRow, given, dropped, upset>>

LOCAL RowsOf(seed) ==
    CASE seed = "policies" -> {p \in PolicyIds : proxyPolicies[p] # NoPolicy}
      [] seed = "roles" -> proxyRoles
      [] seed = "assignments" -> assignments

\* The marker is written, or the store fails: before or after it wrote it.
LOCAL Claimed(s, failed) == seedMarkers' \in {seedMarkers \cup {s}} \cup If(failed, seedMarkers)

\* Rows that are listed are not joined by defaults; the marker is set, if it
\* can be.
EnsureDefault(c) ==
    /\ At(c, "ensure")
    /\ LET s == Head(preq[c].seeds)
       IN  \/ /\ Listed({}, RowsOf(s), {<<"names">>, <<"twice", DefaultPolicy>>})
              /\ Become(c, [preq[c] EXCEPT !.pc = "claim"])
              /\ UNCHANGED seedMarkers
           \/ /\ RowsOf(s) # {}
              /\ Become(c, Ensured(preq[c], Tail(preq[c].seeds)))
              /\ Claimed(s, TRUE)
              /\ UNCHANGED upset
    /\ UNCHANGED <<policyRows, lastRow, given, dropped>>

\* One caller creates the marker, and then the rows; another goes on, and so
\* does a caller whose write fails.
claimSeed(c) ==
    /\ At(c, "claim")
    /\ LET s == Head(preq[c].seeds)
       IN  \/ /\ s \notin seedMarkers
              /\ Become(c, [preq[c] EXCEPT !.pc = "seed", !.rows = DefaultRows[s]])
              /\ Claimed(s, FALSE)
              /\ Upset(If(\E d \in PolicyCallers \ {c} : At(d, "seed"), <<"defaults">>))
           \/ /\ Become(c, Ensured(preq[c], Tail(preq[c].seeds)))
              /\ Claimed(s, TRUE)
              /\ Upset(If(s \notin seedMarkers, <<"defaults">>))
    /\ UNCHANGED <<policyRows, lastRow, given, dropped>>

\* A row that cannot be written is skipped, the rules of a policy are not;
\* the default assignment is when its policy or its role is not found.
SeedSkipped(c) ==
    /\ At(c, "seed")
    /\ LET r == preq[c]
           left == IF Head(r.rows) = "check" THEN << >> ELSE Tail(r.rows)
       IN  Become(c, IF left = << >> THEN Ensured(r, Tail(r.seeds)) ELSE [r EXCEPT !.rows = left])
    /\ Upset({<<"defaults">>} \cup If(Head(preq[c].rows) = "policy", <<"rules", DefaultPolicy>>))
    /\ UNCHANGED <<policyRows, seedMarkers, lastRow, given, dropped>>

\* A row whose id exists is skipped.  The default assignment is only created
\* when its policy and its role were there.
seedCreate(c) ==
    /\ At(c, "seed")
    /\ LET r == preq[c]
           row == Head(r.rows)
           wanted == row = "check" => proxyPolicies[DefaultPolicy] # NoPolicy /\ DefaultRole \in proxyRoles
           left == IF wanted THEN Tail(r.rows) ELSE << >>
       IN  /\ proxyPolicies' = IF row = "policy" /\ proxyPolicies[DefaultPolicy] = NoPolicy
                               THEN [proxyPolicies EXCEPT ![DefaultPolicy] = DefaultName] ELSE proxyPolicies
           /\ proxyRules' = proxyRules \cup If(row = "rule", DefaultRule)
           /\ given' = [given EXCEPT ![DefaultPolicy] = @ \cup If(row = "rule", 0)]
           /\ proxyRoles' = proxyRoles \cup If(row = "role", DefaultRole)
           /\ assignments' = assignments \cup If(row = "assignment", DefaultAssignment)
           /\ Upset(If(row = "policy" /\ \E p \in PolicyIds : Others(c, {"create", "update"}, p), <<"names">>)
                    \cup If(row = "rule" /\ Others(c, {"update", "delete"}, DefaultPolicy), <<"rules", DefaultPolicy>>)
                    \cup If(row = "assignment" /\ Others(c, {"assign"}, DefaultPolicy), <<"twice", DefaultPolicy>>)
                    \cup If(row = "assignment" /\ Others(c, {"delete"}, DefaultPolicy), <<"orphan", DefaultPolicy>>))
           /\ Become(c, IF left = << >> THEN Ensured(r, Tail(r.seeds)) ELSE [r EXCEPT !.rows = left])
    /\ UNCHANGED <<roleUsers, seedMarkers, lastRow, dropped>>

-----------------------------------------------------------------------------
(***************************************************************************)
(* Policies and their rules.                                               *)
(***************************************************************************)

\* PolicyNameExists: a name is free when no policy that is listed has it.
LOCAL NameFree(c, p, pc) ==
    LET taken == NameTaken(p, preq[c].name) IN
    \/ taken /\ Done(c) /\ UNCHANGED upset
    \/ Become(c, [preq[c] EXCEPT !.pc = pc]) /\ Upset(If(taken, <<"names">>))

createPolicy(c) ==
    /\ At(c, "handler") /\ preq[c].kind = "create"
    /\ NameFree(c, NoPolicy, "commit")
    /\ UNCHANGED <<policyRows, seedMarkers, lastRow, given, dropped>>

\* Clients may name the id: one that exists is a conflict.
CreateProxyPolicyTx(c) ==
    /\ At(c, "commit") /\ preq[c].kind = "create"
    /\ LET p == preq[c].id
       IN  \/ proxyPolicies[p] # NoPolicy /\ UNCHANGED <<proxyPolicies, proxyRules, given, lastRow, upset>>
           \/ /\ proxyPolicies[p] = NoPolicy /\ lastRow < MaxPolicyRows
              /\ proxyPolicies' = [proxyPolicies EXCEPT ![p] = preq[c].name]
              /\ proxyRules' = proxyRules \cup {[id |-> lastRow + 1, policy |-> p]}
              /\ given' = [given EXCEPT ![p] = {lastRow + 1}]
              /\ lastRow' = lastRow + 1
              /\ Upset(If(\E q \in PolicyIds : Others(c, {"create", "update"}, q), <<"names">>) \cup If(Seeding(c), <<"names">>)
                       \cup If(Others(c, {"delete"}, p), <<"rules", p>>))
    /\ Done(c)
    /\ UNCHANGED <<assignments, proxyRoles, roleUsers, seedMarkers, dropped>>

\* The name stays when the request has none; targets # {} stands for rules in
\* the request.
updatePolicy(c) ==
    /\ At(c, "handler") /\ preq[c].kind = "update"
    /\ LET r == preq[c]
       IN  IF proxyPolicies[r.id] = NoPolicy THEN Done(c) /\ UNCHANGED upset
           ELSE IF r.name = NoPolicy THEN Become(c, [r EXCEPT !.pc = "tx"]) /\ UNCHANGED upset
           ELSE NameFree(c, r.id, "tx")
    /\ UNCHANGED <<policyRows, seedMarkers, lastRow, given, dropped>>

LOCAL RowLocked(p) == \E d \in PolicyCallers : preq[d].lock /\ preq[d].id = p

\* As a bug would: the rules to replace are listed before the row is held.
UpdateListsFirst(c) ==
    /\ At(c, "tx") /\ preq[c].kind = "update"
    /\ Become(c, [preq[c] EXCEPT !.pc = "commit", !.seen = RulesOf(preq[c].id)])
    /\ UNCHANGED <<policyRows, seedMarkers, lastRow, given, dropped, upset>>

\* The transaction updates the row, waiting for one that holds it, and then
\* lists the rules it will replace.
UpdateProxyPolicyTx(c) ==
    /\ At(c, "tx") /\ preq[c].kind = "update"
    /\ LET r == preq[c]
       IN  /\ ~RowLocked(r.id)
           /\ \/ proxyPolicies[r.id] = NoPolicy /\ Done(c) /\ UNCHANGED upset
              \/ /\ proxyPolicies[r.id] # NoPolicy
                 /\ \E seen \in SUBSET RulesOf(r.id) :
                       /\ Listed(seen, RulesOf(r.id), If(r.targets # {}, <<"rules", r.id>>))
                       /\ Become(c, [r EXCEPT !.pc = "commit", !.lock = TRUE, !.seen = seen])
    /\ UNCHANGED <<policyRows, seedMarkers, lastRow, given, dropped>>

UpdateCommits(c) ==
    /\ At(c, "commit") /\ preq[c].kind = "update"
    /\ LET r == preq[c]
           p == r.id
       IN  /\ proxyPolicies' = IF r.name = NoPolicy THEN proxyPolicies ELSE [proxyPolicies EXCEPT ![p] = r.name]
           /\ \/ r.targets = {} /\ UNCHANGED <<proxyRules, given, lastRow>>
              \/ /\ r.targets # {} /\ lastRow < MaxPolicyRows
                 /\ proxyRules' = (proxyRules \ r.seen) \cup {[id |-> lastRow + 1, policy |-> p]}
                 /\ given' = [given EXCEPT ![p] = {lastRow + 1}]
                 /\ lastRow' = lastRow + 1
           /\ Upset(If(r.name # NoPolicy /\ (Seeding(c) \/ \E q \in PolicyIds : Others(c, {"create", "update"}, q)), <<"names">>)
                    \cup If(Others(c, {"delete"}, p), <<"rules", p>>))
    /\ Done(c)
    /\ UNCHANGED <<assignments, proxyRoles, roleUsers, seedMarkers, dropped>>

deletePolicy(c) ==
    /\ At(c, "handler") /\ preq[c].kind = "delete"
    /\ Become(c, IF proxyPolicies[preq[c].id] = NoPolicy THEN PolicyIdle ELSE [preq[c] EXCEPT !.pc = "tx"])
    /\ UNCHANGED <<policyRows, seedMarkers, lastRow, given, dropped, upset>>

\* The cascade is listed from the committed store.
DeleteProxyPolicyCascadeTx(c) ==
    /\ At(c, "tx") /\ preq[c].kind = "delete"
    /\ LET p == preq[c].id
           all == RulesOf(p) \cup {a \in assignments : a.policy = p}
       IN  \/ proxyPolicies[p] = NoPolicy /\ Done(c) /\ UNCHANGED upset
           \/ /\ proxyPolicies[p] # NoPolicy
              /\ \E seen \in SUBSET all :
                    /\ Listed(seen, all, If(~(RulesOf(p) \subseteq seen), <<"rules", p>>)
                                         \cup If(\E a \in assignments \ seen : a.policy = p, <<"orphan", p>>))
                    /\ Become(c, [preq[c] EXCEPT !.pc = "commit", !.seen = seen])
    /\ UNCHANGED <<policyRows, seedMarkers, lastRow, given, dropped>>

LOCAL Drops(c, kept) == If(DefaultAssignment \in assignments \ kept, "assignment")

DeleteCommits(c) ==
    /\ At(c, "commit") /\ preq[c].kind = "delete"
    /\ LET p == preq[c].id
           kept == assignments \ preq[c].seen
       IN  /\ ~RowLocked(p)
           /\ proxyPolicies' = [proxyPolicies EXCEPT ![p] = NoPolicy]
           /\ proxyRules' = proxyRules \ preq[c].seen
           /\ assignments' = kept
           /\ given' = [given EXCEPT ![p] = {}]
           /\ dropped' = dropped \cup Drops(c, kept) \cup If(p = DefaultPolicy, "policy")
           /\ Upset(If(Others(c, {"assign"}, p), <<"orphan", p>>)
                    \cup If(Seeding(c) /\ p = DefaultPolicy, <<"rules", p>>)
                    \cup If(Seeding(c) /\ p = DefaultPolicy, <<"orphan", p>>))
    /\ Done(c)
    /\ UNCHANGED <<proxyRoles, roleUsers, seedMarkers, lastRow>>

-----------------------------------------------------------------------------
(***************************************************************************)
(* Assignments of a policy to roles and users, one or a batch.             *)
(***************************************************************************)

\* The policy is looked up once; whether a target exists is not checked.
assignPolicy(c) ==
    /\ At(c, "handler") /\ preq[c].kind = "assign"
    /\ Become(c, IF proxyPolicies[preq[c].id] = NoPolicy THEN PolicyIdle ELSE [preq[c] EXCEPT !.pc = "next"])
    /\ UNCHANGED <<policyRows, seedMarkers, lastRow, given, dropped, upset>>

LOCAL Assigned(p, t) == {a \in assignments : a.policy = p /\ a.target = t}
LOCAL Without(c, t) ==
    LET left == preq[c].targets \ {t}
    IN  IF left = {} THEN PolicyIdle ELSE [preq[c] EXCEPT !.pc = "next", !.targets = left, !.seen = {}]

\* A target that has the policy is answered with its assignment.
findAssignment(c, t) ==
    /\ At(c, "next") /\ preq[c].kind = "assign" /\ t \in preq[c].targets
    /\ LET p == preq[c].id
       IN  \/ Assigned(p, t) # {} /\ Become(c, Without(c, t)) /\ UNCHANGED upset
           \/ /\ Listed({}, Assigned(p, t), {<<"twice", p>>})
              /\ Become(c, [preq[c] EXCEPT !.pc = "commit", !.seen = {t}])
    /\ UNCHANGED <<policyRows, seedMarkers, lastRow, given, dropped>>

CreatePolicyAssignmentTx(c) ==
    /\ At(c, "commit") /\ preq[c].kind = "assign" /\ lastRow < MaxPolicyRows
    /\ \E t \in preq[c].seen :
          /\ assignments' = assignments \cup {[id |-> lastRow + 1, policy |-> preq[c].id, target |-> t]}
          /\ Become(c, Without(c, t))
    /\ lastRow' = lastRow + 1
    /\ LET p == preq[c].id
       IN  Upset(If(Others(c, {"assign"}, p) \/ Seeding(c), <<"twice", p>>)
                 \cup If(Others(c, {"delete"}, p), <<"orphan", p>>))
    /\ UNCHANGED <<proxyPolicies, proxyRules, proxyRoles, roleUsers, seedMarkers, given, dropped>>

unassignPolicy(c, t) ==
    /\ At(c, "handler") /\ preq[c].kind = "unassign" /\ t \in preq[c].targets
    /\ \/ Assigned(preq[c].id, t) = {} /\ Done(c)
       \/ \E a \in Assigned(preq[c].id, t) : Become(c, [preq[c] EXCEPT !.pc = "commit", !.seen = {a}])
    /\ UNCHANGED <<policyRows, seedMarkers, lastRow, given, dropped, upset>>

UnassignPolicyTx(c) ==
    /\ At(c, "commit") /\ preq[c].kind = "unassign"
    /\ assignments' = assignments \ preq[c].seen
    /\ dropped' = dropped \cup Drops(c, assignments')
    /\ Done(c)
    /\ UNCHANGED <<proxyPolicies, proxyRules, proxyRoles, roleUsers, seedMarkers, lastRow, given, upset>>

\* The lists of policies, roles and assignments only ensure the defaults.
listPolicyAssignments(c) ==
    /\ At(c, "handler") /\ preq[c].kind = "list"
    /\ Done(c)
    /\ UNCHANGED <<policyRows, seedMarkers, lastRow, given, dropped, upset>>

-----------------------------------------------------------------------------
(***************************************************************************)
(* Roles and their members.                                                *)
(***************************************************************************)

CreateProxyRoleTx(c) ==
    /\ At(c, "handler") /\ preq[c].kind = "createRole"
    /\ proxyRoles' = proxyRoles \cup {preq[c].id}
    /\ Done(c)
    /\ UNCHANGED <<proxyPolicies, proxyRules, assignments, roleUsers, seedMarkers, lastRow, given, dropped, upset>>

\* Whether the role exists is not asked.
DeleteProxyRoleCascadeTx(c) ==
    /\ At(c, "handler") /\ preq[c].kind = "deleteRole"
    /\ LET r == preq[c].id
           all == {m \in roleUsers : m.role = r} \cup {a \in assignments : a.target = r}
       IN  \E seen \in SUBSET all :
              /\ Listed(seen, all, If(\E m \in roleUsers \ seen : m.role = r, <<"members", r>>))
              /\ Become(c, [preq[c] EXCEPT !.pc = "commit", !.seen = seen])
    /\ UNCHANGED <<policyRows, seedMarkers, lastRow, given, dropped>>

RoleDeleteCommits(c) ==
    /\ At(c, "commit") /\ preq[c].kind = "deleteRole"
    /\ LET r == preq[c].id
       IN  /\ proxyRoles' = proxyRoles \ {r}
           /\ roleUsers' = roleUsers \ preq[c].seen
           /\ assignments' = assignments \ preq[c].seen
           /\ dropped' = dropped \cup Drops(c, assignments') \cup If(r = DefaultRole, "role")
           /\ Upset(If(Others(c, {"member"}, r), <<"members", r>>))
    /\ Done(c)
    /\ UNCHANGED <<proxyPolicies, proxyRules, seedMarkers, lastRow, given>>

assignRoleUser(c) ==
    /\ At(c, "handler") /\ preq[c].kind = "member"
    /\ Become(c, IF preq[c].id \notin proxyRoles THEN PolicyIdle ELSE [preq[c] EXCEPT !.pc = "next"])
    /\ UNCHANGED <<policyRows, seedMarkers, lastRow, given, dropped, upset>>

\* The id of the row is made of role and user, so a second row is a conflict
\* and answered with the first.
CreateRoleUserTx(c, u) ==
    /\ At(c, "next") /\ preq[c].kind = "member" /\ u \in preq[c].targets
    /\ roleUsers' = roleUsers \cup {[role |-> preq[c].id, user |-> u]}
    /\ Become(c, Without(c, u))
    /\ Upset(If(Others(c, {"deleteRole"}, preq[c].id), <<"members", preq[c].id>>))
    /\ UNCHANGED <<proxyPolicies, proxyRules, assignments, proxyRoles, seedMarkers, lastRow, given, dropped>>

UnassignRoleUserTx(c, u) ==
    /\ At(c, "handler") /\ preq[c].kind = "unmember" /\ u \in preq[c].targets
    /\ roleUsers' = roleUsers \ {[role |-> preq[c].id, user |-> u]}
    /\ Done(c)
    /\ UNCHANGED <<proxyPolicies, proxyRules, assignments, proxyRoles, seedMarkers, lastRow, given, dropped, upset>>

-----------------------------------------------------------------------------
\* The process dies: a transaction is rolled back, and defaults not yet
\* created are lost.  A request whose row is not found, and one whose write
\* fails in its transaction, end likewise.
PolicyRequestDies(c) ==
    /\ ~At(c, "idle")
    /\ Upset(If(preq[c].rows # << >>, <<"defaults">>))
    /\ Done(c)
    /\ UNCHANGED <<policyRows, seedMarkers, lastRow, given, dropped>>

LOCAL Request(kind, id, name, targets) ==
    [PolicyIdle EXCEPT !.kind = kind, !.id = id, !.name = name, !.targets = targets]

PolicyStep(c) ==
    \/ \E p \in PolicyIds, n \in PolicyNames : PolicyRequest(c, Request("create", p, n, {}))
    \/ \E p \in PolicyIds, n \in PolicyNames \cup {NoPolicy}, ts \in {{}, PolicyUsers} :
          PolicyRequest(c, Request("update", p, n, ts))
    \/ \E p \in PolicyIds : PolicyRequest(c, Request("delete", p, NoPolicy, {}))
    \/ createPolicy(c) \/ CreateProxyPolicyTx(c)
    \/ updatePolicy(c) \/ UpdateProxyPolicyTx(c) \/ UpdateCommits(c)
    \/ deletePolicy(c) \/ DeleteProxyPolicyCascadeTx(c) \/ DeleteCommits(c)

AssignStep(c) ==
    \/ \E p \in PolicyIds, ts \in SUBSET PolicyTargets \ {{}} : PolicyRequest(c, Request("assign", p, NoPolicy, ts))
    \/ \E p \in PolicyIds, t \in PolicyTargets : PolicyRequest(c, Request("unassign", p, NoPolicy, {t}))
    \/ PolicyRequest(c, Request("list", NoPolicy, NoPolicy, {}))
    \/ assignPolicy(c) \/ CreatePolicyAssignmentTx(c) \/ UnassignPolicyTx(c) \/ listPolicyAssignments(c)
    \/ \E t \in PolicyTargets : findAssignment(c, t) \/ unassignPolicy(c, t)

RoleStep(c) ==
    \/ \E r \in ProxyRoleIds, kind \in {"createRole", "deleteRole"} : PolicyRequest(c, Request(kind, r, NoPolicy, {}))
    \/ \E r \in ProxyRoleIds, us \in SUBSET PolicyUsers \ {{}} : PolicyRequest(c, Request("member", r, NoPolicy, us))
    \/ \E r \in ProxyRoleIds, u \in PolicyUsers : PolicyRequest(c, Request("unmember", r, NoPolicy, {u}))
    \/ CreateProxyRoleTx(c) \/ DeleteProxyRoleCascadeTx(c) \/ RoleDeleteCommits(c) \/ assignRoleUser(c)
    \/ \E u \in PolicyUsers : CreateRoleUserTx(c, u) \/ UnassignRoleUserTx(c, u)

SeedStep(c) == EnsureDefault(c) \/ claimSeed(c) \/ seedCreate(c) \/ SeedSkipped(c)

ProxyPoliciesNext ==
    \E c \in PolicyCallers :
       PolicyStep(c) \/ AssignStep(c) \/ RoleStep(c) \/ SeedStep(c) \/ PolicyRequestDies(c)

-----------------------------------------------------------------------------
\* What administrators wrote is what stands, however their requests and the
\* creation of the defaults interleave.  The rules of a policy are those it
\* was last given: two updates never mix, and others are left only by a
\* delete that overlaps an update and by a list of rules that the store cut
\* short.  Names are unique unless they were given in requests that
\* overlapped.  An assignment is of a policy that exists, a member of a role
\* that exists, and no target has a policy twice, unless the requests that
\* made it so overlapped or a list they relied on was cut short.  And a
\* default is there once its marker is, unless it was deleted, is being
\* created, or its creation was interrupted, failed or overlapped with
\* another: it never comes back by itself.
PoliciesAsGiven ==
    /\ \A p \in PolicyIds :
          /\ <<"rules", p>> \in upset \/ {r.id : r \in RulesOf(p)} = given[p]
          /\ <<"orphan", p>> \in upset \/ proxyPolicies[p] # NoPolicy \/ \A a \in assignments : a.policy # p
          /\ \/ <<"twice", p>> \in upset
             \/ \A a, b \in assignments : a.policy = p /\ b.policy = p /\ a.target = b.target => a = b
          /\ <<"names">> \in upset \/ proxyPolicies[p] = NoPolicy \/ ~NameTaken(p, proxyPolicies[p])
    /\ \A m \in roleUsers : m.role \in proxyRoles \/ <<"members", m.role>> \in upset
    /\ <<"defaults">> \in upset \/ (\E c \in PolicyCallers : preq[c].rows # << >>) \/
          /\ "policies" \in seedMarkers => proxyPolicies[DefaultPolicy] # NoPolicy \/ "policy" \in dropped
          /\ "roles" \in seedMarkers => DefaultRole \in proxyRoles \/ "role" \in dropped
          /\ "assignments" \in seedMarkers => DefaultAssignment \in assignments \/ dropped # {}
=============================================================================
