---- MODULE MCServices ----
(***************************************************************************)
(* The image registry, identity, organisation and request services, the    *)
(* config files, the proxy policies, the migrations and the storage of     *)
(* MCStorage, on one small instance.  The parts share no state here, so in *)
(* each behaviour one part moves and the others stay as they began: focus  *)
(* names it.  A large part is split further, by the kinds of request that  *)
(* are served.                                                             *)
(***************************************************************************)
EXTENDS ImageCatalog, Identity, ProjectAccess, RequestForms,
        ConfigFiles, ProxyPolicies, Migrations, MCStorage, TLC

CONSTANT FirstRunner   \* the build runner of the behaviours with one

vars == <<focus, imageVars, idVars, orgVars, formVars, configVars, policyVars, migrationVars, storageVars>>

ImageFoci == {"builds", "catalog", "requests"}
IdentityFoci == {"accounts", "sessions", "tokens", "lockout"}
OrgFoci == {"members", "groups"}

(***************************************************************************)
(* Images.  Tags are deleted past the platform in "catalog", where nobody  *)
(* creates a build once there is one, for one runner and without keys, and *)
(* pushed to in "builds" too; "requests" has the requests for images.      *)
(***************************************************************************)

ImagePart ==
    /\ focus \in ImageFoci
    /\ UNCHANGED <<idVars, orgVars, formVars, configVars, policyVars, migrationVars, storageVars>>
    /\ \/ focus = "builds" /\ UNCHANGED catalogVars /\ BuildsNext /\ harbor'.digest = pushes'
       \/ /\ focus = "catalog"
          /\ ImageNext /\ UNCHANGED requests
          /\ \A c \in BuildCallers :
                /\ creating'[c].key = NoKey
                /\ creating'[c].pc # "idle" => \A b \in DOMAIN builds : builds[b] = NoBuild
          /\ \A b \in DOMAIN builds : builds'[b] # NoBuild => ~builds'[b].cancelKey
          /\ \A w \in BuildRunners \ {FirstRunner} : runner'[w] = runner[w]
       \/ focus = "requests" /\ UNCHANGED <<tag, rules, syncing, publisher>> /\ CatalogNext

(***************************************************************************)
(* Identity, without a directory: MCPlatform has one.                      *)
(***************************************************************************)

\* Most requests are about one name.
Subject == CHOOSE n \in IdNames : TRUE

\* A request that begins is of one of these kinds.
Begins(c, kinds) ==
    idreq[c].pc = "idle" => idreq'[c].kind \in kinds /\ idreq'[c].name \in {Subject, NoAccount}

SessionPart ==
    /\ focus = "sessions"
    /\ \/ CredentialUpkeep
       \/ \E c \in IdCallers : /\ SessionStep(c) \/ AccountStep(c)
                               /\ Begins(c, {"web", "logout", "refresh", "delete"})

TokenPart ==
    /\ focus = "tokens"
    /\ \/ CredentialUpkeep
       \/ \E c \in IdCallers : /\ TokenStep(c) \/ AccountStep(c)
                               /\ Begins(c, {"cli", "token", "delete"})

LockoutPart ==
    /\ focus = "lockout"
    /\ \/ LockExpires(Subject)
       \/ \E c \in IdCallers : /\ LockoutStep(c) \/ SessionStep(c)
                               /\ Begins(c, {"fail", "web"})

IdentityPart ==
    /\ focus \in IdentityFoci
    /\ UNCHANGED <<imageVars, orgVars, formVars, configVars, policyVars, migrationVars, storageVars>>
    /\ \/ SessionPart \/ TokenPart \/ LockoutPart
       \/ focus = "accounts" /\ \E c \in IdCallers : AccountStep(c)

(***************************************************************************)
(* Organisation.                                                           *)
(***************************************************************************)

OrgKinds ==
    CASE focus = "members" -> {"createProject", "deleteProject", "addMember", "setMember",
                               "removeMember", "setQuota", "dropQuota", "claim", "unclaim"}
      [] focus = "groups" -> {"createGroup", "deleteGroup", "join", "setRole", "leave",
                              "addMember", "createProject", "updateOwner", "updatePersonal"}

OrganisationPart ==
    /\ focus \in OrgFoci
    /\ UNCHANGED <<imageVars, idVars, formVars, configVars, policyVars, migrationVars, storageVars>>
    /\ OrganisationNext
    /\ \A c \in OrgCallers : orgreq'[c].kind \in OrgKinds \cup {"idle"}
    /\ focus = "groups" /\ project # NoProject => project'.bound = project.bound
    /\ focus = "members" /\ project # NoProject => project' = NoProject \/ project'.above = {}

(***************************************************************************)
(* Requests and announcements: "pins" without reads, "reads" of one        *)
(* announcement, forms with a batch of two.                                *)
(***************************************************************************)

CONSTANT FirstAdmin   \* the caller that owns the second form

FormFoci == {"forms", "pins", "reads", "inbox"}

FormPart ==
    /\ focus \in FormFoci
    /\ UNCHANGED <<imageVars, idVars, orgVars, configVars, policyVars, migrationVars, storageVars>>
    /\ \/ /\ focus = "forms"
          /\ \E c \in FormCallers : FormStep(c) \/ FormRequestLost(c)
          /\ \A c \in FormCallers : freq'[c].ids \in {<< >>, <<1>>} \cup (IF c = FirstAdmin THEN {<<2, 1>>} ELSE {})
          /\ mail'[2] = {} /\ forms'[2].owner \in {"", FirstAdmin}
       \/ /\ focus = "pins"
          /\ \E c \in FormCallers : NoticeStep(c) \/ FormRequestLost(c)
          /\ \A c \in FormCallers : ~freq'[c].over /\ freq'[c].pc # "readPut"
       \/ /\ focus = "reads"
          /\ \/ \E c \in FormCallers : NoticeStep(c) \/ FormRequestLost(c)
             \/ \E a \in Notices : NoticeExpires(a)
          /\ \A c \in FormCallers : ~freq'[c].pin
          /\ \A a \in Notices \ {1} : notices'[a].state = "none"
       \/ /\ focus = "inbox"
          /\ \E c \in FormCallers : InboxStep(c) \/ FormRequestLost(c)

(***************************************************************************)
(* Config files with versions by the service and by hand, and cancelling.  *)
(***************************************************************************)

CONSTANTS cc1, cc2, cp1, cp2

MCProjectsOf == (cc1 :> {cp1}) @@ (cc2 :> {cp1, cp2})

ConfigFoci == {"configs", "commits", "cancels"}

ConfigPart ==
    /\ focus \in ConfigFoci
    /\ UNCHANGED <<imageVars, idVars, orgVars, formVars, policyVars, migrationVars, storageVars>>
    /\ \E c \in ConfigCallers :
          \/ focus = "configs" /\ ConfigFileStep(c) /\ creq'[c].pc \notin {"commit", "command"}
          \/ focus = "commits" /\ ConfigFileStep(c) /\ creq'[c].pc # "update" /\ born' <= 1
          \/ focus = "cancels" /\ CancelStep(c)
          \/ ConfigRequestDies(c)

(***************************************************************************)
(* Proxy policies: "rules" and "assigned" of the default policy, "roles"   *)
(* with members; "seeds" and "names" begin without the defaults, and       *)
(* "names" has a second policy.  One step goes wrong, and after it         *)
(* requests begin one at a time.                                           *)
(***************************************************************************)

CONSTANTS SecondPolicy, SecondName

PolicyKinds ==
    [rules |-> {"create", "update", "delete"},
     assigned |-> {"delete", "assign", "unassign", "list"},
     roles |-> {"deleteRole", "createRole", "member", "unmember"},
     seeds |-> {"delete", "assign", "deleteRole"},
     names |-> {"create", "update"}]

PolicyFoci == DOMAIN PolicyKinds
Unseeded == {"seeds", "names"}

PolicyPart ==
    /\ focus \in PolicyFoci
    /\ UNCHANGED <<imageVars, idVars, orgVars, formVars, configVars, migrationVars, storageVars>>
    /\ ProxyPoliciesNext
    /\ \A c \in PolicyCallers :
          /\ preq'[c].kind \in PolicyKinds[focus] \cup {"none"}
          /\ focus # "names" => preq'[c].id # SecondPolicy /\ preq'[c].name # SecondName
          /\ focus \in Unseeded => preq'[c].targets \subseteq {DefaultRole}
    /\ focus \in Unseeded => lastRow' <= 1
    /\ upset # {} =>
          /\ UNCHANGED upset
          /\ \A c, d \in PolicyCallers : preq[c] = PolicyIdle /\ preq[d] # PolicyIdle => preq'[c] = preq[c]

(***************************************************************************)
(* Migrations: a release, the one after it, one that changed a file it had *)
(* shipped, and two that are not valid.                                    *)
(***************************************************************************)

File(s, v, sum) == [service |-> s, version |-> v, sum |-> sum, path |-> <<s, v, sum>>]

MCReleases ==
    {{File(1, 1, 1), File(2, 1, 1)},
     {File(1, 1, 1), File(1, 2, 1), File(2, 1, 1)},
     {File(1, 1, 1), File(2, 1, 2)},
     {File(1, 1, 1), File(2, 1, 1), File(2, 1, 2)},
     {File(1, 1, 1)}}

MigrationPart ==
    /\ focus = "migrations"
    /\ UNCHANGED <<imageVars, idVars, orgVars, formVars, configVars, policyVars, storageVars>>
    /\ MigrationsNext

(***************************************************************************)
(* The composition.                                                        *)
(***************************************************************************)

Init ==
    /\ focus \in ImageFoci \cup IdentityFoci \cup OrgFoci \cup FormFoci
                   \cup ConfigFoci \cup PolicyFoci \cup StorageFoci \cup {"migrations"}
    /\ ImageInit /\ IdentityInit /\ OrganisationInit /\ FormInit
    /\ ConfigFilesInit /\ ProxyPoliciesInit /\ MigrationsInit /\ StorageInit
    /\ (focus \in Unseeded) = (seedMarkers = {})
    /\ acct[Subject] # NoAccount => acct[Subject].id = 1
    /\ ~ldapOn
    /\ \A n \in IdNames : acct[n] # NoAccount

Next ==
    /\ UNCHANGED focus
    /\ \/ ImagePart \/ IdentityPart \/ OrganisationPart \/ FormPart
       \/ ConfigPart \/ PolicyPart \/ MigrationPart
       \/ /\ focus \in StorageFoci
          /\ UNCHANGED <<imageVars, idVars, orgVars, formVars, configVars, policyVars, migrationVars>>
          /\ StoragePart

Spec == Init /\ [][Next]_vars
====
