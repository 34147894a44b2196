---------------------------- MODULE ImageCatalog ----------------------------
(***************************************************************************)
(* The catalogue row of one image tag and the project rules made from it:  *)
(* the Harbor sync, publishing behind the supply-chain gate, unpublishing, *)
(* deleting the artifact, and the review of image requests.                *)
(*                                                                         *)
(* The configuration requires provenance.  A handler that writes several   *)
(* rules writes each in a transaction of its own, and publishCatalog reads *)
(* the catalogue again for every rule.                                     *)
(***************************************************************************)
EXTENDS ImageBuilds

CONSTANTS
    ImageProjects,  \* projects rules are for
    MaxReviews,     \* bound: reviews of image requests
    NoTag, NoRule

Artifacts == [digest : Nat, scan : {"passed", "failed"}]
TagRecords == [digest : Nat, scan : {"passed", "failed"}, deleted : BOOLEAN, attested : BOOLEAN]
RuleRecords == [digest : Nat, gated : Nat]

VARIABLES
    tag,        \* the catalogue row, or NoTag
    syncing,    \* the sync of the tag: step, status record, artifact found
    rules,      \* project -> the rule published from the tag, or NoRule
    publisher,  \* the administrator's handler: step, projects left, row gated
    requests,   \* project -> its image request and the rule approving it made
    reviews     \* reviews so far

catalogVars == <<tag, syncing, rules, publisher, requests, reviews>>
imageVars == <<buildVars, catalogVars>>

Missing == [digest |-> 0, scan |-> "failed"]
AtRest == [pc |-> "idle", left |-> {}, seen |-> NoTag]

CatalogInit ==
    /\ tag = NoTag
    /\ syncing = [pc |-> "idle", status |-> "none", artifact |-> Missing]
    /\ rules = [p \in ImageProjects |-> NoRule]
    /\ publisher = AtRest
    /\ requests = [p \in ImageProjects |-> [status |-> "none", rule |-> FALSE]]
    /\ reviews = 0

---------------------------------------------------------------------------
\* syncCatalog, and retryHarborCatalogSync for what an earlier sync left.
SyncRequest ==
    /\ syncing.pc = "idle"
    /\ syncing' = [syncing EXCEPT !.pc = "find", !.status = "sync_requested"]
    /\ UNCHANGED <<buildVars, tag, rules, publisher, requests, reviews>>

retryHarborCatalogSync ==
    /\ syncing.pc = "idle"
    /\ syncing.status \in {"sync_requested", "degraded"}
    /\ syncing' = [syncing EXCEPT !.pc = "find"]
    /\ UNCHANGED <<buildVars, tag, rules, publisher, requests, reviews>>

\* findHarborArtifactThroughPages; Harbor may not answer.
SyncFind ==
    /\ syncing.pc = "find"
    /\ \/ syncing' = [syncing EXCEPT !.pc = "write", !.artifact = harbor]
       \/ syncing' = [syncing EXCEPT !.pc = "idle", !.status = "degraded"]
    /\ UNCHANGED <<buildVars, tag, rules, publisher, requests, reviews>>

\* harborCatalogRecord: over the row there is, which keeps its SBOM and its
\* signature, or over the payload of the request.
harborCatalogRecord(artifact, attested) ==
    [digest |-> artifact.digest, scan |-> artifact.scan, deleted |-> FALSE,
     attested |-> IF tag # NoTag THEN tag.attested ELSE attested]

SyncWrite ==
    /\ syncing.pc = "write"
    /\ \/ /\ syncing.artifact.digest # 0
          /\ \E attested \in BOOLEAN : tag' = harborCatalogRecord(syncing.artifact, attested)
          /\ syncing' = [syncing EXCEPT !.pc = "idle", !.status = "synced", !.artifact = Missing]
       \/ /\ syncing.artifact.digest = 0
          /\ tag' = IF tag = NoTag THEN NoTag ELSE [tag EXCEPT !.deleted = TRUE]
          /\ syncing' = [syncing EXCEPT !.pc = "idle", !.status = "degraded", !.artifact = Missing]
    /\ UNCHANGED <<buildVars, rules, publisher, requests, reviews>>

---------------------------------------------------------------------------
catalogAllowListRejection(t) ==
    \/ t = NoTag
    \/ t.deleted
    \/ t.digest = 0
    \/ t.scan # "passed"
    \/ ~t.attested

\* As if a build record with the digest were proof enough.
BuildKnown(t) == \A b \in DOMAIN builds : builds[b] # NoBuild => builds[b].digest # t.digest

\* buildProvenanceRejection: no build of the digest whose pipeline succeeded.
buildProvenanceRejection(t) ==
    \A b \in DOMAIN builds : builds[b] # NoBuild =>
        \/ builds[b].digest # t.digest
        \/ builds[b].status # "succeeded"
        \/ builds[b].sbom # "succeeded"
        \/ builds[b].scan # "passed"
        \/ builds[b].signature # "signed"

PublishGate ==
    /\ publisher.pc = "idle"
    /\ ~catalogAllowListRejection(tag)
    /\ ~buildProvenanceRejection(tag)
    /\ \E chosen \in SUBSET ImageProjects \ {{}} :
          publisher' = [pc |-> "publish", left |-> chosen, seen |-> tag]
    /\ UNCHANGED <<buildVars, tag, syncing, rules, requests, reviews>>

\* allowRuleFromCatalog reads the row once more; a rule that is already there
\* keeps the fields a missing row does not give.  "gated" is history: the
\* digest the gate saw.
allowRuleFromCatalog(p) ==
    IF tag # NoTag THEN [digest |-> tag.digest, gated |-> publisher.seen.digest]
    ELSE IF rules[p] # NoRule THEN rules[p]
    ELSE [digest |-> 0, gated |-> publisher.seen.digest]

PublishRule(p) ==
    /\ publisher.pc = "publish" /\ p \in publisher.left
    /\ rules' = [rules EXCEPT ![p] = allowRuleFromCatalog(p)]
    /\ publisher' = IF publisher.left = {p} THEN AtRest ELSE [publisher EXCEPT !.left = @ \ {p}]
    /\ UNCHANGED <<buildVars, tag, syncing, requests, reviews>>

\* unpublishCatalog: the rules listed, deleted one by one.
Unpublish ==
    /\ publisher.pc = "idle"
    /\ \E p \in ImageProjects : rules[p] # NoRule
    /\ publisher' = [pc |-> "unpublish", seen |-> NoTag,
                     left |-> {p \in ImageProjects : rules[p] # NoRule}]
    /\ UNCHANGED <<buildVars, tag, syncing, rules, requests, reviews>>

UnpublishRule(p) ==
    /\ publisher.pc = "unpublish" /\ p \in publisher.left
    /\ rules' = [rules EXCEPT ![p] = NoRule]
    /\ publisher' = IF publisher.left = {p} THEN AtRest ELSE [publisher EXCEPT !.left = @ \ {p}]
    /\ UNCHANGED <<buildVars, tag, syncing, requests, reviews>>

\* A write of either fails: the rules already written stay.
PublisherError ==
    /\ publisher.pc # "idle"
    /\ publisher' = AtRest
    /\ UNCHANGED <<buildVars, tag, syncing, rules, requests, reviews>>

\* deletePublishedRule, removeProjectImage.
RemoveRule(p) ==
    /\ rules[p] # NoRule
    /\ rules' = [rules EXCEPT ![p] = NoRule]
    /\ UNCHANGED <<buildVars, tag, syncing, publisher, requests, reviews>>

\* deleteCatalogArtifactCascade: the row and the rules, in one transaction.
deleteCatalogArtifact ==
    /\ tag # NoTag
    /\ tag' = NoTag
    /\ rules' = [p \in ImageProjects |-> NoRule]
    /\ UNCHANGED <<buildVars, syncing, publisher, requests, reviews>>

---------------------------------------------------------------------------
\* requestProjectImage.
RequestImage(p) ==
    /\ requests[p].status = "none"
    /\ requests' = [requests EXCEPT ![p].status = "pending"]
    /\ UNCHANGED <<buildVars, tag, syncing, rules, publisher, reviews>>

\* setImageRequestStatus: from any status to any other.  Approving makes a
\* rule of its own in a second write, which rejecting later leaves there.
setImageRequestStatus(p, status) ==
    /\ requests[p].status # "none"
    /\ reviews < MaxReviews
    /\ reviews' = reviews + 1
    /\ requests' = [requests EXCEPT ![p].status = status]
    /\ UNCHANGED <<buildVars, tag, syncing, rules, publisher>>

upsertApprovedRule(p) ==
    /\ requests[p] = [status |-> "approved", rule |-> FALSE]
    /\ requests' = [requests EXCEPT ![p].rule = TRUE]
    /\ UNCHANGED <<buildVars, tag, syncing, rules, publisher, reviews>>

CatalogNext ==
    \/ SyncRequest \/ retryHarborCatalogSync \/ SyncFind \/ SyncWrite
    \/ PublishGate \/ Unpublish \/ PublisherError \/ deleteCatalogArtifact
    \/ \E p \in ImageProjects :
          \/ PublishRule(p) \/ UnpublishRule(p) \/ RemoveRule(p)
          \/ RequestImage(p) \/ upsertApprovedRule(p)
          \/ \E s \in {"approved", "rejected", "pending"} : setImageRequestStatus(p, s)

ImageInit == BuildsInit /\ CatalogInit
ImageNext == CatalogNext \/ (BuildsNext /\ UNCHANGED catalogVars)

ImageSpec == ImageInit /\ [][ImageNext]_imageVars

---------------------------------------------------------------------------
CatalogTypeOK ==
    /\ tag # NoTag => tag.digest \in 1..pushes
    /\ syncing.pc \in {"idle", "find", "write"}
    /\ syncing.status \in {"none", "sync_requested", "degraded", "synced"}
    /\ publisher.left \subseteq ImageProjects
    /\ \A p \in ImageProjects : requests[p].status \in {"none", "pending", "approved", "rejected"}

\* Every rule publishCatalog writes for the digest its gate saw is for an
\* image that passed the scan and was signed, however runners overlap, builds
\* are cancelled and rerun, and the tag moves; a build that reads "succeeded"
\* was signed.  (The row may still change between the gate and the rule: the
\* gated digest is then not the one in the rule.)
PublishedVerified ==
    /\ \A p \in ImageProjects :
          (rules[p] # NoRule /\ rules[p].digest = rules[p].gated) => rules[p].digest \in signed
    /\ \A b \in DOMAIN builds :
          (builds[b] # NoBuild /\ builds[b].status = "succeeded") => builds[b].digest \in signed
=============================================================================
