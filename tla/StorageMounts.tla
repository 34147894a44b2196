--------------------------- MODULE StorageMounts ---------------------------
(* Group storage and its way into a job's pods.  storage-service keeps the   *)
(* rows: a group's volume, the project's binding to it, permissions, storage *)
(* profiles and dataset caches.  The dispatcher of workload-service asks it  *)
(* for a mount plan and a data-plane plan, and makes the claims they name in *)
(* the project's namespace: a shared claim is a static PersistentVolume over *)
(* the group's volume and a claim that names it.  The dispatcher's lease     *)
(* lasts one interval and is not renewed, so while one dispatcher waits for  *)
(* a volume others work in the same namespace, even on the same job: one is  *)
(* followed, and the others make claims and volumes under it.  A maintenance *)
(* task of storage-service restarts failed share managers of Longhorn        *)
(* volumes.                                                                  *)
(* One project, one user, and one volume id, which each group may have.      *)
EXTENDS Naturals, FiniteSets

CONSTANTS VolumeGroups,
          MountJobs,
          MountWants,       \* job -> [mount : {"", "ro", "rw"}, stage, keyed : BOOLEAN]
          NoGroup

ASSUME MountAssumption == NoGroup \notin VolumeGroups

VARIABLES volume,       \* group -> status of its group_storage row
          binding,      \* the group the project's binding names
          permission,   \* [project : .., groups : ..]: permission rows of the user
          policy,       \* group -> default permission of its policy row
          profile,      \* access mode of the scratch and the checkpoint profile
          cached,       \* is there a cache binding for the dataset key?
          driver,       \* group -> storage driver of the volume
          sharePV,      \* PersistentVolume name -> the group it points at
          shareClaim,   \* PersistentVolume the shared claim names
          scratchClaim, \* job -> access mode of its scratch claim
          mounted,      \* job -> waiting, running or over
          mounter,      \* the dispatcher; history adopted: what a create of its met
          manager,      \* group -> share manager pod: ready, failed or away
          cooling,      \* groups whose repair annotation is recent
          repairer      \* the longhorn-rwx-health task

storageRows == <<volume, binding, permission, policy, profile, cached>>
clusterVars == <<driver, sharePV, shareClaim, scratchClaim, manager, cooling>>
mountVars == <<storageRows, clusterVars, mounted, mounter, repairer>>

VolumeStatuses == {"created", "running", "stopped"}
Permissions == {"none", "read_only", "read_write"}
AccessModes == {"ReadWriteOnce", "ReadWriteMany"}
(* "other" is a driver that cannot be shared, or a volume that is not RWX.    *)
Drivers == {"longhorn", "juicefs", "other"}
ShareNames == {"share-nfs", "share-juicefs"}
MounterIdle == [pc |-> "idle", job |-> "", phase |-> "", group |-> NoGroup,
                mount |-> NoGroup, stage |-> NoGroup, mode |-> "", adopted |-> {}]
(* The access modes of local-nvme-scratch and cephfs-rwx-authority.           *)
defaultStorageProfiles == [scratch |-> "ReadWriteOnce", checkpoint |-> "ReadWriteMany"]
RepairerIdle == [pc |-> "idle", group |-> NoGroup]

MountInit ==
    /\ volume = [g \in VolumeGroups |-> "created"]
    /\ binding \in VolumeGroups
    /\ permission = [project |-> "", groups |-> [g \in VolumeGroups |-> ""]]
    /\ policy = [g \in VolumeGroups |-> "read_write"]
    /\ profile = defaultStorageProfiles
    /\ cached = FALSE
    /\ driver \in [VolumeGroups -> Drivers]
    /\ sharePV = [v \in ShareNames |-> NoGroup]
    /\ shareClaim = ""
    /\ scratchClaim = [j \in MountJobs |-> ""]
    /\ mounted = [j \in MountJobs |-> "waiting"]
    /\ mounter = MounterIdle
    /\ manager = [g \in VolumeGroups |-> "ready"]
    /\ cooling = {}
    /\ repairer = RepairerIdle

-----------------------------------------------------------------------------
(* Requests about the rows                                                   *)

createGroupStorage(g) ==
    /\ volume[g] = ""
    /\ volume' = [volume EXCEPT ![g] = "created"]
    /\ UNCHANGED <<binding, permission, policy, profile, cached>>

(* DeleteGroupStorageCascadeTx: the volume with the group's permissions and   *)
(* policy; bindings and project permissions stay.                             *)
DeleteGroupStorageCascadeTx(g) ==
    /\ volume[g] # ""
    /\ volume' = [volume EXCEPT ![g] = ""]
    /\ permission' = [permission EXCEPT !.groups[g] = ""]
    /\ policy' = [policy EXCEPT ![g] = ""]
    /\ UNCHANGED <<binding, profile, cached>>

commandGroupStorage(g, status) ==
    /\ volume[g] # "" /\ status \in {"running", "stopped"}
    /\ volume' = [volume EXCEPT ![g] = status]
    /\ UNCHANGED <<binding, permission, policy, profile, cached>>

createStoragePermission(g, perm) ==
    /\ permission' = [permission EXCEPT !.groups[g] = perm]
    /\ UNCHANGED <<volume, binding, policy, profile, cached>>

deleteStoragePermission(g) ==
    /\ permission.groups[g] # ""
    /\ permission' = [permission EXCEPT !.groups[g] = ""]
    /\ UNCHANGED <<volume, binding, policy, profile, cached>>

createStoragePolicy(g, perm) ==
    /\ policy' = [policy EXCEPT ![g] = perm]
    /\ UNCHANGED <<volume, binding, permission, profile, cached>>

(* The id of a binding is the project and the volume id, whoever owns it.     *)
createProjectBinding(g) ==
    /\ binding = NoGroup
    /\ binding' = g
    /\ UNCHANGED <<volume, permission, policy, profile, cached>>

DeleteProjectBindingCascadeTx ==
    /\ binding # NoGroup
    /\ binding' = NoGroup
    /\ permission' = [permission EXCEPT !.project = ""]
    /\ UNCHANGED <<volume, policy, profile, cached>>

setProjectBindingPermission(perm) ==
    /\ permission' = [permission EXCEPT !.project = perm]
    /\ UNCHANGED <<volume, binding, policy, profile, cached>>

deleteProjectBindingPermission ==
    /\ permission.project # ""
    /\ permission' = [permission EXCEPT !.project = ""]
    /\ UNCHANGED <<volume, binding, policy, profile, cached>>

createStorageProfile(k, mode) ==
    /\ profile[k] = ""
    /\ profile' = [profile EXCEPT ![k] = mode]
    /\ UNCHANGED <<volume, binding, permission, policy, cached>>

(* Updating a profile that is not there creates it.                           *)
updateStorageProfile(k, mode) ==
    /\ profile' = [profile EXCEPT ![k] = mode]
    /\ UNCHANGED <<volume, binding, permission, policy, cached>>

(* A start of the service brings back a default profile that was deleted.     *)
seedDefaultStorageProfiles ==
    /\ profile' = [k \in DOMAIN profile |->
                     IF profile[k] = "" THEN defaultStorageProfiles[k] ELSE profile[k]]
    /\ UNCHANGED <<volume, binding, permission, policy, cached>>

deleteStorageProfile(k) ==
    /\ profile[k] # ""
    /\ profile' = [profile EXCEPT ![k] = ""]
    /\ UNCHANGED <<volume, binding, permission, policy, cached>>

upsertCacheBinding ==
    /\ cached' = TRUE
    /\ UNCHANGED <<volume, binding, permission, policy, profile>>

deleteCacheBinding ==
    /\ cached /\ cached' = FALSE
    /\ UNCHANGED <<volume, binding, permission, policy, profile>>

StorageRequest ==
    /\ \/ \E g \in VolumeGroups :
            \/ createGroupStorage(g) \/ DeleteGroupStorageCascadeTx(g)
            \/ \E s \in VolumeStatuses : commandGroupStorage(g, s)
            \/ createProjectBinding(g) \/ deleteStoragePermission(g)
            \/ \E p \in Permissions : createStoragePermission(g, p) \/ createStoragePolicy(g, p)
       \/ DeleteProjectBindingCascadeTx \/ deleteProjectBindingPermission
       \/ \E p \in Permissions : setProjectBindingPermission(p)
       \/ \E k \in DOMAIN profile :
            \/ deleteStorageProfile(k)
            \/ \E m \in AccessModes : createStorageProfile(k, m) \/ updateStorageProfile(k, m)
       \/ seedDefaultStorageProfiles \/ upsertCacheBinding \/ deleteCacheBinding
    /\ UNCHANGED <<clusterVars, mounted, mounter, repairer>>

-----------------------------------------------------------------------------
(* Resolving a plan                                                          *)

EffectiveStoragePermission(g) ==
    CASE permission.project # "" -> permission.project
      [] permission.project = "" /\ permission.groups[g] # "" -> permission.groups[g]
      [] permission.project = "" /\ permission.groups[g] = "" /\ policy[g] # "" -> policy[g]
      [] OTHER -> "none"

storagePermissionAllows(perm, readOnly) ==
    perm = "read_write" \/ (readOnly /\ perm = "read_only")

storageSourceDispatchReady(g) == volume[g] # "stopped"

(* What the job's record asks for: a mount of the volume, and whether         *)
(* read-only; scratch space with a dataset staged in, and whether by a key.   *)
storageMountPlanSelectorsFromJob(j) == MountWants[j].mount # ""
storageMountReadOnly(j) == MountWants[j].mount = "ro"
dataPlaneSpecFromJob(j) == MountWants[j].stage
datasetHasCacheKey(j) == MountWants[j].keyed

MounterGoes(pc) == mounter' = [mounter EXCEPT !.pc = pc]
MounterLeaves == UNCHANGED <<storageRows, manager, cooling, driver, repairer>>
ShareName(g) == IF driver[g] = "longhorn" THEN "share-nfs" ELSE "share-juicefs"
NoCluster == UNCHANGED <<sharePV, shareClaim, scratchClaim>>

(* A plan the service refuses fails the job for good; one it could not make,  *)
(* and an error of the cluster, put the job back for a later attempt, or fail *)
(* it when it has no attempt left.  Pods another dispatcher made go on.       *)
JobLeft(s) == mounted' = [mounted EXCEPT ![mounter.job] = IF @ = "running" THEN @ ELSE s]

FailDispatch == JobLeft("over") /\ mounter' = MounterIdle

handleDispatchCreateError ==
    /\ \E s \in {"waiting", "over"} : JobLeft(s)
    /\ mounter' = MounterIdle

(* What the dispatcher does once a claim it needed is there.                  *)
AfterMount == IF dataPlaneSpecFromJob(mounter.job) THEN "profiles" ELSE "create"

dispatchJob(j) ==
    /\ mounter.pc = "idle" /\ mounted[j] = "waiting"
    /\ LET asks == storageMountPlanSelectorsFromJob(j) IN
       mounter' = [MounterIdle EXCEPT !.job = j,
                                      !.phase = IF asks THEN "mount" ELSE "stage",
                                      !.pc = IF asks THEN "binding" ELSE "profiles"]
    /\ NoCluster /\ MounterLeaves /\ UNCHANGED mounted

(* The data-plane plan begins with the two profiles.                          *)
resolveStorageDataPlanePlan ==
    /\ mounter.pc = "profiles"
    /\ \/ /\ "" \in {profile.scratch, profile.checkpoint}
          /\ FailDispatch
       \/ /\ "" \notin {profile.scratch, profile.checkpoint}
          /\ mounter' = [mounter EXCEPT !.pc = "binding", !.phase = "stage", !.mode = profile.scratch]
          /\ UNCHANGED mounted
    /\ NoCluster /\ MounterLeaves

findProjectStorageBinding ==
    /\ mounter.pc = "binding"
    /\ \/ binding = NoGroup /\ FailDispatch
       \/ /\ binding # NoGroup
          /\ mounter' = [mounter EXCEPT !.pc = "source", !.group = binding]
          /\ UNCHANGED mounted
    /\ NoCluster /\ MounterLeaves

findGroupStorageSource ==
    LET ready == volume[mounter.group] # "" /\ storageSourceDispatchReady(mounter.group) IN
    /\ mounter.pc = "source"
    /\ \/ ~ready /\ FailDispatch
       \/ ready /\ MounterGoes("permission") /\ UNCHANGED mounted
    /\ NoCluster /\ MounterLeaves

(* findDataPlaneCacheBinding: only a source with a cache key can be cached.   *)
findDataPlaneCacheBinding == datasetHasCacheKey(mounter.job) /\ cached

(* The last read of either plan, and the operation it answers with.           *)
resolveStorageMountPlan ==
    LET g == mounter.group
        allowed == storagePermissionAllows(EffectiveStoragePermission(g),
                                           storageMountReadOnly(mounter.job))
    IN  /\ mounter.pc = "permission" /\ mounter.phase = "mount"
        /\ \/ ~allowed /\ FailDispatch
           \/ /\ allowed
              /\ mounter' = [mounter EXCEPT !.pc = "share", !.mount = g]
              /\ UNCHANGED mounted
        /\ NoCluster /\ MounterLeaves

resolveStorageDataPlaneStageIn ==
    LET g == mounter.group
        allowed == storagePermissionAllows(EffectiveStoragePermission(g), TRUE)
    IN  /\ mounter.pc = "permission" /\ mounter.phase = "stage"
        /\ \/ ~allowed /\ FailDispatch
           \/ /\ allowed
              /\ mounter' = [mounter EXCEPT !.pc = "scratch",
                                !.stage = IF findDataPlaneCacheBinding THEN NoGroup ELSE g]
              /\ UNCHANGED mounted
        /\ NoCluster /\ MounterLeaves

(* No plan can be had now: storage-service fails or does not answer.          *)
PlanUnavailable ==
    /\ mounter.pc \in {"profiles", "binding", "source", "permission"}
    /\ handleDispatchCreateError
    /\ NoCluster /\ MounterLeaves

(* No claim can be had now: the source is not bound in time, the API server   *)
(* fails, or the dispatcher stops.                                            *)
ClaimUnavailable ==
    /\ mounter.pc \in {"scratch", "make", "share", "volume", "claim"}
    /\ handleDispatchCreateError
    /\ NoCluster /\ MounterLeaves

-----------------------------------------------------------------------------
(* EnsurePVC and EnsurePVCMounted: each looks for the claim, and creates what *)
(* it did not find.  A create that is answered with AlreadyExists counts as   *)
(* done, whatever is there.                                                   *)

MounterMakes(pc, what, exists) ==
    mounter' = [mounter EXCEPT !.pc = pc, !.adopted = IF exists THEN @ \cup {what} ELSE @]

AfterScratch == IF mounter.stage = NoGroup THEN "create" ELSE "share"
AfterShare == IF mounter.phase = "mount" THEN AfterMount ELSE "create"

(* EnsurePVC: a claim that is found has to allow the access mode.             *)
EnsurePVC ==
    LET claim == scratchClaim[mounter.job]
    IN  /\ mounter.pc = "scratch"
        /\ \/ claim = mounter.mode /\ MounterGoes(AfterScratch) /\ UNCHANGED mounted
           \/ claim = "" /\ MounterGoes("make") /\ UNCHANGED mounted
           \/ claim \notin {"", mounter.mode} /\ handleDispatchCreateError
        /\ NoCluster /\ MounterLeaves

MadeScratch == [scratchClaim EXCEPT ![mounter.job] = IF @ = "" THEN mounter.mode ELSE @]

createPVC ==
    /\ mounter.pc = "make"
    /\ scratchClaim' = MadeScratch
    /\ MounterMakes(AfterScratch, "scratch", scratchClaim[mounter.job] # "")
    /\ MounterLeaves /\ UNCHANGED <<mounted, sharePV, shareClaim>>

JuiceFSTargetAny(g) == shareClaim = "share-juicefs"

ensureExistingJuiceFSTarget(g) == shareClaim = "share-juicefs" /\ sharePV[shareClaim] = g

(* A share manager with a ready NFS endpoint.                                 *)
resolveLonghornShareEndpoint(g) == manager[g] = "ready"

longhornTargetPVHealthy(g) == sharePV[shareClaim] = g

(* Kubernetes takes an update of a PersistentVolume (new mount options) only   *)
(* while its source stays the same: the source is immutable.                  *)
UpdatePersistentVolume(g) == sharePV[shareClaim] = g

(* The claim has to be an NFS share and the endpoint ready; a share that is   *)
(* not as it should be is updated.                                            *)
ensureExistingLonghornTarget(g) ==
    /\ shareClaim = "share-nfs" /\ resolveLonghornShareEndpoint(g)
    /\ longhornTargetPVHealthy(g) \/ UpdatePersistentVolume(g)

(* The claim is there already.                                                *)
MountExisting ==
    LET g == mounter.group
        ok == \/ driver[g] = "juicefs" /\ ensureExistingJuiceFSTarget(g)
              \/ driver[g] = "longhorn" /\ ensureExistingLonghornTarget(g)
    IN  /\ mounter.pc = "share" /\ shareClaim # ""
        /\ \/ ok /\ MounterGoes(AfterShare) /\ UNCHANGED mounted
           \/ ~ok /\ handleDispatchCreateError
        /\ NoCluster /\ MounterLeaves

(* The claim is not there.                                                    *)
mountJuiceFSVolume(g) == driver[g] = "juicefs"

mountLonghornVolume(g) == driver[g] = "longhorn" /\ resolveLonghornShareEndpoint(g)

EnsurePVCMounted ==
    LET ok == mountJuiceFSVolume(mounter.group) \/ mountLonghornVolume(mounter.group) IN
    /\ mounter.pc = "share" /\ shareClaim = ""
    /\ \/ ok /\ MounterGoes("volume") /\ UNCHANGED mounted
       \/ ~ok /\ handleDispatchCreateError
    /\ NoCluster /\ MounterLeaves

(* The PersistentVolume is made ...                                           *)
MadeShare == [sharePV EXCEPT ![ShareName(mounter.group)] = IF @ = NoGroup THEN mounter.group ELSE @]

createSharePV ==
    /\ mounter.pc = "volume"
    /\ sharePV' = MadeShare
    /\ MounterMakes("claim", "share", sharePV[ShareName(mounter.group)] # NoGroup)
    /\ MounterLeaves /\ UNCHANGED <<mounted, shareClaim, scratchClaim>>

(* ... and then the claim that names it.                                      *)
MadeClaim == IF shareClaim = "" THEN ShareName(mounter.group) ELSE shareClaim

createStaticSharePVC ==
    /\ mounter.pc = "claim"
    /\ shareClaim' = MadeClaim
    /\ MounterMakes(AfterShare, "share", shareClaim # "")
    /\ MounterLeaves /\ UNCHANGED <<mounted, sharePV, scratchClaim>>

(* The API server carries out a create whose answer the dispatcher never gets.*)
CreateAnswerLost ==
    /\ \/ mounter.pc = "make" /\ scratchClaim' = MadeScratch /\ UNCHANGED <<sharePV, shareClaim>>
       \/ mounter.pc = "volume" /\ sharePV' = MadeShare /\ UNCHANGED <<shareClaim, scratchClaim>>
       \/ mounter.pc = "claim" /\ shareClaim' = MadeClaim /\ UNCHANGED <<sharePV, scratchClaim>>
    /\ handleDispatchCreateError /\ MounterLeaves

(* The manifests are made and the job runs, or making them fails for good or  *)
(* for now and the job's pods are deleted.                                    *)
CreatePods ==
    /\ mounter.pc = "create"
    /\ \E s \in {"running", "waiting", "over"} : mounted' = [mounted EXCEPT ![mounter.job] = s]
    /\ mounter' = MounterIdle
    /\ NoCluster /\ MounterLeaves

(* The other dispatchers create by plans of their own, and run jobs.          *)
OtherDispatcher ==
    /\ \/ \E g \in VolumeGroups :
            /\ driver[g] # "other" /\ sharePV[ShareName(g)] = NoGroup
            /\ sharePV' = [sharePV EXCEPT ![ShareName(g)] = g]
            /\ UNCHANGED <<shareClaim, scratchClaim, mounted>>
       \/ \E v \in ShareNames :
            /\ shareClaim = "" /\ sharePV[v] # NoGroup
            /\ shareClaim' = v
            /\ UNCHANGED <<sharePV, scratchClaim, mounted>>
       \/ \E j \in MountJobs, mode \in AccessModes :
            /\ mounted[j] = "waiting" /\ scratchClaim[j] = ""
            /\ scratchClaim' = [scratchClaim EXCEPT ![j] = mode]
            /\ UNCHANGED <<sharePV, shareClaim, mounted>>
       \/ \E j \in MountJobs :
            /\ mounted[j] = "waiting"
            /\ mounted' = [mounted EXCEPT ![j] = "running"]
            /\ NoCluster
    /\ MounterLeaves /\ UNCHANGED mounter

PodsEnd(j) ==
    /\ mounted[j] = "running"
    /\ mounted' = [mounted EXCEPT ![j] = "over"]
    /\ NoCluster /\ MounterLeaves /\ UNCHANGED mounter

DispatchStep ==
    \/ \E j \in MountJobs : dispatchJob(j) \/ PodsEnd(j)
    \/ resolveStorageDataPlanePlan \/ findProjectStorageBinding \/ findGroupStorageSource
    \/ resolveStorageMountPlan \/ resolveStorageDataPlaneStageIn \/ PlanUnavailable
    \/ EnsurePVC \/ createPVC \/ MountExisting \/ EnsurePVCMounted \/ createSharePV
    \/ createStaticSharePVC \/ ClaimUnavailable \/ CreateAnswerLost \/ CreatePods

-----------------------------------------------------------------------------
(* The longhorn-rwx-health task                                              *)

RepairLeaves == UNCHANGED <<storageRows, driver, sharePV, shareClaim, scratchClaim,
                            mounted, mounter>>
RepairerGoes(pc) == repairer' = [repairer EXCEPT !.pc = pc]

longhornShareEndpointMode(g) == manager[g] = "ready"
longhornRepairInCooldown(g) == g \in cooling

(* reconcileLonghornRWXVolume: the volume is not available, auto repair is on *)
(* and neither its snapshots nor its last repair forbid another.              *)
reconcileLonghornRWXVolume(g) ==
    /\ repairer.pc = "idle"
    /\ driver[g] = "longhorn" /\ ~longhornShareEndpointMode(g)
    /\ ~longhornRepairInCooldown(g)
    /\ repairer' = [pc |-> "consumers", group |-> g]
    /\ RepairLeaves /\ UNCHANGED <<manager, cooling>>

(* Pods of a running job that mount a claim over the volume.                  *)
longhornVolumeHasActiveConsumers(g) ==
    /\ shareClaim = "share-nfs" /\ sharePV[shareClaim] = g
    /\ \E j \in MountJobs : mounted[j] = "running"

maybeRepairLonghornRWXVolume ==
    /\ repairer.pc = "consumers"
    /\ \/ longhornVolumeHasActiveConsumers(repairer.group) /\ repairer' = RepairerIdle
       \/ ~longhornVolumeHasActiveConsumers(repairer.group) /\ RepairerGoes("pods")
    /\ RepairLeaves /\ UNCHANGED <<manager, cooling>>

failedLonghornShareManagerPods ==
    /\ repairer.pc = "pods"
    /\ \/ manager[repairer.group] = "failed" /\ RepairerGoes("annotate")
       \/ manager[repairer.group] # "failed" /\ repairer' = RepairerIdle
    /\ RepairLeaves /\ UNCHANGED <<manager, cooling>>

annotateLonghornRWXRepair ==
    /\ repairer.pc = "annotate"
    /\ cooling' = cooling \cup {repairer.group}
    /\ RepairerGoes("delete")
    /\ RepairLeaves /\ UNCHANGED manager

DeleteShareManager ==
    /\ repairer.pc = "delete"
    /\ manager' = [manager EXCEPT ![repairer.group] = "away"]
    /\ repairer' = RepairerIdle
    /\ RepairLeaves /\ UNCHANGED cooling

RepairError ==
    /\ repairer.pc # "idle"
    /\ repairer' = RepairerIdle
    /\ RepairLeaves /\ UNCHANGED <<manager, cooling>>

CooldownEnds(g) ==
    /\ g \in cooling
    /\ cooling' = cooling \ {g}
    /\ RepairLeaves /\ UNCHANGED <<manager, repairer>>

(* Longhorn: a share manager fails, or comes back.                            *)
LonghornManager(g) ==
    /\ driver[g] = "longhorn"
    /\ \E s \in {"ready", "failed"} : manager' = [manager EXCEPT ![g] = s]
    /\ RepairLeaves /\ UNCHANGED <<cooling, repairer>>

RepairStep ==
    \/ \E g \in VolumeGroups :
         reconcileLonghornRWXVolume(g) \/ CooldownEnds(g) \/ LonghornManager(g)
    \/ maybeRepairLonghornRWXVolume \/ failedLonghornShareManagerPods
    \/ annotateLonghornRWXRepair \/ DeleteShareManager \/ RepairError

-----------------------------------------------------------------------------

MountNext == StorageRequest \/ DispatchStep \/ OtherDispatcher \/ RepairStep

MountSpec == MountInit /\ [][MountNext]_mountVars

MountTypeOK ==
    /\ volume \in [VolumeGroups -> VolumeStatuses \cup {""}]
    /\ binding \in VolumeGroups \cup {NoGroup}
    /\ permission.project \in Permissions \cup {""}
    /\ policy \in [VolumeGroups -> Permissions \cup {""}]
    /\ sharePV \in [ShareNames -> VolumeGroups \cup {NoGroup}]
    /\ shareClaim \in ShareNames \cup {""}
    /\ shareClaim # "" => sharePV[shareClaim] # NoGroup
    /\ scratchClaim \in [MountJobs -> AccessModes \cup {""}]
    /\ mounted \in [MountJobs -> {"waiting", "running", "over"}]
    /\ mounter.group \in VolumeGroups \cup {NoGroup}

(* When the dispatcher gets to creating a job's pods, the claim they will     *)
(* mount exists and is backed by the group volume that each plan named, and   *)
(* the scratch claim has the planned access mode: whatever claims and volumes *)
(* earlier jobs and other dispatchers left in the namespace, and however the  *)
(* binding changed after the plan.  The one exception is a create that was    *)
(* answered with AlreadyExists, because another dispatcher or an interrupted  *)
(* attempt was faster, and took what was there                                *)
(* (volume_share.go EnsurePVCMounted, dispatcher_storage.go).                 *)
MountedAsPlanned ==
    mounter.pc = "create" =>
        /\ \A g \in {mounter.mount, mounter.stage} \ {NoGroup} :
             shareClaim # "" /\ (sharePV[shareClaim] = g \/ "share" \in mounter.adopted)
        /\ mounter.mode # "" =>
             /\ scratchClaim[mounter.job] # ""
             /\ scratchClaim[mounter.job] = mounter.mode \/ "scratch" \in mounter.adopted
=============================================================================
