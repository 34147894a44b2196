---- MODULE MCStorage ----
(***************************************************************************)
(* Fast-stage transfers and storage mounts on one small instance.  They    *)
(* share no state here, so in each behaviour one moves: focus names it.    *)
(* MCServices adds the other services and is what TLC runs.                *)
(***************************************************************************)
EXTENDS FastTransfer, StorageMounts

VARIABLE focus

storageVars == <<transferVars, mountVars>>

(***************************************************************************)
(* Transfers: "move" runs movers to their end against one request that     *)
(* cancels; "start" has requests with idempotency keys racing.             *)
(***************************************************************************)

CONSTANT Canceller

TransferFoci == {"move", "start"}

TransferPart ==
    /\ focus \in TransferFoci
    /\ UNCHANGED mountVars
    /\ TransferNext
    /\ focus = "move" =>
         /\ \A t \in Transfers : transfers'[t] # NoTransfer => ~transfers'[t].keyed
         /\ treq'[Canceller].pc \in {"idle", "cancel"}
    /\ focus = "start" =>
         \A n \in TransferNames :
           movers'[n].attempt <= 1 /\ movers'[n].pc \in {"none", "begin"} /\ movers'[n].seen = NoTransfer

(***************************************************************************)
(* Mounts: "shares" moves bindings, "access" permissions and policies,     *)
(* "staging" profiles and the cache, "repairs" the share managers.  The    *)
(* other dispatchers share volumes in the first, make scratch claims and   *)
(* pods in the third.  A volume is mounted alike when created and when     *)
(* running: "access" has the former.  No plan reads the access mode of the *)
(* checkpoint profile: "staging" keeps one.                                *)
(***************************************************************************)

CONSTANTS FirstGroup, FirstJob

MountFoci == {"shares", "access", "staging", "repairs"}

MCWants ==
    [j \in MountJobs |-> IF j = FirstJob THEN [mount |-> "rw", stage |-> TRUE, keyed |-> TRUE]
                                         ELSE [mount |-> "ro", stage |-> FALSE, keyed |-> FALSE]]

OneJob == \A j \in MountJobs \ {FirstJob} : mounted'[j] = "waiting" /\ mounter'.job # j

MountPart ==
    /\ focus \in MountFoci
    /\ UNCHANGED transferVars
    /\ \/ /\ focus = "shares"
          /\ StorageRequest \/ DispatchStep \/ (OtherDispatcher /\ UNCHANGED <<scratchClaim, mounted>>)
          /\ UNCHANGED <<permission, policy, volume, profile, cached>>
       \/ /\ focus = "access"
          /\ StorageRequest \/ DispatchStep
          /\ OneJob
          /\ binding' \in {FirstGroup, NoGroup}
          /\ \A g \in VolumeGroups \ {FirstGroup} :
               /\ volume'[g] = volume[g] /\ policy'[g] = policy[g]
               /\ permission'.groups[g] = permission.groups[g]
          /\ volume'[FirstGroup] # "running"
          /\ UNCHANGED <<profile, cached>>
       \/ /\ focus = "staging"
          /\ StorageRequest \/ DispatchStep \/ (OtherDispatcher /\ UNCHANGED <<sharePV, shareClaim>>)
          /\ OneJob
          /\ UNCHANGED <<permission, policy, volume, binding>>
          /\ profile'.checkpoint # "ReadWriteOnce"
       \/ /\ focus = "repairs"
          /\ RepairStep \/ DispatchStep
          /\ \A g \in VolumeGroups \ {FirstGroup} : manager'[g] = manager[g]

(***************************************************************************)
(* The composition.                                                        *)
(***************************************************************************)

StorageFoci == TransferFoci \cup MountFoci

StorageInit ==
    /\ TransferInit /\ MountInit
    /\ focus # "shares" => binding = FirstGroup /\ \A g \in VolumeGroups : driver[g] = "longhorn"

StoragePart == TransferPart \/ MountPart

StorageTypeOK == TransferTypeOK /\ MountTypeOK
====
