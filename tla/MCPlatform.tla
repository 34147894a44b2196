----------------------------- MODULE MCPlatform -----------------------------
(***************************************************************************)
(* Small instances of the platform components, and of the mirror of the    *)
(* accounts in the LDAP directory.  They share no state, so a              *)
(* behaviour moves only the one component it is about, the focus, and the  *)
(* state spaces add up instead of multiplying.                             *)
(***************************************************************************)
EXTENDS Projection, EventRelay, RecordStore, Identity

VARIABLE focus

platformVars == <<focus, projectionVars, relayVars, storeVars, idVars>>

MCReadModels ==
    {<<c, r>> \in (DOMAIN Reconciled) \X (DOMAIN OwnerEvents) : r \in Reconciled[c]}
    \cup {<<c, r>> \in (DOMAIN Unreconciled) \X (DOMAIN OwnerEvents) : r \in Unreconciled[c]}

\* Every read model without faults, and one with a fault and with overlapping runs.
MCShapes ==
    {[consumer |-> m[1], res |-> m[2], width |-> 1, faults |-> 0] : m \in MCReadModels}
    \cup {[consumer |-> "image", res |-> "projects", width |-> w, faults |-> 2 - w] : w \in 1..2}

\* Where the focus is elsewhere one read model is as good as another.
MCAnyShape == CHOOSE s \in Shapes : TRUE

\* Accounts are created, given passwords and deleted while the mirror task runs.
MCDirectory ==
    \/ MirrorStep
    \/ \E c \in IdCallers :
          /\ AccountStep(c)
          /\ idreq[c].pc = "idle" => idreq'[c].kind \in {"create", "password", "delete"}

Init ==
    /\ ProjectionInit /\ RelayInit /\ StoreInit /\ IdentityInit
    /\ ldapOn /\ \A n \in IdNames : acct[n] # NoAccount => acct[n].id = 1
    /\ \/ focus = "projection"
       \/ focus \in {"relay", "store", "directory"} /\ shape = MCAnyShape
    /\ focus # "directory" => \A n \in IdNames : acct[n] = NoAccount

Next ==
    /\ UNCHANGED focus
    /\ \/ /\ focus = "projection" /\ UNCHANGED <<relayVars, storeVars, idVars>>
          /\ ProjectionNext
       \/ /\ focus = "relay" /\ UNCHANGED <<projectionVars, storeVars, idVars>>
          /\ RelayNext
       \/ /\ focus = "store" /\ UNCHANGED <<projectionVars, relayVars, idVars>>
          /\ StoreNext
       \/ /\ focus = "directory" /\ UNCHANGED <<projectionVars, relayVars, storeVars>>
          /\ MCDirectory

Spec ==
    /\ Init
    /\ [][Next]_platformVars
    /\ SF_projectionVars(focus = "projection" /\ ProjectionTick)
    /\ \A r \in Runners : WF_projectionVars(focus = "projection" /\ ProjectionRun(r))
    /\ \A r \in Replicas : WF_relayVars(focus = "relay" /\ RelayStep(r))
    /\ WF_idVars(focus = "directory" /\ MirrorStep)
=============================================================================
