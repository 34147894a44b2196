----------------------------- MODULE JobContract -----------------------------
(***************************************************************************)
(* What the platform promises of a job and its quota: quota is reserved    *)
(* before the job is accepted, the job keeps it until it has ended, an     *)
(* ended job stays ended, and its quota is then given back, once.          *)
(***************************************************************************)

CONSTANT Jobs

VARIABLES
    phase,  \* "absent", "live" or "ended"
    quota   \* "free", "held" or "returned"

vars == <<phase, quota>>

Init ==
    /\ phase = [j \in Jobs |-> "absent"]
    /\ quota = [j \in Jobs |-> "free"]

Reserve(j) ==
    /\ phase[j] = "absent" /\ quota[j] = "free"
    /\ quota' = [quota EXCEPT ![j] = "held"]
    /\ UNCHANGED phase

Accept(j) ==
    /\ phase[j] = "absent" /\ quota[j] = "held"
    /\ phase' = [phase EXCEPT ![j] = "live"]
    /\ UNCHANGED quota

\* A submission that is not accepted gives its quota back.
Reject(j) ==
    /\ phase[j] = "absent" /\ quota[j] = "held"
    /\ quota' = [quota EXCEPT ![j] = "returned"]
    /\ UNCHANGED phase

End(j) ==
    /\ phase[j] = "live"
    /\ phase' = [phase EXCEPT ![j] = "ended"]
    /\ UNCHANGED quota

Return(j) ==
    /\ phase[j] = "ended" /\ quota[j] = "held"
    /\ quota' = [quota EXCEPT ![j] = "returned"]
    /\ UNCHANGED phase

Next == \E j \in Jobs : Reserve(j) \/ Accept(j) \/ Reject(j) \/ End(j) \/ Return(j)

Spec == Init /\ [][Next]_vars /\ \A j \in Jobs : WF_vars(Return(j))
=============================================================================
