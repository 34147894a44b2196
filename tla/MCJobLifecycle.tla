--------------------------- MODULE MCJobLifecycle ---------------------------
(***************************************************************************)
(* JobLifecycle on small instances, and the contract it is held against.   *)
(***************************************************************************)
EXTENDS JobLifecycle

\* Model values of the configurations.
CONSTANTS j1, j2

\* j1 goes before j2.
MCPriority == [j \in Jobs |-> IF j = j1 THEN 1 ELSE 0]

Contract == INSTANCE JobContract WITH
    phase <- [j \in Jobs |-> IF status[j] = "absent" THEN "absent"
                             ELSE IF status[j] \in TerminalStatuses THEN "ended"
                             ELSE "live"],
    quota <- [j \in Jobs |-> IF res[j] = "none" THEN "free"
                             ELSE IF res[j] = "released" THEN "returned"
                             ELSE "held"]

\* One workload replica alone, without faults, keeps the contract of a job
\* and its quota: see JobContract.
ImplementsContract == Contract!Spec
=============================================================================
