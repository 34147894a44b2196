SPECIFICATION Spec
CONSTANTS
    j1 = j1
    j2 = j2
    Jobs = {j1}
    NoJob = none
    Replicas = {r1}
    PlanReapers = {s1}
    Preemptors = {}
    Priority <- MCPriority
    MaxJobsPerRun = 1
    RetryMax = 2
    MaxFaults = 0
PROPERTY EvictionKeepsTerminal
